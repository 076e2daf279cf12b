----------------------------- MODULE NFSProofs ------------------------------
(***************************************************************************)
(* Proofs about NFSProvisioner, for any number of volumes, IDs, restarts,  *)
(* concurrent calls and failed or cut-off rewriting of a file, as long as  *)
(* no Delete that failed is called again and ganesha does not restart      *)
(* between the rewriting of its configuration and the Unexport that        *)
(* follows: with either, the properties do not hold.                       *)
(***************************************************************************)
EXTENDS NFSProvisioner, TLAPS

(***************************************************************************)
(* The inductive invariant.                                                *)
(***************************************************************************)
CallShape == \A v \in Volumes :
    /\ call[v] \in {"claim", "live", "failed", "gone"} => at[v] = "none"
    /\ call[v] = "Provision" =>
         at[v] \in ExportSteps \cup ProjectSteps \cup RemoveExportSteps
                     \cup RemoveProjectSteps \cup {"savePV"}
    /\ call[v] = "Delete" =>
         at[v] \in RemoveExportSteps \cup RemoveProjectSteps \cup {"unexport", "deletePV"}
    /\ at[v] \in ProjectSteps \cup RemoveProjectSteps => enableXfsQuota
    /\ call[v] \in {"Provision", "live"} => v \in dirs

\* From addToFile to removeFromFile, v's block stands in the file.
ExportStands(v)  == (HoldsExport(v) /\ at[v] # "addExport") \/ at[v] = "truncateExport"
ProjectStands(v) == HoldsProject(v) /\ at[v] # "addProject"

\* Every ID held is in the map, and held once.
HeldExports ==
    /\ \A v \in Volumes : HoldsExport(v) => eid[v] \in exportIDs
    /\ \A v, w \in Volumes : HoldsExport(v) /\ HoldsExport(w) /\ eid[v] = eid[w] => v = w
HeldProjects ==
    /\ \A v \in Volumes : HoldsProject(v) => pid[v] \in projectIDs
    /\ \A v, w \in Volumes : HoldsProject(v) /\ HoldsProject(w) /\ pid[v] = pid[w] => v = w

ExportsInv ==
    /\ \A c, d \in exportWrite : c = d /\ exportFile = {}
    /\ exportLost # "read" => HeldExports
    /\ exportLost = "none" => \A v \in Volumes : ExportStands(v) => Exports!Kept(exportBlock(v))

ProjectsInv ==
    /\ \A c, d \in projectWrite : c = d /\ projectFile = {}
    /\ projectLost # "read" => HeldProjects
    /\ projectLost = "none" => \A v \in Volumes : ProjectStands(v) => Projects!Kept(projectBlock(v))

\* Who has truncated the export file holds its mutex, alone.
WriterInv ==
    /\ \A v \in Volumes : at[v] = "writeExport" => exportWrite # {}
    /\ \A v, w \in Volumes : at[v] = "writeExport" /\ at[w] = "writeExport" => v = w

\* From Export to Unexport, through the steps in which its ID is free already.
Serving(v) ==
    \/ call[v] = "live"
    \/ call[v] = "Provision" /\ at[v] \in ProjectSteps \cup RemoveProjectSteps \cup {"savePV"}
    \/ call[v] = "Delete" /\ at[v] \in RemoveExportSteps \cup {"unexport"}

ServedInv == useGanesha =>
    /\ \A b, c \in served : b.id = c.id => b = c
    /\ exportLost # "read" => \A v \in Volumes : Serving(v) => exportBlock(v) \in served

LimitsInv == enableXfsQuota /\ projectLost # "read" =>
    \A v \in Volumes : call[v] = "live" \/ at[v] = "savePV" => limits[pid[v]] = v

NFSInv ==
    /\ TypeOK /\ CallShape
    /\ ExportsInv /\ ProjectsInv /\ WriterInv
    /\ ServedInv /\ LimitsInv

\* No Delete is called again, no restart of ganesha overtakes its Unexport.
Careful == faults \cap {"retry", "server"} = {}

-----------------------------------------------------------------------------
Step(v) == ProvisionSteps(v) \/ DeleteSteps(v)

\* Every step keeps to the order of its call.
LEMMA ShapeStep == ASSUME TypeOK, CallShape, NEW v \in Volumes, Step(v)
                   PROVE  CallShape'
<1>1. CASE Provision(v)
  BY <1>1 DEF CallShape, TypeOK, Calls, Provision, Goes, Ends, flags,
      ExportSteps, ProjectSteps, RemoveExportSteps, RemoveProjectSteps
<1>2. CASE GenerateExportID(v)
  BY <1>2 DEF CallShape, TypeOK, Calls, GenerateExportID, Goes, Ends, flags,
      ExportSteps, ProjectSteps, RemoveExportSteps, RemoveProjectSteps
<1>3. CASE AddExportBlock(v)
  BY <1>3 DEF CallShape, TypeOK, Calls, AddExportBlock, Goes, Ends, flags,
      ExportSteps, ProjectSteps, RemoveExportSteps, RemoveProjectSteps
<1>4. CASE AddExportBlockFails(v)
  BY <1>4 DEF CallShape, TypeOK, Calls, AddExportBlockFails, Goes, Ends, flags,
      ExportSteps, ProjectSteps, RemoveExportSteps, RemoveProjectSteps
<1>5. CASE Export(v)
  BY <1>5 DEF CallShape, TypeOK, Calls, Export, Goes, Ends, flags, ExportSteps,
      ProjectSteps, RemoveExportSteps, RemoveProjectSteps
<1>6. CASE ExportFails(v)
  BY <1>6 DEF CallShape, TypeOK, Calls, ExportFails, Goes, Ends, flags,
      ExportSteps, ProjectSteps, RemoveExportSteps, RemoveProjectSteps
<1>7. CASE GenerateProjectID(v)
  BY <1>7 DEF CallShape, TypeOK, Calls, GenerateProjectID, Goes, Ends, flags,
      ExportSteps, ProjectSteps, RemoveExportSteps, RemoveProjectSteps
<1>8. CASE AddProject(v)
  BY <1>8 DEF CallShape, TypeOK, Calls, AddProject, Goes, Ends, flags,
      ExportSteps, ProjectSteps, RemoveExportSteps, RemoveProjectSteps
<1>9. CASE AddProjectFails(v)
  BY <1>9 DEF CallShape, TypeOK, Calls, AddProjectFails, Goes, Ends, flags,
      ExportSteps, ProjectSteps, RemoveExportSteps, RemoveProjectSteps
<1>10. CASE SpecifyProject(v)
  BY <1>10 DEF CallShape, TypeOK, Calls, SpecifyProject, Goes, Ends, flags,
      ExportSteps, ProjectSteps, RemoveExportSteps, RemoveProjectSteps
<1>11. CASE SetQuota(v)
  BY <1>11 DEF CallShape, TypeOK, Calls, SetQuota, Goes, Ends, flags,
      ExportSteps, ProjectSteps, RemoveExportSteps, RemoveProjectSteps
<1>12. CASE SetQuotaFails(v)
  BY <1>12 DEF CallShape, TypeOK, Calls, SetQuotaFails, Goes, Ends, flags,
      ExportSteps, ProjectSteps, RemoveExportSteps, RemoveProjectSteps
<1>13. CASE SavePV(v)
  BY <1>13 DEF CallShape, TypeOK, Calls, SavePV, Goes, Ends, flags,
      ExportSteps, ProjectSteps, RemoveExportSteps, RemoveProjectSteps
<1>14. CASE Delete(v)
  BY <1>14 DEF CallShape, TypeOK, Calls, Delete, Goes, Ends, flags,
      ExportSteps, ProjectSteps, RemoveExportSteps, RemoveProjectSteps
<1>15. CASE FreeExportID(v)
  BY <1>15 DEF CallShape, TypeOK, Calls, FreeExportID, Goes, Ends, flags,
      ExportSteps, ProjectSteps, RemoveExportSteps, RemoveProjectSteps
<1>16. CASE TruncateExports(v)
  BY <1>16 DEF CallShape, TypeOK, Calls, TruncateExports, Goes, Ends, flags,
      ExportSteps, ProjectSteps, RemoveExportSteps, RemoveProjectSteps
<1>17. CASE WriteExports(v)
  BY <1>17 DEF CallShape, TypeOK, Calls, WriteExports, Goes, Ends, flags,
      ExportSteps, ProjectSteps, RemoveExportSteps, RemoveProjectSteps
<1>18. CASE Unexport(v)
  BY <1>18 DEF CallShape, TypeOK, Calls, Unexport, Goes, Ends, flags,
      ExportSteps, ProjectSteps, RemoveExportSteps, RemoveProjectSteps
<1>19. CASE FreeProjectID(v)
  BY <1>19 DEF CallShape, TypeOK, Calls, FreeProjectID, Goes, Ends, flags,
      ExportSteps, ProjectSteps, RemoveExportSteps, RemoveProjectSteps
<1>20. CASE TruncateProjects(v)
  BY <1>20 DEF CallShape, TypeOK, Calls, TruncateProjects, Goes, Ends, flags,
      ExportSteps, ProjectSteps, RemoveExportSteps, RemoveProjectSteps
<1>21. CASE WriteProjects(v)
  BY <1>21 DEF CallShape, TypeOK, Calls, WriteProjects, Goes, Ends, flags,
      ExportSteps, ProjectSteps, RemoveExportSteps, RemoveProjectSteps
<1>22. CASE RollbackFails(v)
  BY <1>22 DEF CallShape, TypeOK, Calls, RollbackFails, Goes, Ends, flags,
      ExportSteps, ProjectSteps, RemoveExportSteps, RemoveProjectSteps
<1>23. CASE DeletePV(v)
  BY <1>23 DEF CallShape, TypeOK, Calls, DeletePV, Goes, Ends, flags,
      ExportSteps, ProjectSteps, RemoveExportSteps, RemoveProjectSteps
<1>24. CASE DeleteFails(v)
  BY <1>24 DEF CallShape, TypeOK, Calls, DeleteFails, Goes, Ends, flags,
      ExportSteps, ProjectSteps, RemoveExportSteps, RemoveProjectSteps
<1>25. CASE WriteExportsFails(v)
  BY <1>25 DEF CallShape, TypeOK, Calls, WriteExportsFails, Goes, Ends, flags,
      ExportSteps, ProjectSteps, RemoveExportSteps, RemoveProjectSteps
<1>26. CASE WriteProjectsFails(v)
  BY <1>26 DEF CallShape, TypeOK, Calls, WriteProjectsFails, Goes, Ends, flags,
      ExportSteps, ProjectSteps, RemoveExportSteps, RemoveProjectSteps
<1> QED
  BY <1>1, <1>2, <1>3, <1>4, <1>5, <1>6, <1>7, <1>8, <1>9, <1>10, <1>11, <1>12,
      <1>13, <1>14, <1>15, <1>16, <1>17, <1>18, <1>19, <1>20, <1>21, <1>22,
      <1>23, <1>24, <1>25, <1>26 DEF Step, ProvisionSteps, DeleteSteps

\* Every step of a call keeps the types.
LEMMA TypeStep == ASSUME TypeOK, NEW v \in Volumes, Step(v)
                  PROVE  TypeOK'
<1>1. CASE Provision(v)
  BY <1>1 DEF TypeOK, Steps, Calls, ExportSteps, ProjectSteps,
      RemoveExportSteps, RemoveProjectSteps, flags, Goes, Ends, Provision,
      Exports!IDFileTypeOK, Exports!Block, Exports!IDs, IDs,
      Projects!IDFileTypeOK, Projects!Block, Projects!IDs, exportVars,
      projectVars
<1>2. CASE GenerateExportID(v)
  BY <1>2 DEF TypeOK, Steps, Calls, ExportSteps, ProjectSteps,
      RemoveExportSteps, RemoveProjectSteps, flags, Goes, Ends,
      GenerateExportID, Exports!IDFileTypeOK, Exports!Block, Exports!IDs, IDs,
      Projects!IDFileTypeOK, Projects!Block, Projects!IDs, exportVars,
      projectVars, Exports!generateID, Exports!IsNext, Exports!Full
<1>3. CASE AddExportBlock(v)
  BY <1>3 DEF TypeOK, Steps, Calls, ExportSteps, ProjectSteps,
      RemoveExportSteps, RemoveProjectSteps, flags, Goes, Ends, AddExportBlock,
      Exports!IDFileTypeOK, Exports!Block, Exports!IDs, IDs,
      Projects!IDFileTypeOK, Projects!Block, Projects!IDs, exportVars,
      projectVars, Exports!addToFile, exportBlock
<1>4. CASE AddExportBlockFails(v)
  BY <1>4 DEF TypeOK, Steps, Calls, ExportSteps, ProjectSteps,
      RemoveExportSteps, RemoveProjectSteps, flags, Goes, Ends,
      AddExportBlockFails, Exports!IDFileTypeOK, Exports!Block, Exports!IDs,
      IDs, Projects!IDFileTypeOK, Projects!Block, Projects!IDs, exportVars,
      projectVars, Exports!deleteID
<1>5. CASE Export(v)
  BY <1>5 DEF TypeOK, Steps, Calls, ExportSteps, ProjectSteps,
      RemoveExportSteps, RemoveProjectSteps, flags, Goes, Ends, Export,
      Exports!IDFileTypeOK, Exports!Block, Exports!IDs, IDs,
      Projects!IDFileTypeOK, Projects!Block, Projects!IDs, exportVars,
      projectVars, exportBlock
<1>6. CASE ExportFails(v)
  BY <1>6 DEF TypeOK, Steps, Calls, ExportSteps, ProjectSteps,
      RemoveExportSteps, RemoveProjectSteps, flags, Goes, Ends, ExportFails,
      Exports!IDFileTypeOK, Exports!Block, Exports!IDs, IDs,
      Projects!IDFileTypeOK, Projects!Block, Projects!IDs, exportVars,
      projectVars
<1>7. CASE GenerateProjectID(v)
  BY <1>7 DEF TypeOK, Steps, Calls, ExportSteps, ProjectSteps,
      RemoveExportSteps, RemoveProjectSteps, flags, Goes, Ends,
      GenerateProjectID, Exports!IDFileTypeOK, Exports!Block, Exports!IDs, IDs,
      Projects!IDFileTypeOK, Projects!Block, Projects!IDs, exportVars,
      projectVars, Projects!generateID, Projects!IsNext, Projects!Full
<1>8. CASE AddProject(v)
  BY <1>8 DEF TypeOK, Steps, Calls, ExportSteps, ProjectSteps,
      RemoveExportSteps, RemoveProjectSteps, flags, Goes, Ends, AddProject,
      Exports!IDFileTypeOK, Exports!Block, Exports!IDs, IDs,
      Projects!IDFileTypeOK, Projects!Block, Projects!IDs, exportVars,
      projectVars, Projects!addToFile, projectBlock
<1>9. CASE AddProjectFails(v)
  BY <1>9 DEF TypeOK, Steps, Calls, ExportSteps, ProjectSteps,
      RemoveExportSteps, RemoveProjectSteps, flags, Goes, Ends,
      AddProjectFails, Exports!IDFileTypeOK, Exports!Block, Exports!IDs, IDs,
      Projects!IDFileTypeOK, Projects!Block, Projects!IDs, exportVars,
      projectVars, Projects!deleteID
<1>10. CASE SpecifyProject(v)
  BY <1>10 DEF TypeOK, Steps, Calls, ExportSteps, ProjectSteps,
      RemoveExportSteps, RemoveProjectSteps, flags, Goes, Ends, SpecifyProject,
      Exports!IDFileTypeOK, Exports!Block, Exports!IDs, IDs,
      Projects!IDFileTypeOK, Projects!Block, Projects!IDs, exportVars,
      projectVars
<1>11. CASE SetQuota(v)
  BY <1>11 DEF TypeOK, Steps, Calls, ExportSteps, ProjectSteps,
      RemoveExportSteps, RemoveProjectSteps, flags, Goes, Ends, SetQuota,
      Exports!IDFileTypeOK, Exports!Block, Exports!IDs, IDs,
      Projects!IDFileTypeOK, Projects!Block, Projects!IDs, exportVars,
      projectVars
<1>12. CASE SetQuotaFails(v)
  BY <1>12 DEF TypeOK, Steps, Calls, ExportSteps, ProjectSteps,
      RemoveExportSteps, RemoveProjectSteps, flags, Goes, Ends, SetQuotaFails,
      Exports!IDFileTypeOK, Exports!Block, Exports!IDs, IDs,
      Projects!IDFileTypeOK, Projects!Block, Projects!IDs, exportVars,
      projectVars
<1>13. CASE SavePV(v)
  BY <1>13 DEF TypeOK, Steps, Calls, ExportSteps, ProjectSteps,
      RemoveExportSteps, RemoveProjectSteps, flags, Goes, Ends, SavePV,
      Exports!IDFileTypeOK, Exports!Block, Exports!IDs, IDs,
      Projects!IDFileTypeOK, Projects!Block, Projects!IDs, exportVars,
      projectVars
<1>14. CASE Delete(v)
  BY <1>14 DEF TypeOK, Steps, Calls, ExportSteps, ProjectSteps,
      RemoveExportSteps, RemoveProjectSteps, flags, Goes, Ends, Delete,
      Exports!IDFileTypeOK, Exports!Block, Exports!IDs, IDs,
      Projects!IDFileTypeOK, Projects!Block, Projects!IDs, exportVars,
      projectVars
<1>15. CASE FreeExportID(v)
  BY <1>15 DEF TypeOK, Steps, Calls, ExportSteps, ProjectSteps,
      RemoveExportSteps, RemoveProjectSteps, flags, Goes, Ends, FreeExportID,
      Exports!IDFileTypeOK, Exports!Block, Exports!IDs, IDs,
      Projects!IDFileTypeOK, Projects!Block, Projects!IDs, exportVars,
      projectVars, Exports!deleteID
<1>16. CASE TruncateExports(v)
  BY <1>16 DEF TypeOK, Steps, Calls, ExportSteps, ProjectSteps,
      RemoveExportSteps, RemoveProjectSteps, flags, Goes, Ends,
      TruncateExports, Exports!IDFileTypeOK, Exports!Block, Exports!IDs, IDs,
      Projects!IDFileTypeOK, Projects!Block, Projects!IDs, exportVars,
      projectVars, Exports!truncate, exportBlock
<1>17. CASE WriteExports(v)
  <2>1. exportFile' \subseteq Exports!Block /\ exportWrite' = {}
    BY <1>17 DEF TypeOK, WriteExports, Exports!IDFileTypeOK, Exports!writeBack
  <2>2. UNCHANGED <<exportIDs, exportHung, exportLost>>
    BY <1>17 DEF WriteExports, Exports!writeBack
  <2> QED
    BY <1>17, <2>1, <2>2 DEF TypeOK, Steps, Calls, ExportSteps, ProjectSteps,
        RemoveExportSteps, RemoveProjectSteps, flags, Goes, Ends, WriteExports,
        Exports!IDFileTypeOK, Exports!IDs, IDs, Projects!IDFileTypeOK,
        Projects!Block, Projects!IDs, exportVars, projectVars
<1>18. CASE Unexport(v)
  BY <1>18 DEF TypeOK, Steps, Calls, ExportSteps, ProjectSteps,
      RemoveExportSteps, RemoveProjectSteps, flags, Goes, Ends, Unexport,
      Exports!IDFileTypeOK, Exports!Block, Exports!IDs, IDs,
      Projects!IDFileTypeOK, Projects!Block, Projects!IDs, exportVars,
      projectVars
<1>19. CASE FreeProjectID(v)
  BY <1>19 DEF TypeOK, Steps, Calls, ExportSteps, ProjectSteps,
      RemoveExportSteps, RemoveProjectSteps, flags, Goes, Ends, FreeProjectID,
      Exports!IDFileTypeOK, Exports!Block, Exports!IDs, IDs,
      Projects!IDFileTypeOK, Projects!Block, Projects!IDs, exportVars,
      projectVars, Projects!deleteID
<1>20. CASE TruncateProjects(v)
  BY <1>20 DEF TypeOK, Steps, Calls, ExportSteps, ProjectSteps,
      RemoveExportSteps, RemoveProjectSteps, flags, Goes, Ends,
      TruncateProjects, Exports!IDFileTypeOK, Exports!Block, Exports!IDs, IDs,
      Projects!IDFileTypeOK, Projects!Block, Projects!IDs, exportVars,
      projectVars, Projects!truncate, projectBlock
<1>21. CASE WriteProjects(v)
  <2>1. projectFile' \subseteq Projects!Block /\ projectWrite' = {}
    BY <1>21 DEF TypeOK, WriteProjects, Projects!IDFileTypeOK,
        Projects!writeBack
  <2>2. UNCHANGED <<projectIDs, projectHung, projectLost>>
    BY <1>21 DEF WriteProjects, Projects!writeBack
  <2> QED
    BY <1>21, <2>1, <2>2 DEF TypeOK, Steps, Calls, ExportSteps, ProjectSteps,
        RemoveExportSteps, RemoveProjectSteps, flags, Goes, Ends,
        WriteProjects, Exports!IDFileTypeOK, Exports!Block, Exports!IDs, IDs,
        Projects!IDFileTypeOK, Projects!IDs, exportVars, projectVars
<1>22. CASE RollbackFails(v)
  BY <1>22 DEF TypeOK, Steps, Calls, ExportSteps, ProjectSteps,
      RemoveExportSteps, RemoveProjectSteps, flags, Goes, Ends, RollbackFails,
      Exports!IDFileTypeOK, Exports!Block, Exports!IDs, IDs,
      Projects!IDFileTypeOK, Projects!Block, Projects!IDs, exportVars,
      projectVars
<1>23. CASE DeletePV(v)
  BY <1>23 DEF TypeOK, Steps, Calls, ExportSteps, ProjectSteps,
      RemoveExportSteps, RemoveProjectSteps, flags, Goes, Ends, DeletePV,
      Exports!IDFileTypeOK, Exports!Block, Exports!IDs, IDs,
      Projects!IDFileTypeOK, Projects!Block, Projects!IDs, exportVars,
      projectVars
<1>24. CASE DeleteFails(v)
  BY <1>24 DEF TypeOK, Steps, Calls, ExportSteps, ProjectSteps,
      RemoveExportSteps, RemoveProjectSteps, flags, Goes, Ends, DeleteFails,
      Exports!IDFileTypeOK, Exports!Block, Exports!IDs, IDs,
      Projects!IDFileTypeOK, Projects!Block, Projects!IDs, exportVars,
      projectVars
<1>25. CASE WriteExportsFails(v)
  <2>1. exportFile' \subseteq Exports!Block /\ exportWrite' = {} /\ Exports!IDFileTypeOK'
    BY <1>25 DEF TypeOK, WriteExportsFails, Exports!IDFileTypeOK, Exports!writeFails, Exports!Loses
  <2> QED
    BY <1>25, <2>1 DEF TypeOK, Steps, Calls, ExportSteps, ProjectSteps,
        RemoveExportSteps, RemoveProjectSteps, flags, Goes, Ends, WriteExportsFails,
        Exports!Block, Exports!IDs, IDs, Projects!IDFileTypeOK,
        Projects!Block, Projects!IDs, exportVars, projectVars
<1>26. CASE WriteProjectsFails(v)
  <2>1. Projects!IDFileTypeOK'
    BY <1>26 DEF TypeOK, WriteProjectsFails, Projects!IDFileTypeOK, Projects!writeFails, Projects!Loses
  <2> QED
    BY <1>26, <2>1 DEF TypeOK, Steps, Calls, ExportSteps, ProjectSteps,
        RemoveExportSteps, RemoveProjectSteps, flags, Goes, Ends, WriteProjectsFails,
        Exports!IDFileTypeOK, Exports!Block, Exports!IDs, IDs, Projects!Block,
        Projects!IDs, exportVars, projectVars
<1> QED
  BY <1>1, <1>2, <1>3, <1>4, <1>5, <1>6, <1>7, <1>8, <1>9, <1>10, <1>11, <1>12,
      <1>13, <1>14, <1>15, <1>16, <1>17, <1>18, <1>19, <1>20, <1>21, <1>22,
      <1>23, <1>24, <1>25, <1>26 DEF Step, ProvisionSteps, DeleteSteps

\* A step that leaves map, file and IDs alone and gives nobody a block.
LEMMA ExportsFrame == ASSUME ExportsInv, UNCHANGED <<exportVars, eid>>,
                             \A w \in Volumes : /\ HoldsExport(w)' => HoldsExport(w)
                                                /\ ExportStands(w)' => ExportStands(w)
                      PROVE  ExportsInv'
<1>1. /\ exportFile' = exportFile /\ exportWrite' = exportWrite /\ exportIDs' = exportIDs /\ eid' = eid
      /\ exportLost' = exportLost
  BY DEF exportVars
<1>2. \A w \in Volumes : Exports!Kept(exportBlock(w))' <=> Exports!Kept(exportBlock(w))
  BY <1>1 DEF Exports!Kept, exportBlock
<1> QED
  BY <1>1, <1>2 DEF ExportsInv, HeldExports

\* The steps that leave the export blocks alone.
OtherThanExports(v) ==
    \/ Provision(v) \/ Export(v) \/ ExportFails(v) \/ GenerateProjectID(v)
    \/ AddProject(v) \/ AddProjectFails(v) \/ SpecifyProject(v)
    \/ SetQuota(v) \/ SetQuotaFails(v) \/ SavePV(v) \/ Delete(v) \/ Unexport(v)
    \/ FreeProjectID(v) \/ TruncateProjects(v) \/ WriteProjects(v)
    \/ RollbackFails(v) \/ WriteProjectsFails(v) \/ DeletePV(v) \/ DeleteFails(v)

\* Every step keeps the map of export IDs and the export blocks in order.
LEMMA ExportsStep == ASSUME Careful, TypeOK, CallShape, ExportsInv, NEW v \in Volumes, Step(v)
                     PROVE  ExportsInv'
<1>1. CASE OtherThanExports(v)
  <2>1. UNCHANGED <<exportVars, eid>>
    BY <1>1 DEF OtherThanExports, exportVars, Provision, Export, ExportFails,
        GenerateProjectID, AddProject, AddProjectFails, SpecifyProject,
        SetQuota, SetQuotaFails, SavePV, Delete, Unexport, FreeProjectID,
        TruncateProjects, WriteProjects, RollbackFails, WriteProjectsFails, DeletePV, DeleteFails
  <2>2. \A w \in Volumes : /\ HoldsExport(w)' => HoldsExport(w)
                           /\ ExportStands(w)' => ExportStands(w)
    BY <1>1 DEF Careful, CallShape, TypeOK, Calls, Goes, Ends, HoldsExport,
        ExportStands, flags, ExportSteps, ProjectSteps, RemoveExportSteps,
        RemoveProjectSteps, OtherThanExports, Provision, Export, ExportFails,
        GenerateProjectID, AddProject, AddProjectFails, SpecifyProject,
        SetQuota, SetQuotaFails, SavePV, Delete, Unexport, FreeProjectID,
        TruncateProjects, WriteProjects, RollbackFails, WriteProjectsFails, DeletePV, DeleteFails
  <2> QED
    BY <2>1, <2>2, ExportsFrame
<1>2. CASE GenerateExportID(v)
  BY <1>2 DEF GenerateExportID, Goes, Ends, HoldsExport, ExportStands,
      CallShape, TypeOK, Calls, ExportSteps, ProjectSteps, RemoveExportSteps,
      RemoveProjectSteps, flags, exportVars, ExportsInv, HeldExports, Exports!generateID,
      Exports!IsNext, Exports!Full, Exports!IDs, IDs, Exports!Kept, exportBlock
<1>3. CASE AddExportBlock(v)
  BY <1>3 DEF AddExportBlock, Goes, Ends, HoldsExport, ExportStands, CallShape,
      TypeOK, Calls, ExportSteps, ProjectSteps, RemoveExportSteps,
      RemoveProjectSteps, flags, exportVars, ExportsInv, HeldExports, Exports!addToFile,
      Exports!Kept, exportBlock
<1>4. CASE AddExportBlockFails(v)
  BY <1>4 DEF AddExportBlockFails, Goes, Ends, HoldsExport, ExportStands,
      CallShape, TypeOK, Calls, ExportSteps, ProjectSteps, RemoveExportSteps,
      RemoveProjectSteps, flags, exportVars, ExportsInv, HeldExports, Exports!deleteID,
      Exports!Kept, exportBlock
<1>5. CASE FreeExportID(v)
  BY <1>5 DEF FreeExportID, Goes, Ends, HoldsExport, ExportStands, CallShape,
      TypeOK, Calls, ExportSteps, ProjectSteps, RemoveExportSteps,
      RemoveProjectSteps, flags, exportVars, ExportsInv, HeldExports, Exports!deleteID,
      Exports!Kept, exportBlock
<1>6. CASE TruncateExports(v)
  BY <1>6 DEF TruncateExports, Goes, Ends, HoldsExport, ExportStands,
      CallShape, TypeOK, Calls, ExportSteps, ProjectSteps, RemoveExportSteps,
      RemoveProjectSteps, flags, exportVars, ExportsInv, HeldExports, Exports!truncate,
      Exports!Kept, exportBlock
<1>7. CASE WriteExports(v)
  <2>1. UNCHANGED <<exportIDs, eid, exportLost>> /\ exportWrite' = {}
    BY <1>7 DEF WriteExports, Exports!writeBack
  <2>2. PICK content \in exportWrite : exportFile' = content
    BY <1>7 DEF WriteExports, Exports!writeBack
  <2>3. \A w \in Volumes : /\ HoldsExport(w)' => HoldsExport(w)
                           /\ ExportStands(w)' => ExportStands(w)
    BY <1>7 DEF WriteExports, Goes, Ends, HoldsExport, ExportStands, CallShape,
        TypeOK, Calls, ExportSteps, ProjectSteps, RemoveExportSteps,
        RemoveProjectSteps, flags
  <2>4. ASSUME NEW w \in Volumes, exportLost = "none", ExportStands(w)' PROVE Exports!Kept(exportBlock(w))'
    <3>1. Exports!Kept(exportBlock(w))
      BY <2>3, <2>4 DEF ExportsInv, HeldExports
    <3>2. Exports!Kept(exportBlock(w)) => exportBlock(w) \in content
      BY <2>2 DEF ExportsInv, HeldExports, Exports!Kept
    <3> QED
      BY <2>1, <2>2, <3>1, <3>2 DEF Exports!Kept, exportBlock
  <2> QED
    BY <2>1, <2>3, <2>4 DEF ExportsInv, HeldExports
<1>8. CASE WriteExportsFails(v)
  <2>1. UNCHANGED <<exportIDs, eid>> /\ exportWrite' = {}
    BY <1>8 DEF WriteExportsFails, Exports!writeFails
  <2>2. PICK content \in exportWrite : \E rest \in SUBSET content :
            exportFile' = rest /\ Exports!Loses(content \ rest)
    BY <1>8 DEF WriteExportsFails, Exports!writeFails
  <2>3. \A w \in Volumes : /\ HoldsExport(w)' => HoldsExport(w)
                           /\ ExportStands(w)' => ExportStands(w)
    BY <1>8 DEF WriteExportsFails, Goes, Ends, HoldsExport, ExportStands, CallShape,
        TypeOK, Calls, ExportSteps, ProjectSteps, RemoveExportSteps,
        RemoveProjectSteps, flags
  <2>4. exportLost' # "read" => exportLost # "read"
    BY <2>2 DEF Exports!Loses
  <2>5. exportLost' = "none" => exportLost = "none" /\ content \subseteq exportFile'
    BY <2>2 DEF Exports!Loses
  <2>6. ASSUME NEW w \in Volumes, exportLost' = "none", ExportStands(w)'
        PROVE  Exports!Kept(exportBlock(w))'
    <3>1. Exports!Kept(exportBlock(w))
      BY <2>3, <2>5, <2>6 DEF ExportsInv, HeldExports
    <3>2. Exports!Kept(exportBlock(w)) => exportBlock(w) \in content
      BY <2>2 DEF ExportsInv, HeldExports, Exports!Kept
    <3> QED
      BY <2>1, <2>5, <2>6, <3>1, <3>2 DEF Exports!Kept, exportBlock
  <2> QED
    BY <2>1, <2>3, <2>4, <2>6 DEF ExportsInv, HeldExports
<1> QED
  BY <1>1, <1>2, <1>3, <1>4, <1>5, <1>6, <1>7, <1>8 DEF Step, ProvisionSteps,
      DeleteSteps, OtherThanExports

\* A step that leaves map, file and IDs alone and gives nobody a block.
LEMMA ProjectsFrame == ASSUME ProjectsInv, UNCHANGED <<projectVars, pid>>,
                              \A w \in Volumes : /\ HoldsProject(w)' => HoldsProject(w)
                                                 /\ ProjectStands(w)' => ProjectStands(w)
                       PROVE  ProjectsInv'
<1>1. /\ projectFile' = projectFile /\ projectWrite' = projectWrite /\ projectIDs' = projectIDs /\ pid' = pid
      /\ projectLost' = projectLost
  BY DEF projectVars
<1>2. \A w \in Volumes : Projects!Kept(projectBlock(w))' <=> Projects!Kept(projectBlock(w))
  BY <1>1 DEF Projects!Kept, projectBlock
<1> QED
  BY <1>1, <1>2 DEF ProjectsInv, HeldProjects

\* The steps that leave the projects alone.
OtherThanProjects(v) ==
    \/ Provision(v) \/ GenerateExportID(v) \/ AddExportBlock(v)
    \/ AddExportBlockFails(v) \/ Export(v) \/ ExportFails(v)
    \/ SpecifyProject(v) \/ SetQuota(v) \/ SetQuotaFails(v) \/ SavePV(v)
    \/ Delete(v) \/ FreeExportID(v) \/ TruncateExports(v) \/ WriteExports(v)
    \/ Unexport(v) \/ RollbackFails(v) \/ WriteExportsFails(v) \/ DeletePV(v) \/ DeleteFails(v)

\* Every step keeps the map of project IDs and the projects file in order.
LEMMA ProjectsStep == ASSUME Careful, TypeOK, CallShape, ProjectsInv, NEW v \in Volumes, Step(v)
                      PROVE  ProjectsInv'
<1>1. CASE OtherThanProjects(v)
  <2>1. UNCHANGED <<projectVars, pid>>
    BY <1>1 DEF OtherThanProjects, projectVars, Provision, GenerateExportID,
        AddExportBlock, AddExportBlockFails, Export, ExportFails,
        SpecifyProject, SetQuota, SetQuotaFails, SavePV, Delete, FreeExportID,
        TruncateExports, WriteExports, Unexport, RollbackFails, WriteExportsFails, DeletePV,
        DeleteFails
  <2>2. \A w \in Volumes : /\ HoldsProject(w)' => HoldsProject(w)
                           /\ ProjectStands(w)' => ProjectStands(w)
    BY <1>1 DEF Careful, CallShape, TypeOK, Calls, Goes, Ends, HoldsProject,
        ProjectStands, flags, ExportSteps, ProjectSteps, RemoveExportSteps,
        RemoveProjectSteps, OtherThanProjects, Provision, GenerateExportID,
        AddExportBlock, AddExportBlockFails, Export, ExportFails,
        SpecifyProject, SetQuota, SetQuotaFails, SavePV, Delete, FreeExportID,
        TruncateExports, WriteExports, Unexport, RollbackFails, WriteExportsFails, DeletePV,
        DeleteFails
  <2> QED
    BY <2>1, <2>2, ProjectsFrame
<1>2. CASE GenerateProjectID(v)
  BY <1>2 DEF GenerateProjectID, Goes, Ends, HoldsProject, ProjectStands,
      CallShape, TypeOK, Calls, ExportSteps, ProjectSteps, RemoveExportSteps,
      RemoveProjectSteps, flags, projectVars, ProjectsInv, HeldProjects, Projects!generateID,
      Projects!IsNext, Projects!Full, Projects!IDs, IDs, Projects!Kept,
      projectBlock
<1>3. CASE AddProject(v)
  BY <1>3 DEF AddProject, Goes, Ends, HoldsProject, ProjectStands, CallShape,
      TypeOK, Calls, ExportSteps, ProjectSteps, RemoveExportSteps,
      RemoveProjectSteps, flags, projectVars, ProjectsInv, HeldProjects, Projects!addToFile,
      Projects!Kept, projectBlock
<1>4. CASE AddProjectFails(v)
  BY <1>4 DEF AddProjectFails, Goes, Ends, HoldsProject, ProjectStands,
      CallShape, TypeOK, Calls, ExportSteps, ProjectSteps, RemoveExportSteps,
      RemoveProjectSteps, flags, projectVars, ProjectsInv, HeldProjects, Projects!deleteID,
      Projects!Kept, projectBlock
<1>5. CASE FreeProjectID(v)
  BY <1>5 DEF FreeProjectID, Goes, Ends, HoldsProject, ProjectStands,
      CallShape, TypeOK, Calls, ExportSteps, ProjectSteps, RemoveExportSteps,
      RemoveProjectSteps, flags, projectVars, ProjectsInv, HeldProjects, Projects!deleteID,
      Projects!Kept, projectBlock
<1>6. CASE TruncateProjects(v)
  BY <1>6 DEF TruncateProjects, Goes, Ends, HoldsProject, ProjectStands,
      CallShape, TypeOK, Calls, ExportSteps, ProjectSteps, RemoveExportSteps,
      RemoveProjectSteps, flags, projectVars, ProjectsInv, HeldProjects, Projects!truncate,
      Projects!Kept, projectBlock
<1>7. CASE WriteProjects(v)
  <2>1. UNCHANGED <<projectIDs, pid, projectLost>> /\ projectWrite' = {}
    BY <1>7 DEF WriteProjects, Projects!writeBack
  <2>2. PICK content \in projectWrite : projectFile' = content
    BY <1>7 DEF WriteProjects, Projects!writeBack
  <2>3. \A w \in Volumes : /\ HoldsProject(w)' => HoldsProject(w)
                           /\ ProjectStands(w)' => ProjectStands(w)
    BY <1>7 DEF WriteProjects, Goes, Ends, HoldsProject, ProjectStands,
        CallShape, TypeOK, Calls, ExportSteps, ProjectSteps, RemoveExportSteps,
        RemoveProjectSteps, flags
  <2>4. ASSUME NEW w \in Volumes, projectLost = "none", ProjectStands(w)' PROVE Projects!Kept(projectBlock(w))'
    <3>1. Projects!Kept(projectBlock(w))
      BY <2>3, <2>4 DEF ProjectsInv, HeldProjects
    <3>2. Projects!Kept(projectBlock(w)) => projectBlock(w) \in content
      BY <2>2 DEF ProjectsInv, HeldProjects, Projects!Kept
    <3> QED
      BY <2>1, <2>2, <3>1, <3>2 DEF Projects!Kept, projectBlock
  <2> QED
    BY <2>1, <2>3, <2>4 DEF ProjectsInv, HeldProjects
<1>8. CASE WriteProjectsFails(v)
  <2>1. UNCHANGED <<projectIDs, pid>> /\ projectWrite' = {}
    BY <1>8 DEF WriteProjectsFails, Projects!writeFails
  <2>2. PICK content \in projectWrite : \E rest \in SUBSET content :
            projectFile' = rest /\ Projects!Loses(content \ rest)
    BY <1>8 DEF WriteProjectsFails, Projects!writeFails
  <2>3. \A w \in Volumes : /\ HoldsProject(w)' => HoldsProject(w)
                           /\ ProjectStands(w)' => ProjectStands(w)
    BY <1>8 DEF WriteProjectsFails, Goes, Ends, HoldsProject, ProjectStands, CallShape,
        TypeOK, Calls, ExportSteps, ProjectSteps, RemoveExportSteps,
        RemoveProjectSteps, flags
  <2>4. projectLost' # "read" => projectLost # "read"
    BY <2>2 DEF Projects!Loses
  <2>5. projectLost' = "none" => projectLost = "none" /\ content \subseteq projectFile'
    BY <2>2 DEF Projects!Loses
  <2>6. ASSUME NEW w \in Volumes, projectLost' = "none", ProjectStands(w)'
        PROVE  Projects!Kept(projectBlock(w))'
    <3>1. Projects!Kept(projectBlock(w))
      BY <2>3, <2>5, <2>6 DEF ProjectsInv, HeldProjects
    <3>2. Projects!Kept(projectBlock(w)) => projectBlock(w) \in content
      BY <2>2 DEF ProjectsInv, HeldProjects, Projects!Kept
    <3> QED
      BY <2>1, <2>5, <2>6, <3>1, <3>2 DEF Projects!Kept, projectBlock
  <2> QED
    BY <2>1, <2>3, <2>4, <2>6 DEF ProjectsInv, HeldProjects
<1> QED
  BY <1>1, <1>2, <1>3, <1>4, <1>5, <1>6, <1>7, <1>8 DEF Step, ProvisionSteps,
      DeleteSteps, OtherThanProjects

\* Every step keeps to the mutex of the export file.
LEMMA WriterStep == ASSUME TypeOK, CallShape, WriterInv, NEW v \in Volumes, Step(v)
                    PROVE  WriterInv'
<1>1. CASE OtherThanExports(v)
  <2>1. UNCHANGED exportWrite
    BY <1>1 DEF OtherThanExports, exportVars, Provision, Export, ExportFails, GenerateProjectID,
        AddProject, AddProjectFails, SpecifyProject, SetQuota, SetQuotaFails, SavePV, Delete,
        Unexport, FreeProjectID, TruncateProjects, WriteProjects, RollbackFails, WriteProjectsFails, DeletePV,
        DeleteFails
  <2>2. \A w \in Volumes : at'[w] = "writeExport" => at[w] = "writeExport"
    BY <1>1 DEF OtherThanExports, TypeOK, Goes, Ends, Provision, Export, ExportFails,
        GenerateProjectID, AddProject, AddProjectFails, SpecifyProject, SetQuota, SetQuotaFails,
        SavePV, Delete, Unexport, FreeProjectID, TruncateProjects, WriteProjects, RollbackFails, WriteProjectsFails,
        DeletePV, DeleteFails
  <2> QED
    BY <2>1, <2>2 DEF WriterInv
<1>2. CASE GenerateExportID(v) \/ AddExportBlock(v) \/ AddExportBlockFails(v) \/ FreeExportID(v)
  BY <1>2 DEF WriterInv, TypeOK, Goes, Ends, GenerateExportID, AddExportBlock, AddExportBlockFails,
     FreeExportID, Exports!generateID, Exports!addToFile, Exports!deleteID
<1>3. CASE TruncateExports(v)
  BY <1>3 DEF WriterInv, TypeOK, Goes, TruncateExports, Exports!truncate
<1>4. CASE WriteExports(v)
  BY <1>4 DEF WriterInv, TypeOK, Goes, Ends, WriteExports, Exports!writeBack
<1>5. CASE WriteExportsFails(v)
  BY <1>5 DEF WriterInv, TypeOK, Ends, WriteExportsFails, Exports!writeFails
<1> QED
  BY <1>1, <1>2, <1>3, <1>4, <1>5 DEF Step, ProvisionSteps, DeleteSteps, OtherThanExports

\* What a new process has read stays so.
LEMMA LostStays == ASSUME NEW v \in Volumes, Step(v)
                   PROVE  /\ exportLost = "read" => exportLost' = "read"
                          /\ projectLost = "read" => projectLost' = "read"
BY DEF Step, ProvisionSteps, DeleteSteps, exportVars, projectVars, Provision, GenerateExportID,
    AddExportBlock, AddExportBlockFails, Export, ExportFails, GenerateProjectID, AddProject,
    AddProjectFails, SpecifyProject, SetQuota, SetQuotaFails, SavePV, Delete, FreeExportID,
    TruncateExports, WriteExports, Unexport, FreeProjectID, TruncateProjects, WriteProjects,
    RollbackFails, WriteExportsFails, WriteProjectsFails, DeletePV, DeleteFails,
    Exports!generateID, Exports!deleteID, Exports!addToFile, Exports!truncate, Exports!writeBack,
    Exports!writeFails, Exports!Loses, Projects!generateID, Projects!deleteID, Projects!addToFile,
    Projects!truncate, Projects!writeBack, Projects!writeFails, Projects!Loses

\* The steps that leave the server alone.
OtherThanServer(v) == Step(v) /\ ~Export(v) /\ ~Unexport(v)

\* Every step keeps the exports of the server in order.  The ID of a volume
\* that is being deleted may be given to another before it is unexported: that
\* other's Export is refused until then.
LEMMA ServedStep == ASSUME Careful, TypeOK, CallShape, ServedInv, NEW v \in Volumes, Step(v)
                    PROVE  ServedInv'
<1>1. CASE OtherThanServer(v)
  <2>1. served' = served /\ useGanesha' = useGanesha
    BY <1>1 DEF OtherThanServer, Step, ProvisionSteps, DeleteSteps, Goes, Ends, flags, Provision,
        GenerateExportID, AddExportBlock, AddExportBlockFails, ExportFails, GenerateProjectID,
        AddProject, AddProjectFails, SpecifyProject, SetQuota, SetQuotaFails, SavePV, Delete,
        FreeExportID, TruncateExports, WriteExports, FreeProjectID, TruncateProjects,
        WriteProjects, RollbackFails, WriteExportsFails, WriteProjectsFails, DeletePV, DeleteFails
  <2>2. \A w \in Volumes : Serving(w)' => Serving(w) /\ eid'[w] = eid[w]
    BY <1>1 DEF OtherThanServer, Step, ProvisionSteps, DeleteSteps, Serving, Careful, CallShape,
        TypeOK, Calls, Goes, Ends, flags, ExportSteps, ProjectSteps, RemoveExportSteps,
        RemoveProjectSteps, Provision, GenerateExportID, AddExportBlock, AddExportBlockFails,
        ExportFails, GenerateProjectID, AddProject, AddProjectFails, SpecifyProject, SetQuota,
        SetQuotaFails, SavePV, Delete, FreeExportID, TruncateExports, WriteExports, FreeProjectID,
        TruncateProjects, WriteProjects, RollbackFails, WriteExportsFails, WriteProjectsFails, DeletePV, DeleteFails
  <2> QED
    BY <2>1, <2>2, LostStays DEF ServedInv, exportBlock
<1>2. CASE Export(v)
  <2>1. \A w \in Volumes : Serving(w)' => w = v \/ Serving(w)
    BY <1>2 DEF Export, Goes, Serving, CallShape, TypeOK, Calls, ExportSteps, ProjectSteps,
        RemoveExportSteps, RemoveProjectSteps
  <2>2. eid' = eid /\ useGanesha' = useGanesha
    BY <1>2 DEF Export, Goes, flags
  <2>3. useGanesha => /\ served' = served \cup {exportBlock(v)}
                      /\ \A b \in served : b.id # exportBlock(v).id
    BY <1>2 DEF Export, Refused, exportBlock
  <2> QED
    BY <2>1, <2>2, <2>3, LostStays DEF ServedInv, exportBlock
<1>3. CASE Unexport(v)
  <2>1. \A w \in Volumes : Serving(w)' => w # v /\ Serving(w)
    BY <1>3 DEF Unexport, Goes, Serving, CallShape, TypeOK, Calls, ExportSteps, ProjectSteps,
        RemoveExportSteps, RemoveProjectSteps
  <2>2. Serving(v) /\ eid' = eid /\ useGanesha' = useGanesha
    BY <1>3 DEF Unexport, Goes, flags, Serving, CallShape, TypeOK, Calls, ExportSteps,
        ProjectSteps, RemoveExportSteps, RemoveProjectSteps
  <2>3. useGanesha => served' = {b \in served : b.id # eid[v]}
    BY <1>3 DEF Unexport
  <2>4. ASSUME useGanesha, exportLost # "read", NEW w \in Volumes, Serving(w)'
        PROVE  exportBlock(w) \in served /\ exportBlock(w).id # eid[v]
    BY <2>1, <2>2, <2>4 DEF ServedInv, exportBlock
  <2> QED
    BY <2>2, <2>3, <2>4, LostStays DEF ServedInv, exportBlock
<1> QED
  BY <1>1, <1>2, <1>3 DEF OtherThanServer

\* Every step keeps the limits of the volumes that have one.
LEMMA LimitsStep == ASSUME Careful, TypeOK, CallShape, ProjectsInv, LimitsInv,
                           NEW v \in Volumes, Step(v)
                    PROVE  LimitsInv'
<1>1. CASE ~SetQuota(v)
  <2>1. limits' = limits /\ enableXfsQuota' = enableXfsQuota
    BY <1>1 DEF Step, ProvisionSteps, DeleteSteps, Goes, Ends, flags, Provision, GenerateExportID,
        AddExportBlock, AddExportBlockFails, Export, ExportFails, GenerateProjectID, AddProject,
        AddProjectFails, SpecifyProject, SetQuotaFails, SavePV, Delete, FreeExportID,
        TruncateExports, WriteExports, Unexport, FreeProjectID, TruncateProjects, WriteProjects,
        RollbackFails, WriteExportsFails, WriteProjectsFails, DeletePV, DeleteFails
  <2>2. \A w \in Volumes : enableXfsQuota /\ (call[w] = "live" \/ at[w] = "savePV")' =>
            (call[w] = "live" \/ at[w] = "savePV") /\ pid'[w] = pid[w]
    BY <1>1 DEF Step, ProvisionSteps, DeleteSteps, CallShape, TypeOK, Calls, Goes, Ends, flags,
        ExportSteps, ProjectSteps, RemoveExportSteps, RemoveProjectSteps, Provision,
        GenerateExportID, AddExportBlock, AddExportBlockFails, Export, ExportFails,
        GenerateProjectID, AddProject, AddProjectFails, SpecifyProject, SetQuotaFails, SavePV,
        Delete, FreeExportID, TruncateExports, WriteExports, Unexport, FreeProjectID,
        TruncateProjects, WriteProjects, RollbackFails, WriteExportsFails, WriteProjectsFails, DeletePV, DeleteFails
  <2> QED
    BY <2>1, <2>2, LostStays DEF LimitsInv
<1>2. CASE SetQuota(v)
  <2>1. limits' = [limits EXCEPT ![pid[v]] = v] /\ UNCHANGED <<pid, enableXfsQuota>>
    BY <1>2 DEF SetQuota, Goes, flags
  <2>2. enableXfsQuota => HoldsProject(v)
    BY <1>2 DEF SetQuota, Goes, HoldsProject
  <2>3. \A w \in Volumes : (call[w] = "live" \/ at[w] = "savePV")' =>
            w = v \/ call[w] = "live" \/ at[w] = "savePV"
    BY <1>2 DEF SetQuota, Goes, TypeOK
  <2>4. \A w \in Volumes : enableXfsQuota /\ (call[w] = "live" \/ at[w] = "savePV")
            => HoldsProject(w)
    BY DEF HoldsProject
  <2>5. \A w \in Volumes : pid[w] \in IDs
    BY DEF TypeOK
  <2> QED
    BY <2>1, <2>2, <2>3, <2>4, <2>5, LostStays DEF LimitsInv, ProjectsInv, HeldProjects, TypeOK
<1> QED
  BY <1>1, <1>2

-----------------------------------------------------------------------------
\* A restart forgets the calls under way.
LEMMA RestartFacts == ASSUME Restart, CallShape, TypeOK
                      PROVE  /\ \A w \in Volumes : at'[w] = "none"
                             /\ \A w \in Volumes : call'[w] \in {"claim", "live", "failed", "gone"}
                             /\ \A w \in Volumes : call'[w] = "live" => call[w] = "live"
                             /\ UNCHANGED <<dirs, eid, pid, useGanesha, enableXfsQuota>>
BY DEF Restart, CallShape, TypeOK, Calls, flags

\* The files give a new process well-typed maps and limits.
LEMMA RestartType == ASSUME Restart, TypeOK PROVE TypeOK'
<1>1. limits' \in [IDs -> Volumes \cup {NoVolume}]
  <2>1. \A i \in IDs : Owners(i) # {} => (CHOOSE w \in Owners(i) : TRUE) \in Volumes
    BY DEF Owners, TypeOK
  <2> QED
    BY <2>1 DEF Restart, restoreQuotas, TypeOK
<1>2. Exports!IDFileTypeOK'
  BY DEF Restart, Exports!reload, Exports!Reads, Exports!IDFileTypeOK, Exports!getExistingIDs,
         Exports!Block, TypeOK
<1>3. Projects!IDFileTypeOK'
  BY DEF Restart, restoreQuotas, Projects!reload, Projects!Reads, Projects!IDFileTypeOK,
         Projects!getExistingIDs, Projects!Block, TypeOK
<1>4. call' \in [Volumes -> Calls] /\ at' \in [Volumes -> Steps]
  BY DEF Restart, TypeOK, Calls, Steps
<1>5. served' \subseteq Exports!Block
  BY DEF Restart, TypeOK, Exports!IDFileTypeOK
<1> QED
  BY <1>1, <1>2, <1>3, <1>4, <1>5 DEF Restart, TypeOK, flags

\* Map and server are read from the files, in which every live volume stands.
LEMMA RestartStep == ASSUME Careful, NFSInv, Restart
                     PROVE  NFSInv'
<1> USE DEF NFSInv
<1>1. /\ \A w \in Volumes : HoldsExport(w)' => call[w] = "live" /\ ExportStands(w)
      /\ \A w \in Volumes : HoldsProject(w)' => call[w] = "live" /\ enableXfsQuota /\ ProjectStands(w)
      /\ \A w \in Volumes : Serving(w)' => call[w] = "live"
  BY RestartFacts DEF HoldsExport, HoldsProject, Serving, ExportStands, ProjectStands,
      ExportSteps, ProjectSteps, RemoveExportSteps, RemoveProjectSteps, CallShape
<1>2. /\ exportLost' # "read" => exportLost = "none" /\ exportWrite = {}
      /\ projectLost' # "read" => projectLost = "none" /\ projectWrite = {}
  BY DEF Restart, restoreQuotas, Exports!reload, Exports!Reads, Projects!reload, Projects!Reads
<1>3. ASSUME exportLost' # "read", NEW w \in Volumes, HoldsExport(w)'
      PROVE  exportBlock(w) \in exportFile
  BY <1>1, <1>2, <1>3 DEF ExportsInv, HeldExports, Exports!Kept
<1>4. ASSUME projectLost' # "read", NEW w \in Volumes, HoldsProject(w)'
      PROVE  w \in dirs /\ projectBlock(w) \in projectFile
  BY <1>1, <1>2, <1>4 DEF ProjectsInv, HeldProjects, Projects!Kept, CallShape
<1>5. Exports!Unambiguous /\ Projects!Unambiguous
  BY DEF Restart
<1>6. CallShape'
  BY RestartFacts DEF CallShape, ExportSteps, ProjectSteps, RemoveExportSteps, RemoveProjectSteps
<1>7. ExportsInv'
  <2>1. /\ exportFile' = exportFile /\ exportWrite' = {}
        /\ exportIDs' = {b.id : b \in exportFile}
    BY DEF Restart, Exports!reload, Exports!getExistingIDs
  <2>2. ASSUME exportLost' # "read", NEW w \in Volumes, HoldsExport(w)'
        PROVE  eid[w] \in exportIDs'
    <3>1. exportBlock(w) \in exportFile
      BY <1>3, <2>2
    <3>2. exportBlock(w).id = eid[w]
      BY DEF exportBlock
    <3> QED
      BY <3>1, <3>2, <2>1
  <2>3. ASSUME exportLost' # "read", NEW v \in Volumes, NEW w \in Volumes,
               HoldsExport(v)', HoldsExport(w)', eid[v] = eid[w]
        PROVE  v = w
    <3>1. exportBlock(v) \in exportFile /\ exportBlock(w) \in exportFile
      BY <1>3, <2>3
    <3> QED
      BY <3>1, <2>3, <1>5 DEF exportBlock, Exports!Unambiguous
  <2>4. exportLost' = "none" => \A w \in Volumes : ExportStands(w)' => Exports!Kept(exportBlock(w))'
    BY <2>1, <1>3, RestartFacts DEF ExportStands, Exports!Kept, exportBlock
  <2> QED
    BY <2>1, <2>2, <2>3, <2>4, RestartFacts DEF ExportsInv, HeldExports
<1>8. ProjectsInv'
  <2>1. /\ projectWrite' = {}
        /\ projectLost' = "none" => {b \in projectFile : b.owner \in dirs} \subseteq projectFile'
        /\ projectIDs' = {b.id : b \in projectFile}
                           \ {b.id : b \in {b \in projectFile : b.owner \notin dirs}}
    BY DEF Restart, restoreQuotas, Projects!reload, Projects!Reads, Projects!getExistingIDs
  <2>2. ASSUME projectLost' # "read", NEW w \in Volumes, HoldsProject(w)'
        PROVE  pid[w] \in projectIDs'
    <3>1. w \in dirs /\ projectBlock(w) \in projectFile
      BY <1>4, <2>2
    <3>2. \A b \in projectFile : b.id = pid[w] => b = projectBlock(w)
      BY <3>1, <1>5 DEF projectBlock, Projects!Unambiguous
    <3> QED
      BY <3>1, <3>2, <2>1 DEF projectBlock
  <2>3. ASSUME projectLost' # "read", NEW v \in Volumes, NEW w \in Volumes,
               HoldsProject(v)', HoldsProject(w)', pid[v] = pid[w]
        PROVE  v = w
    <3>1. projectBlock(v) \in projectFile /\ projectBlock(w) \in projectFile
      BY <1>4, <2>3
    <3> QED
      BY <3>1, <2>3, <1>5 DEF projectBlock, Projects!Unambiguous
  <2>4. projectLost' = "none" => \A w \in Volumes : ProjectStands(w)' => Projects!Kept(projectBlock(w))'
    BY <2>1, <1>4, RestartFacts DEF ProjectStands, Projects!Kept, projectBlock
  <2> QED
    BY <2>1, <2>2, <2>3, <2>4, RestartFacts DEF ProjectsInv, HeldProjects
<1>9. ServedInv'
  <2>1. \A w \in Volumes : Serving(w)' => HoldsExport(w)'
    BY RestartFacts DEF Serving, HoldsExport, ExportSteps, ProjectSteps, RemoveExportSteps,
        RemoveProjectSteps
  <2>2. useGanesha => served' = exportFile
    BY DEF Restart
  <2> QED
    BY <2>1, <2>2, <1>3, <1>5, RestartFacts DEF ServedInv, exportBlock, Exports!Unambiguous
<1>10. LimitsInv'
  <2> SUFFICES ASSUME NEW w \in Volumes, enableXfsQuota, projectLost' # "read", call'[w] = "live"
               PROVE  limits'[pid[w]] = w
    BY RestartFacts DEF LimitsInv
  <2>1. HoldsProject(w)'
    BY RestartFacts DEF HoldsProject
  <2>2. w \in Owners(pid[w])
    BY <2>1, <1>4 DEF Owners, projectBlock
  <2>3. \A u \in Owners(pid[w]) : u = w
    BY <2>2, <1>5 DEF Owners, Projects!Unambiguous
  <2>4. pid[w] \in IDs
    BY DEF TypeOK
  <2>5. limits'[pid[w]] = CHOOSE u \in Owners(pid[w]) : TRUE
    BY <2>2, <2>4 DEF Restart, restoreQuotas
  <2> QED
    BY <2>2, <2>3, <2>5
<1>11. WriterInv'
  BY RestartFacts DEF WriterInv
<1> QED
  BY <1>6, <1>7, <1>8, <1>9, <1>10, <1>11, RestartType

\* A server that starts anew finds every volume it has to serve in the file.
LEMMA ServerStep == ASSUME Careful, NFSInv, ServerRestarts
                    PROVE  NFSInv'
<1> USE DEF NFSInv
<1>1. /\ UNCHANGED <<flags, exportIDs, exportFile, exportWrite, exportHung>>
      /\ UNCHANGED <<projectVars, dirs, limits, callVars, eid, pid>>
      /\ served' = exportFile
      /\ exportLost' # "read" => exportLost' = exportLost /\ exportLost = "none" /\ exportWrite = {}
  BY DEF ServerRestarts, Exports!Reads
<1>2. exportLost' # "read" => \A w \in Volumes : Serving(w) => exportBlock(w) \in exportFile
  <2> SUFFICES ASSUME exportLost' # "read", NEW w \in Volumes, Serving(w)
               PROVE  exportBlock(w) \in exportFile
    OBVIOUS
  <2>1. exportWrite = {} /\ exportLost = "none" /\ at[w] # "unexport" /\ at[w] # "writeExport"
    BY <1>1 DEF ServerRestarts, Careful, WriterInv
  <2>2. ExportStands(w)
    BY <2>1 DEF Serving, ExportStands, HoldsExport, CallShape, ExportSteps, ProjectSteps,
        RemoveExportSteps, RemoveProjectSteps
  <2> QED
    BY <2>1, <2>2 DEF ExportsInv, HeldExports, Exports!Kept
<1>3. ServedInv'
  <2>1. Exports!Unambiguous
    BY DEF ServerRestarts
  <2>2. \A w \in Volumes : Serving(w)' <=> Serving(w)
    BY <1>1 DEF callVars, Serving
  <2> QED
    BY <1>1, <1>2, <2>1, <2>2 DEF ServedInv, flags, exportBlock, Exports!Unambiguous
<1>4. TypeOK'
  BY <1>1 DEF ServerRestarts, Exports!Reads, TypeOK, flags, exportVars, projectVars, callVars, Exports!IDFileTypeOK,
     Projects!IDFileTypeOK
<1>5. CallShape' /\ ExportsInv' /\ ProjectsInv' /\ WriterInv' /\ LimitsInv'
  BY <1>1 DEF flags, exportVars, projectVars, callVars, CallShape, ExportsInv, HeldExports, ProjectsInv, HeldProjects, WriterInv,
     LimitsInv, HoldsExport, HoldsProject, ExportStands, ProjectStands, Exports!Kept, Projects!Kept,
     exportBlock, projectBlock, ExportSteps, ProjectSteps, RemoveExportSteps, RemoveProjectSteps
<1> QED
  BY <1>3, <1>4, <1>5

-----------------------------------------------------------------------------
\* The first process starts with the default configuration and no volume.
LEMMA NFSInit == Init => NFSInv
<1> SUFFICES ASSUME Init PROVE NFSInv
  OBVIOUS
<1>1. /\ \A v \in Volumes : call[v] = "claim" /\ at[v] = "none"
      /\ \A v \in Volumes : ~HoldsExport(v) /\ ~HoldsProject(v) /\ ~Serving(v)
  BY DEF Init, HoldsExport, HoldsProject, Serving, ExportSteps, ProjectSteps, RemoveExportSteps,
      RemoveProjectSteps
<1>2. TypeOK
  <2>1. exportFile \subseteq Exports!Block /\ Exports!getExistingIDs(exportFile) \subseteq Exports!IDs
    BY NFSAssumption DEF Init, DefaultBlocks, Exports!Block, Exports!getExistingIDs, Exports!IDs
  <2>2. Exports!IDFileTypeOK /\ Projects!IDFileTypeOK
    BY <2>1 DEF Init, Exports!IDFileTypeOK, Projects!IDFileTypeOK
  <2> QED
    BY <2>1, <2>2, NFSAssumption DEF Init, TypeOK, IDs, Calls, Steps
<1>3. ServedInv
  BY <1>1 DEF Init, ServedInv, DefaultBlocks
<1> QED
  BY <1>1, <1>2, <1>3 DEF Init, NFSInv, CallShape, ExportsInv, HeldExports, ProjectsInv, HeldProjects, WriterInv, LimitsInv, ExportStands,
     ProjectStands, ExportSteps, ProjectSteps, RemoveExportSteps, RemoveProjectSteps

(***************************************************************************)
(* Maps, files, exports, limits and calls keep their types (TypeOK), with  *)
(* every fault: also when failed Deletes are called again and the rewriting*)
(* of a file fails or is cut off, as reload and restoreQuotas take whatever*)
(* the files say.                                                          *)
(***************************************************************************)
THEOREM NFSTypeCorrect == Spec => []TypeOK
<1>1. Init => TypeOK
  BY NFSInit DEF NFSInv
<1>2. ASSUME TypeOK, [Next]_vars PROVE TypeOK'
  <2>1. CASE UNCHANGED vars
    BY <1>2, <2>1 DEF vars, flags, exportVars, projectVars, callVars, TypeOK,
       Exports!IDFileTypeOK, Projects!IDFileTypeOK
  <2>2. CASE ServerRestarts
    BY <1>2, <2>2 DEF ServerRestarts, Exports!Reads, TypeOK, flags, exportVars, projectVars, callVars,
       Exports!IDFileTypeOK, Projects!IDFileTypeOK
  <2> QED
    BY <1>2, <2>1, <2>2, TypeStep, RestartType DEF Next, Step
<1> QED
  BY <1>1, <1>2, PTL DEF Spec

\* Every step, restarts included, preserves the invariant.
LEMMA NFSNext == ASSUME Careful, NFSInv, [Next]_vars PROVE NFSInv'
<1>1. ASSUME NEW v \in Volumes, Step(v) PROVE NFSInv'
  BY <1>1, TypeStep, ShapeStep, ExportsStep, ProjectsStep, WriterStep, ServedStep,
     LimitsStep DEF NFSInv
<1>2. CASE UNCHANGED vars
  BY <1>2 DEF vars, flags, exportVars, projectVars, callVars, NFSInv, TypeOK, CallShape, ExportsInv, HeldExports,
     ProjectsInv, HeldProjects, WriterInv, ServedInv, LimitsInv, HoldsExport, HoldsProject, ExportStands, ProjectStands,
     Serving,
     Exports!IDFileTypeOK, Projects!IDFileTypeOK, Exports!Kept, Projects!Kept, exportBlock, projectBlock,
     ExportSteps, ProjectSteps, RemoveExportSteps, RemoveProjectSteps
<1> QED
  BY <1>1, <1>2, RestartStep, ServerStep DEF Next, Step

\* The invariant holds in every behaviour.
THEOREM NFSInvariant == Careful /\ Spec => []NFSInv
<1>1. Careful /\ Init => NFSInv
  BY NFSInit
<1>2. Careful /\ NFSInv /\ [Next]_vars => NFSInv'
  BY NFSNext
<1>3. Careful /\ [Next]_vars => Careful'
  BY DEF Careful, Next, vars, flags, Restart, ServerRestarts, ProvisionSteps, DeleteSteps,
      Goes, Ends, Provision, GenerateExportID, AddExportBlock, AddExportBlockFails, Export,
      ExportFails, GenerateProjectID, AddProject, AddProjectFails, SpecifyProject, SetQuota,
      SetQuotaFails, SavePV, Delete, FreeExportID, TruncateExports, WriteExports, Unexport,
      FreeProjectID, TruncateProjects, WriteProjects, RollbackFails, WriteExportsFails,
      WriteProjectsFails, DeletePV, DeleteFails
<1> QED
  BY <1>1, <1>2, <1>3, PTL DEF Spec

(***************************************************************************)
(* No export ID and no project ID is ever held by two volumes, and the map *)
(* knows every ID in use, across concurrent calls, failures, rollbacks and *)
(* restarts (generateID, deleteID, getExistingIDs), until a new process    *)
(* has read a file of which rewriting lost blocks (removeFromFile).        *)
(***************************************************************************)
THEOREM DistinctIDs == Careful /\ Spec => []IDsDistinct
<1>1. NFSInv => IDsDistinct
  BY DEF NFSInv, ExportsInv, HeldExports, ProjectsInv, HeldProjects, IDsDistinct
<1> QED
  BY <1>1, NFSInvariant, PTL

(***************************************************************************)
(* A PV keeps its directory, its block in the file and, with ganesha, its  *)
(* export, although its ID may still be exported for the volume that had   *)
(* it before (AddExportBlock, Export, Unexport); the block until rewriting *)
(* the file fails or is cut off, the export until the rest has been read.  *)
(***************************************************************************)
THEOREM LiveExported == Careful /\ Spec => []LivePVsExported
<1>1. NFSInv => LivePVsExported
  BY DEF NFSInv, CallShape, ExportsInv, HeldExports, ServedInv, LivePVsExported, HoldsExport, ExportStands, Serving
<1> QED
  BY <1>1, NFSInvariant, PTL

(***************************************************************************)
(* The limit enforced for the project of a PV is its own (SetQuota,        *)
(* restoreQuotas), until restoreQuotas has read a file of which rewriting  *)
(* lost blocks.                                                            *)
(***************************************************************************)
THEOREM LiveLimited == Careful /\ Spec => []LivePVsLimited
<1>1. NFSInv => LivePVsLimited
  BY DEF NFSInv, CallShape, ProjectsInv, HeldProjects, LimitsInv, LivePVsLimited, HoldsProject, ProjectStands
<1> QED
  BY <1>1, NFSInvariant, PTL
=============================================================================
