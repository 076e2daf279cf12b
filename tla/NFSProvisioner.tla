--------------------------- MODULE NFSProvisioner ---------------------------
(***************************************************************************)
(* nfs/pkg/volume: the provisioner that gives every claim a directory,     *)
(* an export with an ID of its own and, optionally, an xfs project with a  *)
(* quota.  The library that calls it (external) runs Provision and Delete  *)
(* for different volumes at the same time, each for one volume at a time,  *)
(* and may call either again after it failed.  A volume is named after its *)
(* claim, so a PV that is gone does not come back.                         *)
(***************************************************************************)
EXTENDS Integers, FiniteSets

CONSTANTS
    Volumes, NoVolume, MaxID,
    MaxExports,   \* flag max-exports; negative: no limit
    FaultSets,    \* what may go wrong together
    MaxRestarts   \* bound on restarts of the provisioner and of its server

(***************************************************************************)
(* "provision", "delete": a step of that call fails; "rollback": so does   *)
(* what a failed Provision undoes.  "write": removeFromFile truncates a    *)
(* file and fails to write it back.  "retry": a Delete that failed is      *)
(* called again.  "server": ganesha may restart between the rewriting of   *)
(* its configuration and the Unexport that follows.                        *)
(***************************************************************************)
FaultKinds == {"provision", "rollback", "delete", "write", "retry", "server"}

ASSUME NFSAssumption ==
    /\ MaxID \in Nat
    /\ NoVolume \notin Volumes
    /\ MaxExports \in Int
    /\ FaultSets \subseteq SUBSET FaultKinds
    /\ MaxRestarts \in Nat

VARIABLES
    useGanesha, enableXfsQuota,   \* flags, constant
    faults,     \* the kinds of fault of this behaviour, constant
    exportIDs, exportFile, exportWrite, exportHung, exportLost,
    projectIDs, projectFile, projectWrite, projectHung, projectLost,
    dirs,       \* directories below /export
    served,     \* blocks the NFS server exports
    limits,     \* whose limit the file system enforces for a project ID
    call,       \* what becomes of a volume: "claim", "Provision", "live", ...
    at,         \* the next step of its Provision or Delete
    eid, pid,   \* its export and project ID, as known to the call and the PV
    restarts

Exports  == INSTANCE IDFile WITH ids <- exportIDs, file <- exportFile,
                                 toWrite <- exportWrite, hung <- exportHung,
                                 lost <- exportLost
Projects == INSTANCE IDFile WITH ids <- projectIDs, file <- projectFile,
                                 toWrite <- projectWrite, hung <- projectHung,
                                 lost <- projectLost

flags       == <<useGanesha, enableXfsQuota, faults>>
exportVars  == <<exportIDs, exportFile, exportWrite, exportHung, exportLost>>
projectVars == <<projectIDs, projectFile, projectWrite, projectHung, projectLost>>
callVars    == <<call, at>>
vars == <<flags, exportVars, projectVars, dirs, served, limits, callVars, eid, pid, restarts>>

IDs == 0..MaxID
Calls == {"claim", "Provision", "live", "Delete", "failed", "gone"}
ExportSteps  == {"generateExport", "addExport", "export"}
ProjectSteps == {"generateProject", "addProject", "project", "setQuota"}
RemoveExportSteps  == {"freeExport", "truncateExport", "writeExport"}
RemoveProjectSteps == {"freeProject", "truncateProject", "writeProject"}
Steps == ExportSteps \cup ProjectSteps \cup RemoveExportSteps \cup RemoveProjectSteps
           \cup {"none", "savePV", "unexport", "deletePV"}

TypeOK ==
    /\ useGanesha \in BOOLEAN /\ enableXfsQuota \in BOOLEAN
    /\ faults \in FaultSets
    /\ Exports!IDFileTypeOK
    /\ Projects!IDFileTypeOK
    /\ dirs \subseteq Volumes
    /\ served \subseteq Exports!Block
    /\ limits \in [IDs -> Volumes \cup {NoVolume}]
    /\ call \in [Volumes -> Calls]
    /\ at \in [Volumes -> Steps]
    /\ eid \in [Volumes -> IDs] /\ pid \in [Volumes -> IDs]
    /\ restarts \in Nat

\* The block of defaultGaneshaConfigContents (pkg/server), with Export_Id 0.
DefaultBlocks == IF useGanesha THEN {[id |-> 0, owner |-> NoVolume]} ELSE {}

Init ==
    /\ useGanesha \in BOOLEAN /\ enableXfsQuota \in BOOLEAN
    /\ faults \in FaultSets
    /\ exportFile = DefaultBlocks /\ exportIDs = Exports!getExistingIDs(exportFile)
    /\ exportWrite = {} /\ exportHung = FALSE /\ exportLost = "none"
    /\ projectFile = {} /\ projectIDs = {}
    /\ projectWrite = {} /\ projectHung = FALSE /\ projectLost = "none"
    /\ dirs = {}
    /\ served = exportFile
    /\ limits = [i \in IDs |-> NoVolume]
    /\ call = [v \in Volumes |-> "claim"]
    /\ at = [v \in Volumes |-> "none"]
    /\ eid = [v \in Volumes |-> 0] /\ pid = [v \in Volumes |-> 0]
    /\ restarts = 0

-----------------------------------------------------------------------------
exportBlock(v)  == [id |-> eid[v], owner |-> v]
projectBlock(v) == [id |-> pid[v], owner |-> v]

\* The call of v is at step s, and goes on with step next.
Goes(v, s, next) ==
    /\ at[v] = s
    /\ at' = [at EXCEPT ![v] = next]
    /\ UNCHANGED <<flags, call, restarts>>

\* The call of v is at step s and ends; v is then in state c.
Ends(v, s, c) ==
    /\ at[v] = s
    /\ at' = [at EXCEPT ![v] = "none"]
    /\ call' = [call EXCEPT ![v] = c]
    /\ UNCHANGED <<flags, restarts>>

CanExport == MaxExports < 0 \/ Cardinality(exportIDs) < MaxExports

(***************************************************************************)
(* Provision = createVolume: the limit is checked and the directory        *)
(* created (refused if it exists); then the export, then the quota.        *)
(* Options and the server address are validated before and change nothing. *)
(***************************************************************************)
Provision(v) ==
    /\ call[v] = "claim"
    /\ CanExport
    /\ v \notin dirs
    /\ dirs' = dirs \cup {v}
    /\ call' = [call EXCEPT ![v] = "Provision"]
    /\ at' = [at EXCEPT ![v] = "generateExport"]
    /\ UNCHANGED <<flags, exportVars, projectVars, served, limits, eid, pid, restarts>>

GenerateExportID(v) ==
    /\ Goes(v, "generateExport", IF Exports!Full THEN "generateExport" ELSE "addExport")
    /\ \E id \in IDs : Exports!generateID(id) /\ eid' = [eid EXCEPT ![v] = id]
    /\ UNCHANGED <<projectVars, dirs, served, limits, pid>>

AddExportBlock(v) ==
    /\ Goes(v, "addExport", "export")
    /\ Exports!addToFile(exportBlock(v))
    /\ UNCHANGED <<projectVars, dirs, served, limits, eid, pid>>

\* addToFile fails: the ID is given back, createVolume removes the directory.
AddExportBlockFails(v) ==
    /\ "provision" \in faults
    /\ Ends(v, "addExport", "claim")
    /\ Exports!deleteID(eid[v])
    /\ dirs' = dirs \ {v}
    /\ UNCHANGED <<projectVars, served, limits, eid, pid>>

\* ganesha's AddExport reads the block of the path from the file and refuses
\* an ID it exports already; exportfs -r reads the whole file.
Refused(v) ==
    /\ useGanesha
    /\ exportBlock(v) \notin exportFile \/ \E b \in served : b.id = eid[v]

Export(v) ==
    /\ Goes(v, "export", IF enableXfsQuota THEN "generateProject" ELSE "savePV")
    /\ ~Refused(v)
    /\ served' = IF useGanesha THEN served \cup {exportBlock(v)} ELSE exportFile
    /\ UNCHANGED <<exportVars, projectVars, dirs, limits, eid, pid>>

ExportFails(v) ==
    /\ Refused(v) \/ "provision" \in faults
    /\ Goes(v, "export", "freeExport")
    /\ UNCHANGED <<exportVars, projectVars, dirs, served, limits, eid, pid>>

GenerateProjectID(v) ==
    /\ Goes(v, "generateProject", IF Projects!Full THEN "generateProject" ELSE "addProject")
    /\ \E id \in IDs : Projects!generateID(id) /\ pid' = [pid EXCEPT ![v] = id]
    /\ UNCHANGED <<exportVars, dirs, served, limits, eid>>

AddProject(v) ==
    /\ Goes(v, "addProject", "project")
    /\ Projects!addToFile(projectBlock(v))
    /\ UNCHANGED <<exportVars, dirs, served, limits, eid, pid>>

\* createQuota fails: createVolume removes the directory; the export stays.
AddProjectFails(v) ==
    /\ "provision" \in faults
    /\ Ends(v, "addProject", "claim")
    /\ Projects!deleteID(pid[v])
    /\ dirs' = dirs \ {v}
    /\ UNCHANGED <<exportVars, served, limits, eid, pid>>

\* xfs_quota project assigns the directory to the project.
SpecifyProject(v) ==
    /\ \/ Goes(v, "project", "setQuota")
       \/ "provision" \in faults /\ Goes(v, "project", "freeProject")
    /\ UNCHANGED <<exportVars, projectVars, dirs, served, limits, eid, pid>>

SetQuota(v) ==
    /\ Goes(v, "setQuota", "savePV")
    /\ pid[v] \in projectIDs
    /\ limits' = [limits EXCEPT ![pid[v]] = v]
    /\ UNCHANGED <<exportVars, projectVars, dirs, served, eid, pid>>

SetQuotaFails(v) ==
    /\ pid[v] \notin projectIDs \/ "provision" \in faults
    /\ Goes(v, "setQuota", "freeProject")
    /\ UNCHANGED <<exportVars, projectVars, dirs, served, limits, eid, pid>>

\* Provision returns the PV with its annotations and the library saves it.
SavePV(v) ==
    /\ Ends(v, "savePV", "live")
    /\ UNCHANGED <<exportVars, projectVars, dirs, served, limits, eid, pid>>

-----------------------------------------------------------------------------
(***************************************************************************)
(* Delete: the directory, the export block and its ID, the export, the     *)
(* project, and then, by the library, the PV.                              *)
(***************************************************************************)
Delete(v) ==
    /\ call[v] \in {"live"} \cup (IF "retry" \in faults THEN {"failed"} ELSE {})
    /\ dirs' = dirs \ {v}
    /\ call' = [call EXCEPT ![v] = "Delete"]
    /\ at' = [at EXCEPT ![v] = "freeExport"]
    /\ UNCHANGED <<flags, exportVars, projectVars, served, limits, eid, pid, restarts>>

\* RemoveExportBlock, of Delete and of a Provision that could not export.
FreeExportID(v) ==
    /\ Goes(v, "freeExport", "truncateExport")
    /\ Exports!deleteID(eid[v])
    /\ UNCHANGED <<projectVars, dirs, served, limits, eid, pid>>

TruncateExports(v) ==
    /\ Goes(v, "truncateExport", "writeExport")
    /\ Exports!truncate(exportBlock(v))
    /\ UNCHANGED <<projectVars, dirs, served, limits, eid, pid>>

WriteExports(v) ==
    /\ \/ /\ call[v] = "Delete"
          /\ Goes(v, "writeExport", "unexport")
          /\ UNCHANGED dirs
       \/ /\ call[v] = "Provision"
          /\ Ends(v, "writeExport", "claim")
          /\ dirs' = dirs \ {v}
    /\ Exports!writeBack
    /\ UNCHANGED <<projectVars, served, limits, eid, pid>>

\* A Delete ends with the error, a Provision undoes the rest.
WriteExportsFails(v) ==
    /\ "write" \in faults
    /\ \/ call[v] = "Delete" /\ Ends(v, "writeExport", "failed") /\ UNCHANGED dirs
       \/ call[v] = "Provision" /\ Ends(v, "writeExport", "claim") /\ dirs' = dirs \ {v}
    /\ Exports!writeFails
    /\ UNCHANGED <<projectVars, served, limits, eid, pid>>

\* ganesha's RemoveExport fails for an ID it does not export.
Unexport(v) ==
    /\ Goes(v, "unexport", IF enableXfsQuota THEN "freeProject" ELSE "deletePV")
    /\ useGanesha => \E b \in served : b.id = eid[v]
    /\ served' = IF useGanesha THEN {b \in served : b.id # eid[v]} ELSE exportFile
    /\ UNCHANGED <<exportVars, projectVars, dirs, limits, eid, pid>>

\* RemoveProject, of Delete and of a Provision that could not set the quota.
FreeProjectID(v) ==
    /\ Goes(v, "freeProject", "truncateProject")
    /\ Projects!deleteID(pid[v])
    /\ UNCHANGED <<exportVars, dirs, served, limits, eid, pid>>

TruncateProjects(v) ==
    /\ Goes(v, "truncateProject", "writeProject")
    /\ Projects!truncate(projectBlock(v))
    /\ UNCHANGED <<exportVars, dirs, served, limits, eid, pid>>

WriteProjects(v) ==
    /\ \/ /\ call[v] = "Delete"
          /\ Goes(v, "writeProject", "deletePV")
          /\ UNCHANGED dirs
       \/ /\ call[v] = "Provision"
          /\ Ends(v, "writeProject", "claim")
          /\ dirs' = dirs \ {v}
    /\ Projects!writeBack
    /\ UNCHANGED <<exportVars, served, limits, eid, pid>>

WriteProjectsFails(v) ==
    /\ "write" \in faults
    /\ \/ call[v] = "Delete" /\ Ends(v, "writeProject", "failed") /\ UNCHANGED dirs
       \/ call[v] = "Provision" /\ Ends(v, "writeProject", "claim") /\ dirs' = dirs \ {v}
    /\ Projects!writeFails
    /\ UNCHANGED <<exportVars, served, limits, eid, pid>>

\* A removal that fails while a Provision is undone is ignored.
RollbackFails(v) ==
    /\ "rollback" \in faults
    /\ call[v] = "Provision"
    /\ \E s \in {"truncateExport", "truncateProject"} : Ends(v, s, "claim")
    /\ dirs' = dirs \ {v}
    /\ UNCHANGED <<exportVars, projectVars, served, limits, eid, pid>>

DeletePV(v) ==
    /\ Ends(v, "deletePV", "gone")
    /\ UNCHANGED <<exportVars, projectVars, dirs, served, limits, eid, pid>>

\* Reading a file, the server or the API server fails.
DeleteFails(v) ==
    /\ call[v] = "Delete"
    /\ \E s \in {"truncateExport", "unexport", "truncateProject", "deletePV"} :
         /\ \/ "delete" \in faults
            \/ s = "unexport" /\ useGanesha /\ \A b \in served : b.id # eid[v]
         /\ Ends(v, s, "failed")
    /\ UNCHANGED <<exportVars, projectVars, dirs, served, limits, eid, pid>>

-----------------------------------------------------------------------------
(***************************************************************************)
(* A new process: newGenericExporter and newXfsQuotaer read the files,     *)
(* restoreQuotas drops projects without directory and sets the limits of   *)
(* the others, and ganesha, which runs in the same pod, exports what its   *)
(* configuration says.  Calls under way are forgotten.  Not modelled: a    *)
(* start with two blocks of one ID, which ganesha or restoreQuotas may     *)
(* refuse.                                                                 *)
(***************************************************************************)
Owners(i) == {v \in dirs : [id |-> i, owner |-> v] \in projectFile}

restoreQuotas_DropLimits ==
    /\ Projects!reload({b \in projectFile : b.owner \notin dirs}, "write" \in faults)
    /\ limits' = [i \in {i \in IDs : Owners(i) # {}} |-> CHOOSE v \in Owners(i) : TRUE]
restoreQuotas_WrongTest ==
    /\ Projects!reload({b \in projectFile : b.owner \in dirs}, "write" \in faults)
    /\ UNCHANGED limits
restoreQuotas ==
    /\ Projects!reload({b \in projectFile : b.owner \notin dirs}, "write" \in faults)
    /\ limits' = [i \in IDs |-> IF Owners(i) = {} THEN limits[i]
                                ELSE CHOOSE v \in Owners(i) : TRUE]

Restart ==
    /\ restarts < MaxRestarts
    /\ restarts' = restarts + 1
    /\ Exports!Unambiguous /\ Projects!Unambiguous
    /\ Exports!reload({}, FALSE)
    /\ restoreQuotas
    /\ served' = IF useGanesha THEN exportFile ELSE served
    /\ call' = [v \in Volumes |-> IF call[v] = "Provision" THEN "claim"
                                  ELSE IF call[v] = "Delete" THEN "failed" ELSE call[v]]
    /\ at' = [v \in Volumes |-> "none"]
    /\ UNCHANGED <<flags, dirs, eid, pid>>

\* main runs ganesha again whenever it exits; it reads its configuration.
ServerRestarts ==
    /\ useGanesha
    /\ restarts < MaxRestarts
    /\ restarts' = restarts + 1
    /\ "server" \in faults \/ \A v \in Volumes : at[v] # "unexport"
    /\ Exports!Unambiguous
    /\ served' = exportFile
    /\ exportLost' = Exports!Reads
    /\ UNCHANGED <<flags, exportIDs, exportFile, exportWrite, exportHung>>
    /\ UNCHANGED <<projectVars, dirs, limits, callVars, eid, pid>>

ProvisionSteps(v) ==
    \/ Provision(v) \/ GenerateExportID(v) \/ AddExportBlock(v) \/ AddExportBlockFails(v)
    \/ Export(v) \/ ExportFails(v) \/ GenerateProjectID(v) \/ AddProject(v)
    \/ AddProjectFails(v) \/ SpecifyProject(v) \/ SetQuota(v) \/ SetQuotaFails(v) \/ SavePV(v)

DeleteSteps(v) ==
    \/ Delete(v) \/ FreeExportID(v) \/ TruncateExports(v) \/ WriteExports(v) \/ Unexport(v)
    \/ FreeProjectID(v) \/ TruncateProjects(v) \/ WriteProjects(v) \/ RollbackFails(v)
    \/ WriteExportsFails(v) \/ WriteProjectsFails(v) \/ DeletePV(v) \/ DeleteFails(v)

Next == Restart \/ ServerRestarts \/ \E v \in Volumes : ProvisionSteps(v) \/ DeleteSteps(v)

Spec == Init /\ [][Next]_vars

-----------------------------------------------------------------------------
\* v has been given an export ID (a project ID) and has not given it back.
HoldsExport(v) ==
    \/ call[v] = "live"
    \/ call[v] = "Provision" /\ at[v] \notin {"generateExport", "truncateExport", "writeExport"}
    \/ call[v] = "Delete" /\ at[v] = "freeExport"
HoldsProject(v) ==
    /\ enableXfsQuota
    /\ \/ call[v] = "live"
       \/ at[v] \in {"addProject", "project", "setQuota", "savePV", "freeProject"}
       \/ call[v] = "Delete" /\ at[v] \in RemoveExportSteps \cup {"unexport"}

(***************************************************************************)
(* No ID is held by two volumes, and the map knows every ID that is held,  *)
(* so that generateID cannot hand it out a second time (exportMap, and the *)
(* projects of the quotaer).  A new process takes the map from the file    *)
(* (getExistingIDs): once it has read a file of which rewriting lost       *)
(* blocks (removeFromFile), nothing is promised for that kind of ID.       *)
(***************************************************************************)
IDsDistinct ==
    /\ exportLost # "read" =>
         /\ \A v \in Volumes : HoldsExport(v) => eid[v] \in exportIDs
         /\ \A v, w \in Volumes : HoldsExport(v) /\ HoldsExport(w) /\ eid[v] = eid[w] => v = w
    /\ projectLost # "read" =>
         /\ \A v \in Volumes : HoldsProject(v) => pid[v] \in projectIDs
         /\ \A v, w \in Volumes : HoldsProject(v) /\ HoldsProject(w) /\ pid[v] = pid[w] => v = w

(***************************************************************************)
(* A PV can be used: its directory exists, its export block stands in the  *)
(* file, so that it outlives a restart, and ganesha exports it; the steps  *)
(* of other calls, their rollbacks and restarts do not take any of this    *)
(* away (createVolume, RemoveExportBlock, Unexport).  The block is safe    *)
(* until rewriting the file fails or is cut off, the export until a new    *)
(* process or server has read what that left.                              *)
(***************************************************************************)
LivePVsExported == \A v \in Volumes : call[v] = "live" =>
    /\ v \in dirs
    /\ exportLost = "none" => Exports!Kept(exportBlock(v))
    /\ useGanesha /\ exportLost # "read" => exportBlock(v) \in served

(***************************************************************************)
(* The quota of a PV is enforced: its project stands in the projects file  *)
(* and the limit set for its project ID is its own, whichever volume had   *)
(* the ID before (AddProject, SetQuota, restoreQuotas), with the same      *)
(* reservation.                                                            *)
(***************************************************************************)
LivePVsLimited == \A v \in Volumes : call[v] = "live" /\ enableXfsQuota =>
    /\ projectLost = "none" => Projects!Kept(projectBlock(v))
    /\ projectLost # "read" => limits[pid[v]] = v
=============================================================================
