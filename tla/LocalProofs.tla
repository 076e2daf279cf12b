---------------------------- MODULE LocalProofs ----------------------------
(***************************************************************************)
(* Theorems about LocalProvisioner, for every set of volumes and classes,  *)
(* every configuration and every bound: its types; that the Deleter never  *)
(* touches a volume in use, however late the informer's reports are; that  *)
(* what can be bound is clean; and that the provisioner implements the     *)
(* abstract life of a volume.                                              *)
(***************************************************************************)
EXTENDS LocalProvisioner, TLAPS

-----------------------------------------------------------------------------
(***************************************************************************)
(* Writing an object keeps the API server's side well typed.               *)
(***************************************************************************)
LEMMA WritePVType ==
    ASSUME PVTypeOK, NEW v \in Volumes, NEW pv \in PV \cup {NoPV}, WritePV(v, pv)
    PROVE  /\ apiPV' \in [Volumes -> PV \cup {NoPV}]
           /\ pvEvents' \in [Volumes -> Seq(PV \cup {NoPV, Tombstone})]
<1> DEFINE Reports == PV \cup {NoPV, Tombstone}
<1>1. pvEvents[v] \in Seq(Reports) /\ pv \in Reports
  BY DEF PVTypeOK
<1>2. Append(pvEvents[v], pv) \in Seq(Reports)
  BY <1>1
<1>3. pvEvents' \in [Volumes -> Seq(Reports)]
  BY <1>2 DEF PVTypeOK, WritePV
<1> QED BY <1>3 DEF PVTypeOK, WritePV

\* The same for jobs.
LEMMA WriteJobType ==
    ASSUME JobTypeOK, NEW v \in Volumes, NEW job \in JobStates, WriteJob(v, job)
    PROVE  JobTypeOK'
<1>1. Append(jobEvents[v], job) \in Seq(JobStates)
  BY DEF JobTypeOK
<1> QED BY <1>1 DEF JobTypeOK, WriteJob

LEMMA DeleteJobType ==
    ASSUME JobTypeOK, NEW v \in Volumes, DeleteJob(v)
    PROVE  JobTypeOK'
<1>1. CASE UNCHANGED jobVars
  BY <1>1 DEF JobTypeOK, jobVars
<1>2. CASE WriteJob(v, IF Succeeded(apiJob[v]) THEN "terminating" ELSE "none")
  BY <1>2, WriteJobType DEF JobStates
<1> QED BY <1>1, <1>2 DEF DeleteJob

LEMMA PVTypeStep == ASSUME TypeOK, [Next]_vars PROVE PVTypeOK'
<1> USE DEF TypeOK
<1>1. ASSUME NEW v \in Volumes, Populate(v) PROVE PVTypeOK'
  <2> DEFINE Reports == PV \cup {NoPV, Tombstone}
  <2>1. pvEvents[v] \in Seq(Reports) /\ pvEvents[v] # <<>>
    BY <1>1 DEF PVTypeOK, Populate
  <2>2. Tail(pvEvents[v]) \in Seq(Reports)
    BY <2>1
  <2>3. pvEvents' \in [Volumes -> Seq(Reports)]
    BY <1>1, <2>2 DEF PVTypeOK, Populate
  <2>4. pvCache' \in [Volumes -> PV \cup {NoPV}]
    BY <1>1 DEF PVTypeOK, Populate, handlePVUpdate, handlePVDelete, handleTombstone
  <2> QED BY <1>1, <2>3, <2>4 DEF PVTypeOK, Populate
<1>2. ASSUME NEW v \in Volumes, NEW pv \in PV \cup {NoPV}, WritePV(v, pv), UNCHANGED pvCache
      PROVE  PVTypeOK'
  BY <1>2, WritePVType DEF PVTypeOK
<1>3. CASE UNCHANGED pvVars
  BY <1>3 DEF PVTypeOK, pvVars
<1>4. CASE RelistPVs \/ RestartInformer
  <2>1. \A v \in Volumes : <<apiPV[v]>> \in Seq(PV \cup {NoPV, Tombstone})
    BY DEF PVTypeOK
  <2>2. <<Tombstone>> \in Seq(PV \cup {NoPV, Tombstone}) /\ <<>> \in Seq(PV \cup {NoPV, Tombstone})
    OBVIOUS
  <2> QED BY <1>4, <2>1, <2>2 DEF PVTypeOK, RelistPVs, RestartInformer
<1>5. ASSUME NEW v \in Volumes, CreatePVSent(v) PROVE PVTypeOK'
  <2>1. NewPV(v) \in PV
    BY <1>5, ConfigAssumption DEF NewPV, PV, Phases, CreatePVSent
  <2> QED BY <1>2, <1>5, <2>1 DEF CreatePVSent, CreatePVDone
<1>6. ASSUME NEW v \in Volumes, Bind(v) \/ Release(v) \/ PatchPolicy(v) PROVE PVTypeOK'
  <2>1. ASSUME NEW from \in Phases, NEW to \in Phases, SetPhase(v, from, to), UNCHANGED pvCache
        PROVE  PVTypeOK'
    <3>1. apiPV[v] \in PV
      BY <2>1 DEF PVTypeOK, SetPhase, PV, NoPV, Phases
    <3>2. [phase |-> to, policy |-> apiPV[v].policy] \in PV
      BY <3>1 DEF PV
    <3> QED BY <1>2, <2>1, <3>2 DEF SetPhase
  <2>2. ASSUME NEW p \in PatchTo, SetPolicy(v, p), UNCHANGED pvCache PROVE PVTypeOK'
    <3>1. apiPV[v] \in PV
      BY <2>2 DEF PVTypeOK, SetPolicy, Claimable, PV, NoPV, Phases
    <3>2. p \in Policies
      BY FaultAssumption
    <3>3. [phase |-> apiPV[v].phase, policy |-> p] \in PV
      BY <3>1, <3>2 DEF PV
    <3> QED BY <1>2, <2>2, <3>3 DEF SetPolicy
  <2> QED BY <1>6, <2>1, <2>2 DEF Bind, Release, PatchPolicy, Phases
<1>7. CASE MainLoop
  BY <1>7, <1>2, <1>3, <1>5 DEF MainLoop, StartPass, StartDiscovery, Sleep, ReclaimPV,
     DeletePVSent, DeletePVDone, DeleteJobSent, DeleteJobDone, CreateJobSent, CreateJobDone,
     CallError, CallFails, DeleteJobLost, DiscoverFile, PassOverFile, CreatePVError,
     CreatePVFails, discoverVolumesAtPath, PassOverClass
<1>8. CASE Goroutines
  BY <1>8, <1>1, <1>3 DEF Goroutines, DeliverPV, DeliverJob, CleanDone, CleanFailed, MarkCleaned
<1>9. CASE Cluster
  BY <1>9, <1>3, <1>6 DEF Cluster, JobDone, JobGone
<1>10. CASE Faults
  BY <1>10, <1>2, <1>3, <1>4 DEF Faults, Restart, PVWatchBreaks, JobWatchBreaks, AdminDeletesPV,
     MediaLost, MediaBack, JobFailed
<1> QED BY <1>3, <1>7, <1>8, <1>9, <1>10 DEF Next, vars

LEMMA JobTypeStep == ASSUME TypeOK, [Next]_vars PROVE JobTypeOK'
<1> USE DEF TypeOK
<1>1. CASE UNCHANGED jobVars
  BY <1>1 DEF JobTypeOK, jobVars
<1>2. ASSUME NEW v \in Volumes, NEW job \in JobStates, WriteJob(v, job) PROVE JobTypeOK'
  BY <1>2, WriteJobType
<1>3. ASSUME NEW v \in Volumes, DeleteJob(v) PROVE JobTypeOK'
  BY <1>3, DeleteJobType
<1>4. ASSUME NEW v \in Volumes, ObserveJob(v) PROVE JobTypeOK'
  <2>1. jobEvents[v] \in Seq(JobStates) /\ jobEvents[v] # <<>>
    BY <1>4 DEF JobTypeOK, ObserveJob
  <2>2. Head(jobEvents[v]) \in JobStates /\ Tail(jobEvents[v]) \in Seq(JobStates)
    BY <2>1
  <2> QED BY <1>4, <2>2 DEF JobTypeOK, ObserveJob
<1>5. CASE RelistJobs \/ RestartJobInformer
  <2>1. <<>> \in Seq(JobStates) /\ \A v \in Volumes : <<apiJob[v]>> \in Seq(JobStates)
    BY DEF JobTypeOK
  <2> QED BY <1>5, <2>1 DEF JobTypeOK, RelistJobs, RestartJobInformer
<1>6. CASE MainLoop
  BY <1>6, <1>1, <1>2, <1>3 DEF MainLoop, StartPass, StartDiscovery, Sleep, ReclaimPV,
     DeletePVSent, DeletePVDone, DeleteJobSent, DeleteJobDone, CreateJobSent, CreateJobDone,
     CallError, CallFails, DeleteJobLost, DiscoverFile, PassOverFile, CreatePVSent,
     CreatePVError, discoverVolumesAtPath, PassOverClass, CreateJob, JobStates
<1>7. CASE Goroutines
  BY <1>7, <1>1, <1>4 DEF Goroutines, DeliverPV, DeliverJob, CleanDone, CleanFailed, MarkCleaned
<1>8. CASE Cluster
  BY <1>8, <1>1, <1>2 DEF Cluster, Bind, Release, PatchPolicy, JobDone, JobGone, JobSucceeds,
     JobCollected, AdminDeletesJob, JobStates
<1>9. CASE Faults
  BY <1>9, <1>1, <1>2, <1>5 DEF Faults, Restart, PVWatchBreaks, JobWatchBreaks, AdminDeletesPV,
     MediaLost, MediaBack, JobFailed, JobFails, JobStates
<1> QED BY <1>1, <1>6, <1>7, <1>8, <1>9 DEF Next, vars

\* The main loop, its goroutines and the disks.
LEMMA LoopTypeStep ==
    ASSUME TypeOK, [Next]_vars
    PROVE  DeleterTypeOK' /\ ProcTypeOK' /\ DiscovererTypeOK'
<1> USE DEF TypeOK, DeleterTypeOK, ProcTypeOK, DiscovererTypeOK
<1>1. CASE UNCHANGED <<loopVars, discoverVars>>
  BY <1>1 DEF loopVars, discoverVars
<1>2. ASSUME NEW v \in Volumes, ReclaimPV(v)
      PROVE  DeleterTypeOK' /\ ProcTypeOK' /\ DiscovererTypeOK'
  BY <1>2 DEF ReclaimPV, deletePV, SkipPV, TakeSuccess, runProcess, RemoveJob, runJob, Call,
     APICalls, RemoveEntry, MarkRunning, CleanupStates, discoverVars
<1>3. ASSUME NEW v \in Volumes, CleanDone(v) \/ CleanFailed(v) \/ MarkCleaned(v)
      PROVE  DeleterTypeOK' /\ ProcTypeOK' /\ DiscovererTypeOK'
  BY <1>3 DEF CleanDone, CleanFailed, MarkCleaned, cleanPVSucceeds, cleanPVFails, MarkDone,
     markStatus, CleanupStates, discoverVars
<1>4. CASE MainLoop
  <2>1. CASE StartPass \/ StartDiscovery \/ Sleep
    BY <2>1 DEF StartPass, StartDiscovery, Sleep, ListPVs, EndDeletePVs, EndDiscover, APICalls,
       discoverVars
  <2>2. ASSUME NEW c \in Classes, discoverVolumesAtPath(c) \/ PassOverClass(c)
        PROVE  DeleterTypeOK' /\ ProcTypeOK' /\ DiscovererTypeOK'
    BY <2>2 DEF discoverVolumesAtPath, PassOverClass, ReadClass, SkipClass, loopVars
  <2>3. ASSUME NEW v \in Volumes,
               DeletePVSent(v) \/ DeleteJobSent(v) \/ CreateJobSent(v) \/ CallError(v)
        PROVE  DeleterTypeOK' /\ ProcTypeOK' /\ DiscovererTypeOK'
    BY <2>3 DEF DeletePVSent, DeleteJobSent, CreateJobSent, CallError, DeletePVDone,
       DeleteJobDone, CreateJobDone, CallFails, DeleteJobLost, Return, Call, APICalls, discoverVars
  <2>4. ASSUME NEW v \in Volumes,
               DiscoverFile(v) \/ PassOverFile(v) \/ CreatePVSent(v) \/ CreatePVError(v)
        PROVE  DeleterTypeOK' /\ ProcTypeOK' /\ DiscovererTypeOK'
    BY <2>4 DEF DiscoverFile, PassOverFile, CreatePVSent, CreatePVError, VisitFile, SkipFile,
       CreatePVDone, CreatePVFails, Call, APICalls, discoverVars
  <2> QED BY <1>2, <1>4, <2>1, <2>2, <2>3, <2>4 DEF MainLoop
<1>5. CASE Goroutines
  BY <1>1, <1>3, <1>5 DEF Goroutines, DeliverPV, DeliverJob
<1>6. CASE Cluster
  BY <1>1, <1>6 DEF Cluster, Bind, Release, PatchPolicy, JobDone, JobGone
<1>7. CASE Faults
  BY <1>1, <1>7 DEF Faults, Restart, RestartDeleter, CleanupStates, PVWatchBreaks,
     JobWatchBreaks, AdminDeletesPV, MediaLost, MediaBack, JobFailed
<1> QED BY <1>1, <1>4, <1>5, <1>6, <1>7 DEF Next, vars

LEMMA DiskTypeStep ==
    ASSUME TypeOK, [Next]_vars
    PROVE  DiskTypeOK' /\ faults' \in [FaultKinds -> Nat]
<1> USE DEF TypeOK, DiskTypeOK
<1>1. CASE MainLoop
  BY <1>1 DEF MainLoop, StartPass, StartDiscovery, Sleep, ReclaimPV, DeletePVSent, DeleteJobSent,
     CreateJobSent, CallError, DiscoverFile, PassOverFile, CreatePVSent, CreatePVError,
     discoverVolumesAtPath, PassOverClass, diskVars
<1>2. CASE Goroutines
  BY <1>2 DEF Goroutines, DeliverPV, DeliverJob, CleanDone, CleanFailed, MarkCleaned,
     cleanPVSucceeds, cleanPVFails, MarkDone, Erased, diskVars
<1>3. CASE Cluster
  BY <1>3 DEF Cluster, Bind, Release, PatchPolicy, JobDone, JobGone, Erased, Written, diskVars
<1>4. CASE Faults
  BY <1>4 DEF Faults, Restart, PVWatchBreaks, JobWatchBreaks, AdminDeletesPV, MediaLost,
     MediaBack, JobFailed, Unmount, Remount, Fault, FaultKinds, diskVars
<1> QED BY <1>1, <1>2, <1>3, <1>4 DEF Next, vars, diskVars

(***************************************************************************)
(* Every variable keeps its type (TypeOK): no step of the Deleter, the     *)
(* Discoverer, the Populator, the goroutines or the environment leaves the *)
(* states the code has names for.                                          *)
(***************************************************************************)
THEOREM TypeCorrect == Spec => []TypeOK
<1>1. Init => TypeOK
  BY DEF Init, PVInit, NewProcTable, JobInit, DiskInit, DeleterInit, DiscovererInit, TypeOK,
     PVTypeOK, ProcTypeOK, JobTypeOK, DiskTypeOK, DeleterTypeOK, DiscovererTypeOK, CleanupStates,
     JobStates
<1>2. TypeOK /\ [Next]_vars => TypeOK'
  BY PVTypeStep, JobTypeStep, LoopTypeStep, DiskTypeStep DEF TypeOK
<1> QED BY <1>1, <1>2, PTL DEF Spec

-----------------------------------------------------------------------------
ToDelete == [phase |-> "Released", policy |-> "Delete"]

\* v is in the hands of DeletePVs: listed, or the subject of its API call.
Handled(v) == v \in todo \/ (v \in cur /\ pc # "CreatePV")

-----------------------------------------------------------------------------
(***************************************************************************)
(* The inductive invariant, in parts.                                      *)
(***************************************************************************)
\* The snapshot and the subject of a call live only in their half of the pass.
PassShape ==
    /\ pc \in {"sleep", "discover", "CreatePV"} => todo = {}
    /\ pc \in {"sleep", "delete", "discover"} => cur = {}

\* A deletion is the last report on a PV: it is not created anew before the
\* cache has forgotten it.
AllUpdates(q) == \A i \in 1..Len(q) : q[i] \in PV
UpdatesButLast(q) == \A i \in 1..Len(q) : i < Len(q) => q[i] \in PV

DeletionLast == \A v \in Volumes :
    /\ apiPV[v] # NoPV => AllUpdates(pvEvents[v])
    /\ UpdatesButLast(pvEvents[v])

\* A volume without PV in server and cache has no report under way.
GoneIsQuiet == \A v \in Volumes :
    apiPV[v] = NoPV /\ pvCache[v] = NoPV => Len(pvEvents[v]) = 0

\* While DeletePVs has v in hand and its PV exists, the cache knows it.
HandledIsCached == \A v \in Volumes :
    Handled(v) /\ apiPV[v] # NoPV => pvCache[v] # NoPV

\* A PV in use or to be kept is nowhere on record as one to delete.
UsedIsSafe == \A v \in Volumes :
    ~Disposable(apiPV[v]) =>
        /\ pvCache[v] # ToDelete
        /\ \A i \in 1..Len(pvEvents[v]) : pvEvents[v][i] # ToDelete
        /\ ~Handled(v)

\* What createPV is called for was absent from the cache, and still is.
CreatesUnknown == \A v \in Volumes :
    pc = "CreatePV" /\ v \in cur /\ apiPV[v] = NoPV => pvCache[v] = NoPV

LagParts ==
    /\ PassShape
    /\ DeletionLast
    /\ GoneIsQuiet
    /\ HandledIsCached
    /\ UsedIsSafe
    /\ CreatesUnknown

LagInv == TypeOK /\ LagParts

\* In process mode nothing is done with jobs, a cleanup goroutine only works
\* for a disposable PV, and createPV is not called while one is at work.
ProcessInv ==
    /\ \A v \in Volumes : apiJob[v] = "none"
    /\ pc \notin {"DeleteJob", "CreateJob"}
    /\ \A v \in Volumes : cleaner[v] # "idle" => Disposable(apiPV[v])
    /\ \A v \in Volumes : pc = "CreatePV" /\ v \in cur => ~IsRunning(v)

NoAdmin == MaxFaults["adminDelete"] = 0

-----------------------------------------------------------------------------
Reports == PV \cup {NoPV, Tombstone}

LEMMA NotPV == /\ NoPV \notin PV /\ Tombstone \notin PV /\ Tombstone # NoPV /\ ToDelete # NoPV
               /\ PV \subseteq Reports /\ NoPV \in Reports
BY DEF NoPV, Tombstone, PV, Phases, ToDelete, Reports

LEMMA PVTypes == ASSUME LagInv
                 PROVE  \A v \in Volumes : /\ apiPV[v] \in PV \cup {NoPV}
                                            /\ pvCache[v] \in PV \cup {NoPV}
                                            /\ pvEvents[v] \in Seq(Reports)
BY DEF LagInv, TypeOK, PVTypeOK, Reports

\* A write to v alone.
LEMMA Written_PV ==
    ASSUME LagInv, NEW v \in Volumes, NEW pv, WritePV(v, pv)
    PROVE  /\ \A u \in Volumes \ {v} : apiPV'[u] = apiPV[u] /\ pvEvents'[u] = pvEvents[u]
           /\ apiPV'[v] = pv
           /\ pvEvents'[v] = Append(pvEvents[v], pv)
           /\ pvEvents[v] \in Seq(Reports)
BY DEF LagInv, TypeOK, PVTypeOK, WritePV, Reports

\* What a report appended to a queue makes of it.
LEMMA Appended ==
    ASSUME NEW s \in Seq(Reports), NEW e \in Reports
    PROVE  /\ Len(Append(s, e)) = Len(s) + 1
           /\ Len(s) \in Nat
           /\ \A i \in 1..Len(s) : Append(s, e)[i] = s[i]
           /\ Append(s, e)[Len(s) + 1] = e
           /\ AllUpdates(s) => UpdatesButLast(Append(s, e))
           /\ AllUpdates(s) /\ e \in PV => AllUpdates(Append(s, e))
<1>1. /\ Len(Append(s, e)) = Len(s) + 1
      /\ Len(s) \in Nat
      /\ \A i \in 1..Len(s) : Append(s, e)[i] = s[i]
      /\ Append(s, e)[Len(s) + 1] = e
  OBVIOUS
<1>2. \A i \in 1..Len(Append(s, e)) : i \in 1..Len(s) \/ i = Len(s) + 1
  BY <1>1
<1> QED BY <1>1, <1>2 DEF AllUpdates, UpdatesButLast

\* What a report taken from a queue makes of it.
LEMMA Taken ==
    ASSUME NEW s \in Seq(Reports), s # <<>>
    PROVE  /\ Len(s) \in Nat \ {0}
           /\ Head(s) = s[1]
           /\ Len(Tail(s)) = Len(s) - 1
           /\ \A i \in 1..Len(Tail(s)) : Tail(s)[i] = s[i + 1]
           /\ UpdatesButLast(s) => UpdatesButLast(Tail(s))
           /\ AllUpdates(s) => AllUpdates(Tail(s))
           /\ s[1] \notin PV /\ UpdatesButLast(s) => Len(Tail(s)) = 0
<1>1. /\ Len(s) \in Nat \ {0}
      /\ Head(s) = s[1]
      /\ Tail(s) \in Seq(Reports)
      /\ Len(Tail(s)) = Len(s) - 1
      /\ \A i \in 1..Len(Tail(s)) : Tail(s)[i] = s[i + 1]
  OBVIOUS
<1>2. \A i \in 1..Len(Tail(s)) : i + 1 \in 1..Len(s)
  BY <1>1
<1>3. UpdatesButLast(s) => UpdatesButLast(Tail(s))
  <2> SUFFICES ASSUME UpdatesButLast(s), NEW i \in 1..Len(Tail(s)), i < Len(Tail(s))
               PROVE  Tail(s)[i] \in PV
    BY DEF UpdatesButLast
  <2>1. i + 1 \in 1..Len(s) /\ i + 1 < Len(s)
    BY <1>1
  <2> QED BY <1>1, <2>1 DEF UpdatesButLast
<1>4. AllUpdates(s) => AllUpdates(Tail(s))
  BY <1>1, <1>2 DEF AllUpdates
<1>5. s[1] \notin PV /\ UpdatesButLast(s) => Len(Tail(s)) = 0
  BY <1>1 DEF UpdatesButLast
<1> QED BY <1>1, <1>3, <1>4, <1>5

\* A queue of at most one report.
LEMMA Short ==
    /\ AllUpdates(<<>>) /\ UpdatesButLast(<<>>)
    /\ \A e : UpdatesButLast(<<e>>) /\ (e \in PV => AllUpdates(<<e>>))
    /\ \A e : Len(<<e>>) = 1 /\ <<e>>[1] = e
    /\ Len(<<>>) = 0
BY DEF AllUpdates, UpdatesButLast

-----------------------------------------------------------------------------
(***************************************************************************)
(* One lemma for each way a step can touch the variables of LagParts.      *)
(***************************************************************************)
\* Nothing LagParts is about changes.
LEMMA LagFrame ==
    ASSUME LagParts, UNCHANGED <<pvVars, pc, todo, cur>>
    PROVE  LagParts'
BY DEF LagParts, PassShape, DeletionLast, GoneIsQuiet, HandledIsCached, UsedIsSafe,
   CreatesUnknown, Handled, pvVars

\* The main loop moves on and no PV is written.
LEMMA LagLoop ==
    ASSUME LagInv, UNCHANGED pvVars, PassShape',
           \A v \in Volumes : Handled(v)' => Handled(v) \/ pvCache[v] = ToDelete,
           \A v \in Volumes : pc' = "CreatePV" /\ v \in cur' => pvCache[v] = NoPV
    PROVE  LagParts'
BY NotPV DEF LagInv, LagParts, PassShape, DeletionLast, GoneIsQuiet, HandledIsCached, UsedIsSafe,
   CreatesUnknown, pvVars

\* A PV that exists is written: bound, released, or its policy changed.
LEMMA LagUsed ==
    ASSUME LagInv, NEW v \in Volumes, NEW pv \in PV, ~Disposable(apiPV[v]),
           WritePV(v, pv), UNCHANGED <<pvCache, pc, todo, cur>>
    PROVE  LagParts'
<1> USE DEF LagInv, LagParts
<1>1. apiPV[v] # NoPV
  BY DEF Disposable
<1>2. /\ Len(pvEvents'[v]) = Len(pvEvents[v]) + 1
      /\ Len(pvEvents[v]) \in Nat
      /\ \A i \in 1..Len(pvEvents[v]) : pvEvents'[v][i] = pvEvents[v][i]
      /\ pvEvents'[v][Len(pvEvents[v]) + 1] = pv
      /\ AllUpdates(pvEvents[v]) => AllUpdates(pvEvents'[v]) /\ UpdatesButLast(pvEvents'[v])
  <2>1. pv \in Reports
    BY NotPV
  <2>2. pvEvents'[v] = Append(pvEvents[v], pv) /\ pvEvents[v] \in Seq(Reports)
    BY Written_PV
  <2> HIDE DEF LagInv, LagParts
  <2> QED BY <2>1, <2>2, Appended
<1>3. /\ \A u \in Volumes \ {v} : apiPV'[u] = apiPV[u] /\ pvEvents'[u] = pvEvents[u]
      /\ apiPV'[v] = pv
  BY Written_PV
<1>4. AllUpdates(pvEvents'[v]) /\ UpdatesButLast(pvEvents'[v])
  BY <1>1, <1>2 DEF DeletionLast
<1>5. PassShape'
  BY DEF PassShape
<1>6. DeletionLast'
  BY <1>3, <1>4 DEF DeletionLast
<1>7. GoneIsQuiet'
  BY <1>3, NotPV DEF GoneIsQuiet
<1>8. HandledIsCached'
  BY <1>1, <1>3 DEF HandledIsCached, Handled
<1>9. UsedIsSafe'
  <2>1. ~Disposable(pv) => pv # ToDelete
    BY DEF Disposable, ToDelete
  <2>2. \A i \in 1..Len(pvEvents'[v]) : i \in 1..Len(pvEvents[v]) \/ i = Len(pvEvents[v]) + 1
    BY <1>2
  <2>3. ~Disposable(pv) => \A i \in 1..Len(pvEvents'[v]) : pvEvents'[v][i] # ToDelete
    BY <1>2, <2>1, <2>2 DEF UsedIsSafe
  <2> QED BY <1>3, <2>3 DEF UsedIsSafe, Handled
<1>10. CreatesUnknown'
  BY <1>3, NotPV DEF CreatesUnknown
<1> QED BY <1>5, <1>6, <1>7, <1>8, <1>9, <1>10

\* The Populator handles a report.
LEMMA LagPopulate ==
    ASSUME LagInv, NEW v \in Volumes, Populate(v), UNCHANGED <<pc, todo, cur>>
    PROVE  LagParts'
<1> USE DEF LagInv, LagParts
<1>1. /\ Len(pvEvents[v]) \in Nat \ {0}
      /\ Head(pvEvents[v]) = pvEvents[v][1]
      /\ Len(pvEvents'[v]) = Len(pvEvents[v]) - 1
      /\ \A i \in 1..Len(pvEvents'[v]) : pvEvents'[v][i] = pvEvents[v][i + 1]
      /\ pvEvents'[v] = Tail(pvEvents[v])
      /\ pvEvents[v] \in Seq(Reports) /\ pvEvents[v] # <<>>
  <2>1. /\ pvEvents'[v] = Tail(pvEvents[v])
        /\ pvEvents[v] \in Seq(Reports) /\ pvEvents[v] # <<>>
    BY DEF Populate, TypeOK, PVTypeOK, Reports
  <2> QED BY <2>1, Taken
<1>2. /\ \A u \in Volumes \ {v} : pvCache'[u] = pvCache[u] /\ pvEvents'[u] = pvEvents[u]
      /\ apiPV' = apiPV
  BY DEF TypeOK, PVTypeOK, Populate, handlePVUpdate, handlePVDelete, handleTombstone
<1>3. \/ pvEvents[v][1] \in PV /\ pvCache'[v] = pvEvents[v][1]
      \/ pvEvents[v][1] = NoPV /\ pvCache'[v] = NoPV
      \/ pvEvents[v][1] = Tombstone /\ pvCache'[v] = pvCache[v]
  BY <1>1 DEF TypeOK, PVTypeOK, Populate, handlePVUpdate, handlePVDelete, handleTombstone
<1>4. PassShape'
  BY DEF PassShape
<1>5. DeletionLast'
  BY <1>1, <1>2, Taken DEF DeletionLast
<1>6. apiPV[v] # NoPV => pvCache'[v] # NoPV
  BY <1>1, <1>3, NotPV DEF DeletionLast, AllUpdates
<1>7. GoneIsQuiet'
  <2>1. ASSUME apiPV[v] = NoPV, pvCache'[v] = NoPV PROVE Len(pvEvents'[v]) = 0
    <3>1. pvEvents[v][1] = NoPV
      BY <1>1, <1>3, <2>1, NotPV DEF GoneIsQuiet
    <3> QED BY <1>1, <3>1, Taken, NotPV DEF DeletionLast
  <2> QED BY <1>2, <2>1 DEF GoneIsQuiet
<1>8. HandledIsCached'
  BY <1>2, <1>6 DEF HandledIsCached, Handled
<1>9. UsedIsSafe'
  <2>1. \A i \in 1..Len(pvEvents'[v]) : i + 1 \in 1..Len(pvEvents[v])
    BY <1>1
  <2>2. ~Disposable(apiPV[v]) => pvCache'[v] # ToDelete
    BY <1>1, <1>3, NotPV DEF UsedIsSafe
  <2>3. ~Disposable(apiPV[v]) => \A i \in 1..Len(pvEvents'[v]) : pvEvents'[v][i] # ToDelete
    BY <1>1, <2>1 DEF UsedIsSafe
  <2> QED BY <1>2, <2>2, <2>3 DEF UsedIsSafe, Handled
<1>10. CreatesUnknown'
  BY <1>2, <1>1 DEF CreatesUnknown, GoneIsQuiet, Populate
<1> QED BY <1>4, <1>5, <1>7, <1>8, <1>9, <1>10

\* The watch breaks.
LEMMA LagRelist ==
    ASSUME LagInv, RelistPVs, UNCHANGED <<pc, todo, cur>>
    PROVE  LagParts'
<1> USE DEF LagInv, LagParts, TypeOK, PVTypeOK
<1>1. /\ apiPV' = apiPV /\ pvCache' = pvCache
      /\ \A v \in Volumes :
           /\ apiPV[v] # NoPV => pvEvents'[v] = <<apiPV[v]>> /\ apiPV[v] \in PV
           /\ apiPV[v] = NoPV => pvEvents'[v] \in {<<Tombstone>>, <<>>}
           /\ apiPV[v] = NoPV /\ pvCache[v] = NoPV => pvEvents'[v] = <<>>
  BY DEF RelistPVs
<1>2. DeletionLast'
  BY <1>1, Short DEF DeletionLast
<1>3. UsedIsSafe'
  BY <1>1, Short DEF UsedIsSafe, Handled, Disposable, ToDelete
<1> QED BY <1>1, <1>2, <1>3, Short DEF PassShape, GoneIsQuiet, HandledIsCached, CreatesUnknown, Handled

\* A new process.
LEMMA LagRestart ==
    ASSUME LagInv, RestartInformer, RestartDeleter
    PROVE  LagParts'
<1> USE DEF LagInv, LagParts, TypeOK, PVTypeOK, RestartDeleter
<1>1. /\ apiPV' = apiPV
      /\ \A v \in Volumes :
           /\ pvCache'[v] = NoPV
           /\ apiPV[v] # NoPV => pvEvents'[v] = <<apiPV[v]>> /\ apiPV[v] \in PV
           /\ apiPV[v] = NoPV => pvEvents'[v] = <<>>
  BY DEF RestartInformer
<1>2. DeletionLast'
  BY <1>1, Short DEF DeletionLast
<1>3. UsedIsSafe'
  BY <1>1, NotPV, Short DEF UsedIsSafe, Handled, Disposable, ToDelete
<1> QED BY <1>1, <1>2, <1>3, Short DEF PassShape, GoneIsQuiet, HandledIsCached, CreatesUnknown, Handled

\* The provisioner deletes the PV it has in hand.
LEMMA LagDelete ==
    ASSUME LagInv, NEW v \in Volumes, DeletePVDone(v)
    PROVE  LagParts'
<1> USE DEF LagInv, LagParts
<1>1. /\ apiPV[v] # NoPV /\ pc = "DeletePV" /\ v \in cur /\ pc' = "delete" /\ cur' = {}
      /\ todo' = todo /\ pvCache' = pvCache /\ WritePV(v, NoPV)
  BY DEF DeletePVDone, Return
<1>2. UpdatesButLast(pvEvents'[v])
  <2>1. AllUpdates(pvEvents[v]) /\ NoPV \in Reports
    BY <1>1, NotPV DEF DeletionLast
  <2> QED BY <1>1, <2>1, Written_PV, Appended
<1>3. /\ \A u \in Volumes \ {v} : apiPV'[u] = apiPV[u] /\ pvEvents'[u] = pvEvents[u]
      /\ apiPV'[v] = NoPV
  BY <1>1, Written_PV
<1>4. pvCache[v] # NoPV
  BY <1>1 DEF HandledIsCached, Handled
<1>5. DeletionLast'
  BY <1>1, <1>2, <1>3 DEF DeletionLast
<1>6. UsedIsSafe'
  BY <1>1, <1>3 DEF UsedIsSafe, Handled, Disposable
<1>7. HandledIsCached'
  BY <1>1, <1>3 DEF HandledIsCached, Handled
<1> QED BY <1>1, <1>3, <1>4, <1>5, <1>6, <1>7 DEF PassShape, GoneIsQuiet, CreatesUnknown

\* The provisioner creates a PV.
LEMMA LagCreate ==
    ASSUME LagInv, NEW v \in Volumes, CreatePVDone(v), UNCHANGED <<pvCache, todo>>
    PROVE  LagParts'
<1> USE DEF LagInv, LagParts
<1>1. /\ apiPV[v] = NoPV /\ pc = "CreatePV" /\ v \in cur /\ pc' = "discover" /\ cur' = {}
      /\ WritePV(v, NewPV(v))
  BY DEF CreatePVDone
<1>2. pvCache[v] = NoPV /\ Len(pvEvents[v]) = 0
  BY <1>1 DEF CreatesUnknown, GoneIsQuiet
<1>3. /\ \A u \in Volumes \ {v} : apiPV'[u] = apiPV[u] /\ pvEvents'[u] = pvEvents[u]
      /\ apiPV'[v] = NewPV(v)
      /\ pvEvents'[v] = Append(pvEvents[v], NewPV(v))
      /\ pvEvents[v] \in Seq(Reports)
  BY <1>1, Written_PV
<1>4. NewPV(v) \in PV /\ NewPV(v) # ToDelete
  BY ConfigAssumption DEF NewPV, PV, Phases, ToDelete
<1>5. todo' = {}
  BY <1>1 DEF PassShape
<1>8. /\ Len(pvEvents'[v]) = 1 /\ pvEvents'[v][1] = NewPV(v)
       /\ AllUpdates(pvEvents'[v]) /\ UpdatesButLast(pvEvents'[v])
  <2>1. AllUpdates(pvEvents[v]) /\ NewPV(v) \in Reports
    BY <1>2, <1>4, NotPV DEF AllUpdates
  <2> QED BY <1>2, <1>3, <1>4, <2>1, Appended
<1>6. DeletionLast'
  BY <1>3, <1>8 DEF DeletionLast
<1>7. UsedIsSafe'
  BY <1>1, <1>2, <1>3, <1>4, <1>5, <1>8, NotPV DEF UsedIsSafe, Handled
<1> QED BY <1>1, <1>3, <1>4, <1>5, <1>6, <1>7, NotPV
    DEF PassShape, GoneIsQuiet, HandledIsCached, CreatesUnknown, Handled

-----------------------------------------------------------------------------
\* The first half of a pass.
LEMMA LagReclaim ==
    ASSUME LagInv, UNCHANGED pvVars,
           \/ StartPass \/ StartDiscovery
           \/ \E v \in Volumes : ReclaimPV(v) \/ DeleteJobSent(v) \/ CreateJobSent(v) \/ CallError(v)
    PROVE  LagParts'
<1> USE DEF PassShape, Handled
<1>1. PassShape
  BY DEF LagInv, LagParts
<1>2. CASE StartPass
  <2>1. /\ pc = "sleep" /\ pc' = "delete" /\ cur' = cur
        /\ todo' = {v \in Volumes : Reclaimable(pvCache[v])}
    BY <1>2 DEF StartPass, ListPVs
  <2>2. \A v \in Volumes : Reclaimable(pvCache[v]) => pvCache[v] = ToDelete
    BY PVTypes DEF Reclaimable, ToDelete, PV, NoPV
  <2> QED BY <1>1, <2>1, <2>2, LagLoop
<1>3. CASE StartDiscovery
  BY <1>1, <1>3, LagLoop DEF StartDiscovery, EndDeletePVs
<1>4. ASSUME NEW v \in Volumes, ReclaimPV(v) PROVE LagParts'
  BY <1>1, <1>4, LagLoop DEF ReclaimPV, deletePV, SkipPV, TakeSuccess, runProcess, RemoveJob,
     runJob, Call
<1>5. ASSUME NEW v \in Volumes, DeleteJobSent(v) \/ CreateJobSent(v) \/ CallError(v)
      PROVE  LagParts'
  BY <1>1, <1>5, LagLoop DEF DeleteJobSent, CreateJobSent, CallError, DeleteJobDone,
     CreateJobDone, CallFails, DeleteJobLost, Return, Call
<1> QED BY <1>2, <1>3, <1>4, <1>5

\* The second half of a pass.
LEMMA LagDiscover ==
    ASSUME LagInv, UNCHANGED pvVars,
           \/ Sleep
           \/ \E c \in Classes : discoverVolumesAtPath(c) \/ PassOverClass(c)
           \/ \E v \in Volumes : DiscoverFile(v) \/ PassOverFile(v) \/ CreatePVError(v)
    PROVE  LagParts'
<1> USE DEF PassShape, Handled
<1>1. PassShape /\ LagParts
  BY DEF LagInv, LagParts
<1>2. CASE Sleep
  BY <1>1, <1>2, LagLoop DEF Sleep, EndDiscover
<1>3. ASSUME NEW c \in Classes, discoverVolumesAtPath(c) \/ PassOverClass(c) PROVE LagParts'
  BY <1>1, <1>3, LagFrame DEF discoverVolumesAtPath, PassOverClass, loopVars
<1>4. ASSUME NEW v \in Volumes, DiscoverFile(v) PROVE LagParts'
  BY <1>1, <1>4, LagLoop DEF DiscoverFile, VisitFile, Wanted, Call
<1>5. ASSUME NEW v \in Volumes, PassOverFile(v) PROVE LagParts'
  BY <1>1, <1>5, LagFrame DEF PassOverFile, SkipFile
<1>6. ASSUME NEW v \in Volumes, CreatePVError(v) PROVE LagParts'
  BY <1>1, <1>6, LagLoop DEF CreatePVError, CreatePVFails
<1> QED BY <1>2, <1>3, <1>4, <1>5, <1>6

LEMMA LagStep == ASSUME NoAdmin, LagInv, [Next]_vars PROVE LagParts'
<1>1. LagParts
  BY DEF LagInv
<1>2. CASE MainLoop
  <2>1. ASSUME NEW v \in Volumes, DeletePVSent(v) PROVE LagParts'
    BY <2>1, LagDelete DEF DeletePVSent
  <2>2. ASSUME NEW v \in Volumes, CreatePVSent(v) PROVE LagParts'
    BY <2>2, LagCreate DEF CreatePVSent
  <2>3. CASE \/ StartPass \/ StartDiscovery
             \/ \E v \in Volumes : ReclaimPV(v) \/ DeleteJobSent(v) \/ CreateJobSent(v) \/ CallError(v)
    BY <2>3, LagReclaim DEF StartPass, StartDiscovery, ReclaimPV, DeleteJobSent, CreateJobSent,
       CallError, DeleteJobDone, CreateJobDone, CallFails, DeleteJobLost
  <2>4. CASE \/ Sleep
             \/ \E c \in Classes : discoverVolumesAtPath(c) \/ PassOverClass(c)
             \/ \E v \in Volumes : DiscoverFile(v) \/ PassOverFile(v) \/ CreatePVError(v)
    BY <2>4, LagDiscover DEF Sleep, discoverVolumesAtPath, PassOverClass, DiscoverFile,
       PassOverFile, CreatePVError, CreatePVFails
  <2> QED BY <1>2, <2>1, <2>2, <2>3, <2>4 DEF MainLoop
<1>3. CASE Goroutines
  <2>1. ASSUME NEW v \in Volumes, DeliverPV(v) PROVE LagParts'
    BY <2>1, LagPopulate DEF DeliverPV, loopVars
  <2> QED BY <1>1, <1>3, <2>1, LagFrame DEF Goroutines, DeliverJob, CleanDone, CleanFailed,
             MarkCleaned, loopVars
<1>4. CASE Cluster
  <2>1. ASSUME NEW v \in Volumes, Bind(v) \/ Release(v) \/ PatchPolicy(v) PROVE LagParts'
    <3>1. /\ UNCHANGED <<pvCache, pc, todo, cur>>
          /\ Claimable(apiPV[v])
          /\ \E pv \in PV : WritePV(v, pv)
      <4>1. ASSUME NEW from \in {"Available", "Bound"}, NEW to \in Phases, SetPhase(v, from, to)
            PROVE  Claimable(apiPV[v]) /\ \E pv \in PV : WritePV(v, pv)
        <5>1. Claimable(apiPV[v]) /\ apiPV[v] \in PV
          BY <4>1, PVTypes DEF SetPhase, Claimable, NoPV
        <5>2. [phase |-> to, policy |-> apiPV[v].policy] \in PV
          BY <5>1 DEF PV
        <5> QED BY <4>1, <5>1, <5>2 DEF SetPhase
      <4>2. ASSUME NEW p \in PatchTo, SetPolicy(v, p)
            PROVE  Claimable(apiPV[v]) /\ \E pv \in PV : WritePV(v, pv)
        <5>1. Claimable(apiPV[v]) /\ apiPV[v] \in PV /\ p \in Policies
          BY <4>2, PVTypes, FaultAssumption DEF SetPolicy, Claimable, NoPV
        <5>2. [phase |-> apiPV[v].phase, policy |-> p] \in PV
          BY <5>1 DEF PV
        <5> QED BY <4>2, <5>1, <5>2 DEF SetPolicy
      <4> QED BY <2>1, <4>1, <4>2 DEF Bind, Release, PatchPolicy, Phases, loopVars
    <3>2. ~Disposable(apiPV[v])
      BY <3>1 DEF Claimable, Disposable, NoPV
    <3> QED BY <3>1, <3>2, LagUsed
  <2> QED BY <1>1, <1>4, <2>1, LagFrame DEF Cluster, JobDone, JobGone, loopVars
<1>5. CASE Faults
  <2>1. ASSUME NEW v \in Volumes PROVE ~AdminDeletesPV(v)
    BY DEF NoAdmin, AdminDeletesPV, Fault, LagInv, TypeOK, FaultKinds
  <2>2. CASE Restart
    BY <2>2, LagRestart DEF Restart
  <2>3. CASE PVWatchBreaks
    BY <2>3, LagRelist DEF PVWatchBreaks, loopVars
  <2> QED BY <1>1, <1>5, <2>1, <2>2, <2>3, LagFrame DEF Faults, JobWatchBreaks, MediaLost,
             MediaBack, JobFailed, loopVars
<1> QED BY <1>1, <1>2, <1>3, <1>4, <1>5, LagFrame DEF Next, vars, loopVars

LEMMA LagInit == Init => LagParts
BY Short DEF Init, PVInit, DeleterInit, LagParts, PassShape, DeletionLast, GoneIsQuiet,
   HandledIsCached, UsedIsSafe, CreatesUnknown, Handled, Disposable

LEMMA LagAlways == NoAdmin /\ Spec => []LagInv
<1>1. Init => LagParts
  BY LagInit
<1>2. NoAdmin /\ TypeOK /\ LagParts /\ [Next]_vars => LagParts'
  BY LagStep DEF LagInv
<1>3. LagInv <=> TypeOK /\ LagParts
  BY DEF LagInv
<1>4. (NoAdmin)' <=> NoAdmin
  BY DEF NoAdmin
<1> QED BY <1>1, <1>2, <1>3, <1>4, TypeCorrect, PTL DEF Spec

(***************************************************************************)
(* Whatever the informer's lag, the relists, restarts and failed calls, in *)
(* process and in job mode: as long as no PV is deleted behind the         *)
(* provisioner's back, deletePV never calls the API server about a PV that *)
(* has been bound, kept or created anew (ActsOnlyOnReleased).              *)
(***************************************************************************)
THEOREM ReclaimSafe == NoAdmin /\ Spec => []ActsOnlyOnReleased
<1>1. LagInv => ActsOnlyOnReleased
  BY DEF LagInv, LagParts, UsedIsSafe, Handled, ActsOnlyOnReleased
<1> QED BY <1>1, LagAlways, PTL

-----------------------------------------------------------------------------
(***************************************************************************)
(* The table of cleanup processes agrees with the goroutines, in every     *)
(* configuration and under every fault (TableTracksCleaners): MarkRunning  *)
(* and the start of asyncCleanPV go together, and so do its end and        *)
(* MarkSucceeded or MarkFailed.                                            *)
(***************************************************************************)
THEOREM TableIsRight == Spec => []TableTracksCleaners
<1> USE DEF TableTracksCleaners, IsRunning
<1>1. Init => TableTracksCleaners
  BY DEF Init, NewProcTable, DeleterInit
<1>2. ASSUME TypeOK, TableTracksCleaners, [Next]_vars PROVE TableTracksCleaners'
  <2> USE DEF TypeOK, ProcTypeOK, DeleterTypeOK
  <2>1. ASSUME NEW v \in Volumes, ReclaimPV(v) PROVE TableTracksCleaners'
    BY <1>2, <2>1 DEF ReclaimPV, deletePV, SkipPV, TakeSuccess, runProcess, RemoveJob, runJob,
       RemoveEntry, MarkRunning
  <2>2. ASSUME NEW v \in Volumes, CleanDone(v) \/ CleanFailed(v) \/ MarkCleaned(v)
        PROVE  TableTracksCleaners'
    BY <1>2, <2>2 DEF CleanDone, CleanFailed, MarkCleaned, cleanPVSucceeds, cleanPVFails,
       MarkDone, markStatus
  <2>3. CASE UNCHANGED <<cleaner, procTable>>
    BY <1>2, <2>3
  <2>4. CASE MainLoop
    BY <2>1, <2>3, <2>4 DEF MainLoop, StartPass, ListPVs, StartDiscovery, EndDeletePVs, Sleep,
       DeletePVSent, DeletePVDone, DeleteJobSent, DeleteJobDone, CreateJobSent, CreateJobDone,
       CallError, CallFails, DeleteJobLost, Return, DiscoverFile, PassOverFile, CreatePVSent,
       CreatePVError, discoverVolumesAtPath, PassOverClass, loopVars
  <2>5. CASE Goroutines
    BY <2>2, <2>3, <2>5 DEF Goroutines, DeliverPV, DeliverJob, loopVars
  <2>6. CASE Cluster
    BY <2>3, <2>6 DEF Cluster, Bind, Release, PatchPolicy, JobDone, JobGone, loopVars
  <2>7. CASE Faults
    BY <2>3, <2>7 DEF Faults, Restart, RestartDeleter, PVWatchBreaks, JobWatchBreaks,
       AdminDeletesPV, MediaLost, MediaBack, JobFailed, loopVars
  <2> QED BY <1>2, <2>3, <2>4, <2>5, <2>6, <2>7 DEF Next, vars, loopVars
<1> QED BY <1>1, <1>2, TypeCorrect, PTL DEF Spec

-----------------------------------------------------------------------------
ProcessMode == ~UseJobForCleaning

\* Cleaning by process, the PVs and the main loop left alone.
LEMMA ProcessFrame ==
    ASSUME ProcessInv, UNCHANGED <<apiPV, apiJob, pc, cur, cleaner, procTable>>
    PROVE  ProcessInv'
BY DEF ProcessInv, IsRunning

\* A step of the environment: a PV in use is written, and no PV with a
\* cleanup is one.
LEMMA ProcessUsed ==
    ASSUME ProcessInv, LagInv, NEW v \in Volumes, ~Disposable(apiPV[v]), NEW pv, WritePV(v, pv),
           UNCHANGED <<apiJob, pc, cur, cleaner, procTable>>
    PROVE  ProcessInv'
BY Written_PV DEF ProcessInv, IsRunning

LEMMA ProcessStep ==
    ASSUME NoAdmin, ProcessMode, LagInv, TableTracksCleaners, ProcessInv, [Next]_vars
    PROVE  ProcessInv'
<1>1. CASE MainLoop
  <2>1. CASE StartPass \/ StartDiscovery \/ Sleep
    BY <2>1 DEF ProcessInv, IsRunning, StartPass, StartDiscovery, Sleep, ListPVs, EndDeletePVs,
       EndDiscover, pvVars, jobVars
  <2>2. ASSUME NEW v \in Volumes, ReclaimPV(v) PROVE ProcessInv'
    <3>1. Disposable(apiPV[v])
      BY <2>2 DEF LagInv, LagParts, UsedIsSafe, Handled, ReclaimPV, deletePV
    <3>2. ~shouldRunJob(v)
      BY DEF ProcessMode, shouldRunJob
    <3>3. /\ \A u \in Volumes \ {v} : cleaner'[u] = cleaner[u]
          /\ pc' \in {"delete", "DeletePV"}
          /\ apiPV' = apiPV /\ apiJob' = apiJob
      BY <2>2, <3>2 DEF LagInv, TypeOK, DeleterTypeOK, ReclaimPV, deletePV, SkipPV, TakeSuccess,
         runProcess, RemoveJob, runJob, Call, pvVars, jobVars
    <3> QED BY <3>1, <3>3 DEF ProcessInv
  <2>3. ASSUME NEW v \in Volumes, DeletePVSent(v) PROVE ProcessInv'
    <3>1. WritePV(v, NoPV) /\ pc' = "delete" /\ UNCHANGED <<cleaner, procTable, apiJob>>
      BY <2>3 DEF DeletePVSent, DeletePVDone, Return, jobVars
    <3>2. Disposable(NoPV)
      BY DEF Disposable
    <3> QED BY <3>1, <3>2, Written_PV DEF ProcessInv
  <2>4. ASSUME NEW v \in Volumes, DeleteJobSent(v) \/ CreateJobSent(v) PROVE FALSE
    BY <2>4 DEF ProcessInv, DeleteJobSent, CreateJobSent, DeleteJobDone, CreateJobDone, Return
  <2>5. ASSUME NEW v \in Volumes, CallError(v) PROVE ProcessInv'
    BY <2>5 DEF ProcessInv, CallError, CallFails, DeleteJobLost, Return, pvVars, jobVars
  <2>6. ASSUME NEW v \in Volumes, DiscoverFile(v) PROVE ProcessInv'
    <3>1. ~IsRunning(v)
      BY <2>6 DEF ProcessMode, DiscoverFile, VisitFile, Wanted, InProgress, shouldRunJob
    <3>2. pc' = "CreatePV" /\ cur' = {v} /\ UNCHANGED <<apiPV, apiJob, cleaner, procTable>>
      BY <2>6 DEF DiscoverFile, VisitFile, Call, pvVars, jobVars
    <3> QED BY <3>1, <3>2 DEF ProcessInv, IsRunning
  <2>7. ASSUME NEW v \in Volumes, PassOverFile(v) PROVE ProcessInv'
    BY <2>7, ProcessFrame DEF PassOverFile, SkipFile, pvVars, jobVars
  <2>8. ASSUME NEW v \in Volumes, CreatePVSent(v) PROVE ProcessInv'
    <3>1. /\ pc = "CreatePV" /\ v \in cur /\ pc' = "discover" /\ WritePV(v, NewPV(v))
          /\ UNCHANGED <<cleaner, procTable, apiJob>>
      BY <2>8 DEF CreatePVSent, CreatePVDone, jobVars
    <3>2. cleaner[v] = "idle"
      BY <3>1 DEF ProcessInv, TableTracksCleaners
    <3> QED BY <3>1, <3>2, Written_PV DEF ProcessInv
  <2>9. ASSUME NEW v \in Volumes, CreatePVError(v) PROVE ProcessInv'
    BY <2>9 DEF ProcessInv, CreatePVError, CreatePVFails, pvVars, jobVars
  <2>10. ASSUME NEW c \in Classes, discoverVolumesAtPath(c) \/ PassOverClass(c) PROVE ProcessInv'
    BY <2>10, ProcessFrame DEF discoverVolumesAtPath, PassOverClass, loopVars, pvVars, jobVars
  <2> QED BY <1>1, <2>1, <2>2, <2>3, <2>4, <2>5, <2>6, <2>7, <2>8, <2>9, <2>10 DEF MainLoop
<1>2. CASE Goroutines
  <2>1. ASSUME NEW v \in Volumes, DeliverPV(v) \/ DeliverJob(v) PROVE ProcessInv'
    BY <2>1, ProcessFrame DEF DeliverPV, Populate, DeliverJob, ObserveJob, loopVars, pvVars, jobVars
  <2>2. ASSUME NEW v \in Volumes, CleanDone(v) \/ CleanFailed(v) \/ MarkCleaned(v)
        PROVE  ProcessInv'
    <3>1. /\ cleaner[v] # "idle"
          /\ \A u \in Volumes \ {v} : cleaner'[u] = cleaner[u] /\ procTable'[u] = procTable[u]
          /\ procTable'[v] = procTable[v] \/ procTable'[v] # "CSRunning"
          /\ UNCHANGED <<apiPV, apiJob, pc, cur>>
      BY <2>2 DEF LagInv, TypeOK, DeleterTypeOK, ProcTypeOK, CleanDone, CleanFailed, MarkCleaned,
         cleanPVSucceeds, cleanPVFails, MarkDone, markStatus, pvVars, jobVars
    <3> QED BY <3>1 DEF ProcessInv, IsRunning
  <2> QED BY <1>2, <2>1, <2>2 DEF Goroutines
<1>3. CASE Cluster
  <2>1. ASSUME NEW v \in Volumes, Bind(v) \/ Release(v) \/ PatchPolicy(v) PROVE ProcessInv'
    <3>1. /\ \E pv : WritePV(v, pv)
          /\ Claimable(apiPV[v])
          /\ UNCHANGED <<apiJob, pc, cur, cleaner, procTable>>
      BY <2>1 DEF Bind, Release, PatchPolicy, SetPhase, SetPolicy, Claimable, jobVars, loopVars
    <3>2. ~Disposable(apiPV[v])
      BY <3>1 DEF Claimable, Disposable, NoPV
    <3> QED BY <3>1, <3>2, ProcessUsed
  <2>2. ASSUME NEW v \in Volumes, JobDone(v) \/ JobGone(v) PROVE FALSE
    BY <2>2 DEF ProcessInv, JobDone, JobGone, JobSucceeds, JobCollected, AdminDeletesJob
  <2> QED BY <1>3, <2>1, <2>2 DEF Cluster
<1>4. CASE Faults
  <2>1. ASSUME NEW v \in Volumes PROVE ~AdminDeletesPV(v) /\ ~JobFailed(v)
    BY DEF NoAdmin, AdminDeletesPV, Fault, LagInv, TypeOK, FaultKinds, JobFailed, JobFails,
       ProcessInv
  <2>2. CASE Restart
    BY <2>2 DEF ProcessInv, Restart, RestartDeleter, RestartInformer, RestartJobInformer, IsRunning
  <2>3. CASE PVWatchBreaks \/ JobWatchBreaks \/ \E v \in Volumes : MediaLost(v) \/ MediaBack(v)
    BY <2>3, ProcessFrame DEF PVWatchBreaks, JobWatchBreaks, RelistPVs, RelistJobs, MediaLost,
       MediaBack, loopVars, pvVars, jobVars
  <2> QED BY <1>4, <2>1, <2>2, <2>3 DEF Faults
<1>5. CASE UNCHANGED vars
  BY <1>5, ProcessFrame DEF vars, loopVars, pvVars, jobVars
<1> QED BY <1>1, <1>2, <1>3, <1>4, <1>5 DEF Next

(***************************************************************************)
(* The main promise about data in use, in process mode: whatever the lag,  *)
(* the relists, restarts, failed calls and failed cleanups, as long as no  *)
(* PV is deleted behind the provisioner's back, a cleanup only ever works  *)
(* on a volume whose PV is Released with policy Delete or gone             *)
(* (CleansOnlyReleased).                                                   *)
(***************************************************************************)
THEOREM CleaningSafe == NoAdmin /\ ProcessMode /\ Spec => []CleansOnlyReleased
<1>1. Init => ProcessInv
  BY DEF Init, DeleterInit, JobInit, ProcessInv
<1>2. NoAdmin /\ ProcessMode /\ LagInv /\ TableTracksCleaners /\ ProcessInv /\ [Next]_vars
        => ProcessInv'
  BY ProcessStep
<1>3. ProcessInv => CleansOnlyReleased
  BY DEF ProcessInv, CleansOnlyReleased, BeingCleaned
<1>4. ((NoAdmin)' <=> NoAdmin) /\ ((ProcessMode)' <=> ProcessMode)
  BY DEF NoAdmin, ProcessMode
<1> QED BY <1>1, <1>2, <1>3, <1>4, LagAlways, TableIsRight, PTL DEF Spec


-----------------------------------------------------------------------------
(***************************************************************************)
(* A pass starts only when all reports have arrived and deleted jobs are   *)
(* gone, no watch loses the deletion of a PV, no volume is unmounted and   *)
(* no PV deleted by hand.                                                  *)
(***************************************************************************)
NoRelist == MaxFaults["relistPVs"] = 0
Prompt   == PromptReports /\ NoAdmin /\ NoRelist /\ MaxFaults["unmount"] = 0

\* The reports end with what there is; when there are none, it is known.
Arrives(reports, known, actual) ==
    IF reports = <<>> THEN known = actual ELSE reports[Len(reports)] = actual

PVsArrive  == \A v \in Volumes : Arrives(pvEvents[v], pvCache[v], apiPV[v])
JobsArrive == \A v \in Volumes : Arrives(jobEvents[v], jobLister[v], apiJob[v])

\* A volume is cleaned by jobs or by processes, not by both.
ModeOK(v) ==
    /\ shouldRunJob(v)  => procTable[v] = "CSNotFound"
    /\ ~shouldRunJob(v) => apiJob[v] = "none"
    /\ v \in cur /\ pc \in {"DeleteJob", "CreateJob"} => shouldRunJob(v)

\* What DeletePVs has listed: a success of its job that is known is that of the
\* job that is there.
ListedOK(v) == v \in todo =>
    /\ v \notin cur
    /\ apiJob[v] # "terminating"
    /\ Succeeded(jobLister[v]) => apiJob[v] = "succeeded"
    /\ \A i \in 1..Len(jobEvents[v]) : Succeeded(jobEvents[v][i]) => apiJob[v] = "succeeded"

\* What deletePV calls the API server about
CalledOK(v) == v \in cur =>
    /\ pc = "DeleteJob" => apiJob[v] = "succeeded"
    /\ pc = "DeletePV"  => /\ ~dirty[v]
                           /\ apiJob[v] \in {"none", "terminating"}
                           /\ procTable[v] = "CSNotFound"

\* The life that a cleanup belongs to, and what its success is worth
CleanedOK(v) ==
    /\ apiPV[v] = NoPV \/ apiPV[v].phase = "Available" => ~dirty[v]
    /\ procTable[v] # "CSNotFound" \/ apiJob[v] \in {"running", "failed", "succeeded"}
         => apiPV[v] = ToDelete
    /\ procTable[v] = "CSSucceeded" \/ cleaner[v] = "succeeded" \/ apiJob[v] = "succeeded"
         => ~dirty[v]

LifeOK(v) ==
    /\ media[v] = "mounted"
    /\ Handled(v) => apiPV[v] = ToDelete
    /\ ModeOK(v) /\ ListedOK(v) /\ CalledOK(v) /\ CleanedOK(v)

LifeInv == \A v \in Volumes : LifeOK(v)

-----------------------------------------------------------------------------
(***************************************************************************)
(* Reports of the watches.                                                 *)
(***************************************************************************)
\* A change is reported behind the reports under way.
LEMMA ArrivesWritten ==
    ASSUME NEW S, NEW q \in Seq(S), NEW e \in S, NEW known
    PROVE  /\ Arrives(Append(q, e), known, e)
           /\ Len(Append(q, e)) = Len(q) + 1
           /\ \A i \in 1..Len(Append(q, e)) : i \in 1..Len(q) \/ i = Len(q) + 1
           /\ \A i \in 1..Len(q) : Append(q, e)[i] = q[i]
           /\ Append(q, e)[Len(q) + 1] = e
<1>1. /\ Len(Append(q, e)) = Len(q) + 1 /\ Len(q) \in Nat
      /\ Append(q, e)[Len(q) + 1] = e
      /\ \A i \in 1..Len(q) : Append(q, e)[i] = q[i]
  OBVIOUS
<1>2. Append(q, e) # <<>>
  BY <1>1, Short
<1>3. Arrives(Append(q, e), known, e)
  BY <1>1, <1>2 DEF Arrives
<1>4. \A i \in 1..Len(Append(q, e)) : i \in 1..Len(q) \/ i = Len(q) + 1
  BY <1>1
<1> QED BY <1>1, <1>3, <1>4

\* The first report is handled: what it says is known.
LEMMA ArrivesTaken ==
    ASSUME NEW S, NEW q \in Seq(S), q # <<>>, NEW known, NEW actual, Arrives(q, known, actual)
    PROVE  /\ Arrives(Tail(q), Head(q), actual)
           /\ Len(Tail(q)) # 0 \/ Head(q) = actual
           /\ Tail(q) # <<>> => \A k : Arrives(Tail(q), k, actual)
           /\ Head(q) = q[1] /\ 1 \in 1..Len(q)
           /\ \A i \in 1..Len(Tail(q)) : i + 1 \in 1..Len(q) /\ Tail(q)[i] = q[i + 1]
<1>1. /\ Len(q) \in Nat \ {0} /\ Head(q) = q[1] /\ Tail(q) \in Seq(S)
      /\ Len(Tail(q)) = Len(q) - 1
      /\ \A i \in 1..Len(Tail(q)) : Tail(q)[i] = q[i + 1]
      /\ q[Len(q)] = actual
  BY DEF Arrives
<1>2. Tail(q) # <<>> => Len(Tail(q)) \in 1..Len(Tail(q))
  BY <1>1
<1>3. Tail(q) = <<>> => Len(q) = 1
  BY <1>1, Short
<1>4. Tail(q) # <<>> => Tail(q)[Len(Tail(q))] = actual
  BY <1>1, <1>2
<1> QED BY <1>1, <1>2, <1>3, <1>4 DEF Arrives

LEMMA ArrivesListed ==
    \A a, k : Arrives(<<a>>, k, a) /\ Arrives(<<>>, a, a)
BY DEF Arrives

-----------------------------------------------------------------------------
(***************************************************************************)
(* What is written to the API server about the PV or the job of v          *)
(***************************************************************************)
LEMMA WrittenPV ==
    ASSUME PVTypeOK, NEW v \in Volumes, NEW pv, WritePV(v, pv)
    PROVE  /\ \A u \in Volumes \ {v} : apiPV'[u] = apiPV[u] /\ pvEvents'[u] = pvEvents[u]
           /\ apiPV'[v] = pv /\ pvEvents'[v] = Append(pvEvents[v], pv)
BY DEF PVTypeOK, WritePV

LEMMA WrittenJob ==
    ASSUME JobTypeOK, NEW v \in Volumes, NEW job \in JobStates, WriteJob(v, job)
    PROVE  /\ \A u \in Volumes \ {v} : apiJob'[u] = apiJob[u] /\ jobEvents'[u] = jobEvents[u]
           /\ jobLister' = jobLister
           /\ apiJob'[v] = job /\ jobEvents'[v] = Append(jobEvents[v], job)
           /\ Arrives(jobEvents'[v], jobLister'[v], apiJob'[v])
           /\ \A i \in 1..Len(jobEvents'[v]) :
                \/ jobEvents'[v][i] = job
                \/ i \in 1..Len(jobEvents[v]) /\ jobEvents'[v][i] = jobEvents[v][i]
<1>1. /\ \A u \in Volumes \ {v} : apiJob'[u] = apiJob[u] /\ jobEvents'[u] = jobEvents[u]
      /\ jobLister' = jobLister
      /\ apiJob'[v] = job /\ jobEvents'[v] = Append(jobEvents[v], job)
      /\ jobEvents[v] \in Seq(JobStates)
  BY DEF JobTypeOK, WriteJob
<1> QED BY <1>1, ArrivesWritten

\* Every step that changes a PV in the server writes that of one volume, with what a
\* PV may be.
LEMMA PVWrites ==
    ASSUME TypeOK, [Next]_vars
    PROVE  \/ UNCHANGED apiPV /\ (UNCHANGED <<pvEvents, pvCache>> \/ Restart \/ PVWatchBreaks
                                    \/ \E v \in Volumes : Populate(v))
           \/ \E v \in Volumes, pv \in PV \cup {NoPV} : WritePV(v, pv) /\ UNCHANGED pvCache
<1> USE DEF TypeOK
<1>1. ASSUME NEW v \in Volumes, CreatePVSent(v)
      PROVE  \E pv \in PV \cup {NoPV} : WritePV(v, pv) /\ UNCHANGED pvCache
  <2>1. NewPV(v) \in PV
    BY ConfigAssumption DEF NewPV, PV, Phases
  <2> QED BY <1>1, <2>1 DEF CreatePVSent, CreatePVDone
<1>2. ASSUME NEW v \in Volumes, Bind(v) \/ Release(v) \/ PatchPolicy(v)
      PROVE  \E pv \in PV \cup {NoPV} : WritePV(v, pv) /\ UNCHANGED pvCache
  <2>1. ASSUME NEW from \in Phases, NEW to \in Phases, SetPhase(v, from, to)
        PROVE  \E pv \in PV \cup {NoPV} : WritePV(v, pv)
    <3>1. apiPV[v] \in PV
      BY <2>1 DEF PVTypeOK, SetPhase, NoPV, Phases
    <3>2. [phase |-> to, policy |-> apiPV[v].policy] \in PV
      BY <3>1 DEF PV
    <3> QED BY <2>1, <3>2 DEF SetPhase
  <2>2. ASSUME NEW p \in PatchTo, SetPolicy(v, p) PROVE \E pv \in PV \cup {NoPV} : WritePV(v, pv)
    <3>1. apiPV[v] \in PV /\ p \in Policies
      BY <2>2, FaultAssumption DEF PVTypeOK, SetPolicy, Claimable, NoPV
    <3>2. [phase |-> apiPV[v].phase, policy |-> p] \in PV
      BY <3>1 DEF PV
    <3> QED BY <2>2, <3>2 DEF SetPolicy
  <2> QED BY <1>2, <2>1, <2>2 DEF Bind, Release, PatchPolicy, Phases
<1>3. CASE MainLoop
  BY <1>1, <1>3 DEF MainLoop, StartPass, StartDiscovery, Sleep, ReclaimPV, DeletePVSent,
     DeletePVDone, DeleteJobSent, DeleteJobDone, CreateJobSent, CreateJobDone, CallError, CallFails,
     DeleteJobLost, DiscoverFile, PassOverFile, CreatePVError, CreatePVFails,
     discoverVolumesAtPath, PassOverClass, pvVars
<1>4. CASE Goroutines
  BY <1>4 DEF Goroutines, DeliverPV, Populate, DeliverJob, CleanDone, CleanFailed, MarkCleaned, pvVars
<1>5. CASE Cluster
  BY <1>2, <1>5 DEF Cluster, JobDone, JobGone, pvVars
<1>6. CASE Faults
  BY <1>6 DEF Faults, Restart, RestartInformer, PVWatchBreaks, RelistPVs, JobWatchBreaks,
     AdminDeletesPV, MediaLost, MediaBack, JobFailed, pvVars
<1> QED BY <1>3, <1>4, <1>5, <1>6 DEF Next, vars, pvVars

\* As long as no watch of PVs breaks, their reports end with what there is.
LEMMA PVsArriveStep ==
    ASSUME NoRelist, TypeOK, PVsArrive, [Next]_vars
    PROVE  PVsArrive'
<1> DEFINE All == PV \cup {NoPV, Tombstone}
<1>0. /\ PVTypeOK
      /\ \A v \in Volumes : pvEvents[v] \in Seq(All) /\ apiPV[v] \in PV \cup {NoPV}
  BY DEF TypeOK, PVTypeOK
<1>1. ASSUME NEW v \in Volumes, NEW pv \in PV \cup {NoPV}, WritePV(v, pv), UNCHANGED pvCache
      PROVE  PVsArrive'
  <2>1. /\ \A u \in Volumes \ {v} : apiPV'[u] = apiPV[u] /\ pvEvents'[u] = pvEvents[u]
        /\ apiPV'[v] = pv /\ pvEvents'[v] = Append(pvEvents[v], pv)
        /\ pv \in All
    BY <1>0, <1>1, WrittenPV
  <2>2. Arrives(Append(pvEvents[v], pv), pvCache[v], pv)
    BY <1>0, <2>1, ArrivesWritten
  <2>3. \A u \in Volumes : Arrives(pvEvents'[u], pvCache'[u], apiPV'[u])
    BY <1>1, <2>1, <2>2 DEF PVsArrive
  <2> QED BY <2>3 DEF PVsArrive, Arrives
<1>2. ASSUME NEW v \in Volumes, Populate(v) PROVE PVsArrive'
  <2> DEFINE q == pvEvents[v]
  <2>1. q # <<>> /\ q \in Seq(All) /\ Arrives(q, pvCache[v], apiPV[v])
    BY <1>0, <1>2 DEF Populate, PVsArrive
  <2>2. /\ pvEvents'[v] = Tail(q) /\ apiPV' = apiPV
        /\ \A u \in Volumes \ {v} : pvEvents'[u] = pvEvents[u] /\ pvCache'[u] = pvCache[u]
    BY <1>0, <1>2 DEF Populate, PVTypeOK, handlePVUpdate, handlePVDelete, handleTombstone
  <2>3. pvCache'[v] = Head(q) \/ Head(q) = Tombstone
    BY <1>0, <1>2 DEF Populate, PVTypeOK, handlePVUpdate, handlePVDelete
  <2>4. Arrives(Tail(q), Head(q), apiPV[v]) /\ (Tail(q) # <<>> => Arrives(Tail(q), pvCache'[v], apiPV[v]))
    BY <2>1, ArrivesTaken
  <2>5. Head(q) = Tombstone => Tail(q) # <<>>
    BY <1>0, <2>4, NotPV DEF Arrives
  <2>6. Arrives(pvEvents'[v], pvCache'[v], apiPV'[v])
    BY <2>2, <2>3, <2>4, <2>5
  <2> QED BY <2>2, <2>6 DEF PVsArrive
<1>3. CASE Restart
  <2>1. \A v \in Volumes : /\ apiPV'[v] = apiPV[v] /\ pvCache'[v] = NoPV
                           /\ apiPV[v] # NoPV => pvEvents'[v] = <<apiPV[v]>>
                           /\ apiPV[v] = NoPV => pvEvents'[v] = <<>>
    BY <1>3 DEF Restart, RestartInformer
  <2>2. \A v \in Volumes : Arrives(pvEvents'[v], pvCache'[v], apiPV'[v])
    <3> SUFFICES ASSUME NEW v \in Volumes PROVE Arrives(pvEvents'[v], pvCache'[v], apiPV'[v])
      OBVIOUS
    <3>1. CASE apiPV[v] = NoPV
      <4>1. pvEvents'[v] = <<>> /\ pvCache'[v] = NoPV /\ apiPV'[v] = NoPV
        BY <2>1, <3>1
      <4> QED BY <4>1 DEF Arrives
    <3>2. CASE apiPV[v] # NoPV
      <4>1. pvEvents'[v] = <<apiPV'[v]>>
        BY <2>1, <3>2
      <4> QED BY <4>1, ArrivesListed
    <3> QED BY <3>1, <3>2
  <2> QED BY <2>2 DEF PVsArrive, Arrives
<1>4. ~PVWatchBreaks
  BY DEF NoRelist, PVWatchBreaks, Fault, TypeOK, FaultKinds
<1>5. CASE UNCHANGED <<apiPV, pvEvents, pvCache>>
  BY <1>5 DEF PVsArrive
<1> QED BY <1>1, <1>2, <1>3, <1>4, <1>5, PVWrites

(***************************************************************************)
(* The Populator neither loses nor reorders: when the cache has handled    *)
(* every report it is the API server's list of PVs, across restarts and    *)
(* whoever deletes PVs, as long as no watch breaks (a deletion that is     *)
(* found by a relist never reaches the cache).                             *)
(***************************************************************************)
THEOREM CacheFollows == NoRelist /\ Spec => []CacheCatchesUp
<1>1. Init => PVsArrive
  BY ArrivesListed DEF Init, PVInit, PVsArrive
<1>2. NoRelist /\ TypeOK /\ PVsArrive /\ [Next]_vars => PVsArrive'
  BY PVsArriveStep
<1>3. PVsArrive => CacheCatchesUp
  BY DEF PVsArrive, Arrives, CacheCatchesUp
<1>4. (NoRelist)' <=> NoRelist
  BY DEF NoRelist
<1> QED BY <1>1, <1>2, <1>3, <1>4, TypeCorrect, PTL DEF Spec

-----------------------------------------------------------------------------
(***************************************************************************)
(* The reports on jobs                                                     *)
(***************************************************************************)
\* Every step that changes a job in the server writes that of one volume.
LEMMA JobWrites ==
    ASSUME TypeOK, [Next]_vars
    PROVE  \/ UNCHANGED jobVars \/ Restart \/ JobWatchBreaks \/ \E v \in Volumes : ObserveJob(v)
           \/ \E v \in Volumes, job \in JobStates : WriteJob(v, job)
<1>1. ASSUME NEW v \in Volumes, DeleteJob(v) \/ CreateJob(v)
      PROVE  UNCHANGED jobVars \/ \E job \in JobStates : WriteJob(v, job)
  BY <1>1 DEF DeleteJob, CreateJob, JobStates
<1>2. CASE MainLoop
  BY <1>1, <1>2 DEF MainLoop, StartPass, StartDiscovery, Sleep, ReclaimPV, DeletePVSent,
     DeletePVDone, DeleteJobSent, DeleteJobDone, CreateJobSent, CreateJobDone, CallError, CallFails,
     DeleteJobLost, DiscoverFile, PassOverFile, CreatePVSent, CreatePVError,
     discoverVolumesAtPath, PassOverClass
<1>3. CASE Goroutines
  BY <1>3 DEF Goroutines, DeliverPV, DeliverJob, CleanDone, CleanFailed, MarkCleaned
<1>4. CASE Cluster
  BY <1>4 DEF Cluster, Bind, Release, PatchPolicy, JobDone, JobGone, JobSucceeds, JobCollected,
     AdminDeletesJob, JobStates
<1>5. CASE Faults
  BY <1>5 DEF Faults, PVWatchBreaks, AdminDeletesPV, MediaLost, MediaBack, JobFailed, JobFails,
     JobStates
<1> QED BY <1>2, <1>3, <1>4, <1>5 DEF Next, vars

\* The reports on jobs end with what there is, watch breaks or not.
LEMMA JobsArriveStep ==
    ASSUME TypeOK, JobsArrive, [Next]_vars
    PROVE  JobsArrive'
<1>0. /\ JobTypeOK
      /\ \A v \in Volumes : jobEvents[v] \in Seq(JobStates) /\ apiJob[v] \in JobStates
  BY DEF TypeOK, JobTypeOK
<1> SUFFICES ASSUME NEW u \in Volumes PROVE Arrives(jobEvents'[u], jobLister'[u], apiJob'[u])
  BY DEF JobsArrive, Arrives
<1>1. Arrives(jobEvents[u], jobLister[u], apiJob[u])
  BY DEF JobsArrive
<1>2. ASSUME NEW v \in Volumes, NEW job \in JobStates, WriteJob(v, job)
      PROVE  Arrives(jobEvents'[u], jobLister'[u], apiJob'[u])
  BY <1>0, <1>1, <1>2, WrittenJob
<1>3. ASSUME NEW v \in Volumes, ObserveJob(v)
      PROVE  Arrives(jobEvents'[u], jobLister'[u], apiJob'[u])
  <2>1. CASE u = v
    <3>1. /\ jobEvents[u] # <<>> /\ jobEvents'[u] = Tail(jobEvents[u])
          /\ jobLister'[u] = Head(jobEvents[u]) /\ apiJob' = apiJob
      BY <1>0, <1>3, <2>1 DEF ObserveJob, JobTypeOK
    <3> QED BY <1>0, <1>1, <3>1, ArrivesTaken
  <2>2. CASE u # v
    BY <1>0, <1>1, <1>3, <2>2 DEF ObserveJob, JobTypeOK
  <2> QED BY <2>1, <2>2
<1>4. CASE Restart
  BY <1>4, ArrivesListed DEF Restart, RestartJobInformer
<1>5. CASE JobWatchBreaks
  BY <1>5, ArrivesListed DEF JobWatchBreaks, RelistJobs
<1>6. CASE UNCHANGED jobVars
  BY <1>1, <1>6 DEF jobVars
<1> QED BY <1>2, <1>3, <1>4, <1>5, <1>6, JobWrites

-----------------------------------------------------------------------------
(***************************************************************************)
(* What a step leaves alone                                                *)
(***************************************************************************)
Life == LagInv /\ TableTracksCleaners /\ PVsArrive /\ JobsArrive /\ LifeInv

Same(u) ==
    /\ apiPV'[u] = apiPV[u] /\ apiJob'[u] = apiJob[u]
    /\ procTable'[u] = procTable[u] /\ cleaner'[u] = cleaner[u]
    /\ dirty'[u] = dirty[u] /\ media'[u] = media[u]

SameReports(u) == jobLister'[u] = jobLister[u] /\ jobEvents'[u] = jobEvents[u]

\* The main loop takes up u for nothing but createPV.
LeavesOut(u) ==
    /\ u \in todo' => u \in todo
    /\ u \in cur' => pc' = "CreatePV" \/ (u \in cur /\ pc' = pc)

LEMMA LifeFrame ==
    ASSUME NEW u \in Volumes, LifeOK(u), PassShape', Same(u), LeavesOut(u),
           u \in todo' => SameReports(u)
    PROVE  LifeOK(u)'
<1>1. u \in todo' => u \in todo /\ u \notin cur'
  BY DEF LifeOK, ListedOK, LeavesOut, PassShape
<1>2. Handled(u)' => Handled(u)
  BY <1>1 DEF Handled, LeavesOut
<1>3. ModeOK(u)'
  BY DEF LifeOK, ModeOK, Same, LeavesOut, shouldRunJob
<1>4. ListedOK(u)'
  BY <1>1 DEF LifeOK, ListedOK, Same, SameReports
<1>5. CalledOK(u)'
  BY DEF LifeOK, CalledOK, Same, LeavesOut
<1>6. CleanedOK(u)'
  BY DEF LifeOK, CleanedOK, Same
<1> QED BY <1>2, <1>3, <1>4, <1>5, <1>6 DEF LifeOK, Same

\* The types of what the invariant is about
LEMMA LifeTypes ==
    ASSUME Life
    PROVE  /\ TypeOK /\ PVTypeOK /\ JobTypeOK /\ PassShape
           /\ apiPV \in [Volumes -> PV \cup {NoPV}]
           /\ apiJob \in [Volumes -> JobStates] /\ jobLister \in [Volumes -> JobStates]
           /\ procTable \in [Volumes -> CleanupStates]
           /\ cleaner \in [Volumes -> {"idle", "cleaning", "succeeded", "failed"}]
           /\ dirty \in [Volumes -> BOOLEAN]
           /\ todo \subseteq Volumes /\ cur \subseteq Volumes
           /\ \A v \in Volumes : /\ LifeOK(v)
                                 /\ cleaner[v] # "idle" <=> procTable[v] = "CSRunning"
BY DEF Life, LagInv, LagParts, TypeOK, PVTypeOK, JobTypeOK, ProcTypeOK, DeleterTypeOK, DiskTypeOK,
   LifeInv, TableTracksCleaners, IsRunning

-----------------------------------------------------------------------------
(***************************************************************************)
(* The main loop                                                           *)
(***************************************************************************)
LEMMA LifeStartPass ==
    ASSUME Prompt, Life, StartPass, PassShape'
    PROVE  LifeInv'
<1>0. pc = "sleep" /\ pc' = "delete" /\ cur = {} /\ cur' = {} /\ Settled
  BY LifeTypes DEF StartPass, ListPVs, Prompt, PassShape
<1> SUFFICES ASSUME NEW u \in Volumes PROVE LifeOK(u)'
  BY DEF LifeInv
<1>1. Same(u) /\ SameReports(u)
  BY DEF StartPass, ListPVs, Same, SameReports, pvVars, jobVars, diskVars
<1>2. pvCache[u] = apiPV[u] /\ jobLister[u] = apiJob[u] /\ apiJob[u] # "terminating"
  BY <1>0 DEF Settled, Life, PVsArrive, JobsArrive, Arrives
<1>3. u \in todo' => apiPV[u] = ToDelete
  <2>1. todo' = {v \in Volumes : Reclaimable(pvCache[v])}
    BY DEF StartPass, ListPVs
  <2>2. Reclaimable(pvCache[u]) => pvCache[u] = ToDelete
    BY <1>2, LifeTypes DEF Reclaimable, ToDelete, PV, NoPV
  <2> QED BY <1>2, <2>1, <2>2
<1>4. LifeOK(u)
  BY LifeTypes
<1>5. ListedOK(u)'
  <2>1. Succeeded(apiJob[u]) => apiJob[u] = "succeeded"
    BY <1>2 DEF Succeeded
  <2>2. jobEvents[u] = <<>>
    BY <1>0 DEF Settled
  <2>3. Len(jobEvents'[u]) = 0
    BY <1>1, <2>2, Short DEF SameReports
  <2> QED BY <1>0, <1>1, <1>2, <2>1, <2>3 DEF ListedOK, Same, SameReports, Succeeded
<1> QED BY <1>0, <1>1, <1>3, <1>4, <1>5
    DEF LifeOK, Handled, ModeOK, CalledOK, CleanedOK, Same, shouldRunJob

\* Steps of the main loop that neither list nor write
LEMMA LifeLoop ==
    ASSUME Life, PassShape', UNCHANGED <<apiPV, jobVars, cleaner, procTable, dirty, media>>,
           \A u \in Volumes : LeavesOut(u)
    PROVE  LifeInv'
BY LifeFrame DEF Life, LifeInv, Same, SameReports, jobVars

LEMMA LifeReclaim ==
    ASSUME Life, PassShape', NEW v \in Volumes, ReclaimPV(v)
    PROVE  LifeInv'
<1>0. /\ pc = "delete" /\ v \in todo /\ todo' = todo \ {v} /\ cur = {} /\ apiPV[v] = ToDelete
      /\ LifeOK(v)
      /\ UNCHANGED <<apiPV, jobVars, dirty, media>>
      /\ pc' \in {"delete", "DeletePV", "DeleteJob", "CreateJob"}
  BY LifeTypes DEF ReclaimPV, deletePV, PassShape, LifeOK, Handled, pvVars, diskVars, SkipPV,
     TakeSuccess, runProcess, RemoveJob, runJob, Call
<1>1. ASSUME NEW u \in Volumes, u # v PROVE LifeOK(u)'
  <2>1. cur' \subseteq {v} /\ procTable'[u] = procTable[u] /\ cleaner'[u] = cleaner[u]
    BY <1>0, <1>1, LifeTypes DEF ReclaimPV, deletePV, SkipPV, TakeSuccess, runProcess, RemoveJob,
       runJob, Call, RemoveEntry, MarkRunning
  <2>2. Same(u) /\ SameReports(u) /\ LeavesOut(u)
    BY <1>0, <1>1, <2>1 DEF Same, SameReports, LeavesOut, jobVars
  <2> QED BY <2>2, LifeTypes, LifeFrame
<1>2. LifeOK(v)'
  <2>0. /\ apiPV'[v] = ToDelete /\ apiJob' = apiJob /\ dirty' = dirty /\ media' = media
        /\ v \notin todo' /\ ToDelete.phase = "Released" /\ ToDelete # NoPV
    BY <1>0, NotPV DEF jobVars, ToDelete
  <2>1. CASE SkipPV(v)
    <3>1. Same(v) /\ SameReports(v) /\ LeavesOut(v)
      BY <1>0, <2>1 DEF SkipPV, Same, SameReports, LeavesOut, jobVars
    <3> QED BY <1>0, <3>1, LifeFrame
  <2>2. CASE TakeSuccess(v)
    <3>1. /\ pc' = "DeletePV" /\ cur' = {v} /\ procTable'[v] = "CSNotFound" /\ cleaner' = cleaner
          /\ procTable[v] = "CSSucceeded" /\ ~shouldRunJob(v)
      BY <2>2, LifeTypes DEF TakeSuccess, Call, RemoveEntry
    <3> QED BY <1>0, <2>0, <3>1
        DEF LifeOK, ModeOK, ListedOK, CalledOK, CleanedOK, shouldRunJob
  <2>3. CASE runProcess(v)
    <3>1. /\ pc' = pc /\ cur' = cur /\ procTable'[v] = "CSRunning" /\ cleaner'[v] = "cleaning"
          /\ ~shouldRunJob(v)
      BY <2>3, LifeTypes DEF runProcess, RemoveEntry, MarkRunning
    <3> QED BY <1>0, <2>0, <3>1
        DEF LifeOK, ModeOK, ListedOK, CalledOK, CleanedOK, shouldRunJob
  <2>4. CASE RemoveJob(v)
    <3>1. /\ pc' = "DeleteJob" /\ cur' = {v} /\ procTable' = procTable /\ cleaner' = cleaner
          /\ Succeeded(jobLister[v]) /\ shouldRunJob(v)
      BY <2>4 DEF RemoveJob, Call
    <3>2. apiJob[v] = "succeeded"
      BY <1>0, <3>1 DEF LifeOK, ListedOK
    <3> QED BY <1>0, <2>0, <3>1, <3>2
        DEF LifeOK, ModeOK, ListedOK, CalledOK, CleanedOK, shouldRunJob
  <2>5. CASE runJob(v)
    <3>1. /\ pc' = "CreateJob" /\ cur' = {v} /\ procTable' = procTable /\ cleaner' = cleaner
          /\ shouldRunJob(v)
      BY <2>5 DEF runJob, Call
    <3> QED BY <1>0, <2>0, <3>1
        DEF LifeOK, ModeOK, ListedOK, CalledOK, CleanedOK, shouldRunJob
  <2> QED BY <2>1, <2>2, <2>3, <2>4, <2>5 DEF ReclaimPV, deletePV
<1> QED BY <1>1, <1>2 DEF LifeInv

LEMMA LifeDeletePV ==
    ASSUME Life, PassShape', NEW v \in Volumes, DeletePVSent(v)
    PROVE  LifeInv'
<1>0. /\ pc = "DeletePV" /\ v \in cur /\ pc' = "delete" /\ cur' = {} /\ todo' = todo
      /\ WritePV(v, NoPV) /\ LifeOK(v)
      /\ UNCHANGED <<jobVars, dirty, media, cleaner, procTable>>
  BY LifeTypes DEF DeletePVSent, DeletePVDone, Return, diskVars
<1>1. /\ \A u \in Volumes \ {v} : apiPV'[u] = apiPV[u]
      /\ apiPV'[v] = NoPV
  BY <1>0, LifeTypes, WrittenPV
<1>2. ASSUME NEW u \in Volumes, u # v PROVE LifeOK(u)'
  BY <1>0, <1>1, <1>2, LifeTypes, LifeFrame DEF Same, SameReports, LeavesOut, jobVars
<1>3. v \notin todo' /\ ~Handled(v)'
  BY <1>0 DEF LifeOK, ListedOK, Handled
<1>4. LifeOK(v)'
  BY <1>0, <1>1, <1>3
  DEF LifeOK, ModeOK, ListedOK, CalledOK, CleanedOK, shouldRunJob, jobVars
<1> QED BY <1>2, <1>4 DEF LifeInv

\* The job's deletion is asked for, whether the answer arrives or not.
LEMMA LifeDeleteJob ==
    ASSUME Life, PassShape', NEW v \in Volumes,
           DeleteJobSent(v) \/ (DeleteJobLost(v) /\ UNCHANGED <<diskVars, discoverVars, faults>>)
    PROVE  LifeInv'
<1>0. /\ pc = "DeleteJob" /\ v \in cur /\ DeleteJob(v) /\ todo' = todo
      /\ pc' \in {"DeletePV", "delete"} /\ cur' \subseteq {v}
      /\ apiPV' = apiPV /\ LifeOK(v)
      /\ UNCHANGED <<dirty, media, cleaner, procTable>>
  BY LifeTypes DEF DeleteJobSent, DeleteJobDone, DeleteJobLost, Return, Call, diskVars, pvVars
<1>1. apiJob[v] = "succeeded" /\ ~dirty[v] /\ procTable[v] = "CSNotFound" /\ v \notin todo
  BY <1>0 DEF LifeOK, CalledOK, ModeOK, CleanedOK, ListedOK
<1>2. WriteJob(v, "terminating")
  BY <1>0, <1>1 DEF DeleteJob, Succeeded
<1>3. /\ \A u \in Volumes \ {v} : apiJob'[u] = apiJob[u] /\ jobEvents'[u] = jobEvents[u]
      /\ jobLister' = jobLister /\ apiJob'[v] = "terminating"
  BY <1>2, LifeTypes, WrittenJob DEF JobStates
<1>4. ASSUME NEW u \in Volumes, u # v PROVE LifeOK(u)'
  BY <1>0, <1>3, <1>4, LifeTypes, LifeFrame DEF Same, SameReports, LeavesOut
<1>5. LifeOK(v)'
  <2>1. Handled(v) /\ shouldRunJob(v)
    BY <1>0 DEF Handled, LifeOK, ModeOK
  <2> QED BY <1>0, <1>1, <1>3, <2>1
      DEF LifeOK, ModeOK, ListedOK, CalledOK, CleanedOK, shouldRunJob
<1> QED BY <1>4, <1>5 DEF LifeInv

LEMMA LifeCreateJob ==
    ASSUME Life, PassShape', NEW v \in Volumes, CreateJobSent(v)
    PROVE  LifeInv'
<1>0. /\ pc = "CreateJob" /\ v \in cur /\ WriteJob(v, "running") /\ todo' = todo
      /\ pc' = "delete" /\ cur' = {} /\ apiPV' = apiPV /\ LifeOK(v)
      /\ UNCHANGED <<dirty, media, cleaner, procTable>>
  BY LifeTypes DEF CreateJobSent, CreateJobDone, CreateJob, Return, diskVars, pvVars
<1>1. apiPV[v] = ToDelete /\ shouldRunJob(v) /\ v \notin todo
  BY <1>0 DEF LifeOK, Handled, ModeOK, ListedOK
<1>2. /\ \A u \in Volumes \ {v} : apiJob'[u] = apiJob[u] /\ jobEvents'[u] = jobEvents[u]
      /\ jobLister' = jobLister /\ apiJob'[v] = "running"
  BY <1>0, LifeTypes, WrittenJob DEF JobStates
<1>3. ASSUME NEW u \in Volumes, u # v PROVE LifeOK(u)'
  BY <1>0, <1>2, <1>3, LifeTypes, LifeFrame DEF Same, SameReports, LeavesOut
<1>4. LifeOK(v)'
  BY <1>0, <1>1, <1>2
  DEF LifeOK, ModeOK, ListedOK, CalledOK, CleanedOK, shouldRunJob
<1> QED BY <1>3, <1>4 DEF LifeInv

LEMMA LifeCreatePV ==
    ASSUME Life, PassShape', NEW v \in Volumes, CreatePVSent(v)
    PROVE  LifeInv'
<1>0. /\ apiPV[v] = NoPV /\ WritePV(v, NewPV(v)) /\ pc' = "discover" /\ cur' = {}
      /\ LifeOK(v) /\ todo' = todo
      /\ UNCHANGED <<jobVars, dirty, media, cleaner, procTable>>
  BY LifeTypes DEF CreatePVSent, CreatePVDone, diskVars
<1>1. /\ \A u \in Volumes \ {v} : apiPV'[u] = apiPV[u]
      /\ apiPV'[v] = NewPV(v)
  BY <1>0, LifeTypes, WrittenPV
<1>2. ASSUME NEW u \in Volumes, u # v PROVE LifeOK(u)'
  BY <1>0, <1>1, <1>2, LifeTypes, LifeFrame DEF Same, SameReports, LeavesOut, jobVars
<1>3. todo' = {} /\ ~Handled(v)'
  BY <1>0 DEF PassShape, Handled
<1>4. LifeOK(v)'
  <2>1. ~dirty[v] /\ procTable[v] = "CSNotFound" /\ apiJob[v] \notin {"running", "failed", "succeeded"}
    BY <1>0, NotPV DEF LifeOK, CleanedOK
  <2> QED BY <1>0, <1>3, <2>1
      DEF LifeOK, ModeOK, ListedOK, CalledOK, CleanedOK, shouldRunJob, jobVars
<1> QED BY <1>2, <1>4 DEF LifeInv

LEMMA LifeMainLoop ==
    ASSUME Prompt, Life, PassShape', MainLoop
    PROVE  LifeInv'
<1>1. CASE StartDiscovery \/ Sleep
  BY <1>1, LifeLoop DEF StartDiscovery, EndDeletePVs, Sleep, EndDiscover, LeavesOut, pvVars, diskVars,
     Life, LagInv, LagParts, PassShape
<1>2. ASSUME NEW c \in Classes, discoverVolumesAtPath(c) \/ PassOverClass(c) PROVE LifeInv'
  BY <1>2, LifeLoop DEF discoverVolumesAtPath, PassOverClass, LeavesOut, pvVars, diskVars, loopVars
<1>3. ASSUME NEW v \in Volumes, DiscoverFile(v) \/ PassOverFile(v) \/ CreatePVError(v)
      PROVE  LifeInv'
  BY <1>3, LifeLoop DEF DiscoverFile, VisitFile, Call, PassOverFile, SkipFile, CreatePVError,
     CreatePVFails, LeavesOut, pvVars, diskVars
<1>4. ASSUME NEW v \in Volumes, CallError(v) PROVE LifeInv'
  <2>1. ASSUME NEW call, CallFails(call, v) PROVE LifeInv'
    BY <1>4, <2>1, LifeLoop DEF CallError, CallFails, Return, LeavesOut, pvVars, diskVars
  <2> QED BY <1>4, <2>1, LifeDeleteJob DEF CallError
<1> QED BY <1>1, <1>2, <1>3, <1>4, LifeStartPass, LifeReclaim, LifeDeletePV, LifeDeleteJob,
           LifeCreateJob, LifeCreatePV DEF MainLoop

-----------------------------------------------------------------------------
(***************************************************************************)
(* The informers and the goroutines                                        *)
(***************************************************************************)
LEMMA LifeDeliverJob ==
    ASSUME Life, PassShape', NEW v \in Volumes, DeliverJob(v)
    PROVE  LifeInv'
<1>0. /\ UNCHANGED <<pvVars, diskVars, loopVars, apiJob>>
      /\ jobEvents[v] # <<>> /\ jobEvents[v] \in Seq(JobStates)
      /\ jobLister'[v] = Head(jobEvents[v]) /\ jobEvents'[v] = Tail(jobEvents[v])
      /\ \A u \in Volumes \ {v} : jobLister'[u] = jobLister[u] /\ jobEvents'[u] = jobEvents[u]
      /\ LifeOK(v)
  BY LifeTypes DEF DeliverJob, ObserveJob, JobTypeOK
<1>1. ASSUME NEW u \in Volumes, u # v PROVE LifeOK(u)'
  BY <1>0, <1>1, LifeTypes, LifeFrame DEF Same, SameReports, LeavesOut, pvVars, diskVars, loopVars
<1>2. ListedOK(v)'
  <2>1. /\ Head(jobEvents[v]) = jobEvents[v][1] /\ 1 \in 1..Len(jobEvents[v])
        /\ \A i \in 1..Len(jobEvents'[v]) :
             i + 1 \in 1..Len(jobEvents[v]) /\ jobEvents'[v][i] = jobEvents[v][i + 1]
    BY <1>0, ArrivesTaken DEF Life, JobsArrive
  <2>2. v \in todo =>
          /\ v \notin cur /\ apiJob[v] # "terminating"
          /\ \A i \in 1..Len(jobEvents[v]) : Succeeded(jobEvents[v][i]) => apiJob[v] = "succeeded"
    BY <1>0 DEF LifeOK, ListedOK
  <2>3. v \in todo => /\ Succeeded(jobLister'[v]) => apiJob[v] = "succeeded"
                      /\ \A i \in 1..Len(jobEvents'[v]) :
                           Succeeded(jobEvents'[v][i]) => apiJob[v] = "succeeded"
    BY <1>0, <2>1, <2>2
  <2> QED BY <1>0, <2>2, <2>3 DEF ListedOK, Succeeded, loopVars
<1>3. LifeOK(v)'
  BY <1>0, <1>2 DEF LifeOK, Handled, ModeOK, CalledOK, CleanedOK, shouldRunJob, pvVars, diskVars,
     loopVars
<1> QED BY <1>1, <1>3 DEF LifeInv

LEMMA LifeCleaner ==
    ASSUME Life, PassShape', NEW v \in Volumes, CleanDone(v) \/ CleanFailed(v) \/ MarkCleaned(v)
    PROVE  LifeInv'
<1>0. /\ UNCHANGED <<pvVars, jobVars, media, pc, todo, cur>>
      /\ LifeOK(v) /\ procTable[v] = "CSRunning"
      /\ \A u \in Volumes \ {v} : /\ procTable'[u] = procTable[u] /\ cleaner'[u] = cleaner[u]
                                  /\ dirty'[u] = dirty[u]
  BY LifeTypes DEF CleanDone, CleanFailed, MarkCleaned, cleanPVSucceeds, cleanPVFails, MarkDone,
     markStatus, Erased
<1>1. ASSUME NEW u \in Volumes, u # v PROVE LifeOK(u)'
  BY <1>0, <1>1, LifeTypes, LifeFrame DEF Same, SameReports, LeavesOut, pvVars, jobVars
<1>2. /\ apiPV[v] = ToDelete /\ ~shouldRunJob(v) /\ media[v] = "mounted"
      /\ ToDelete.phase = "Released" /\ ToDelete # NoPV
  BY <1>0, NotPV DEF LifeOK, ModeOK, CleanedOK, ToDelete
<1>3. /\ procTable'[v] = "CSSucceeded" \/ cleaner'[v] = "succeeded" => ~dirty'[v]
      /\ dirty'[v] => dirty[v]
  <2>1. CASE CleanDone(v)
    BY <1>0, <1>2, <2>1, LifeTypes DEF CleanDone, cleanPVSucceeds, Erased
  <2>2. CASE CleanFailed(v)
    BY <1>0, <2>2, LifeTypes DEF CleanFailed, cleanPVFails
  <2>3. CASE MarkCleaned(v)
    BY <1>0, <2>3, LifeTypes DEF MarkCleaned, MarkDone, markStatus, LifeOK, CleanedOK
  <2> QED BY <2>1, <2>2, <2>3
<1>4. LifeOK(v)'
  BY <1>0, <1>2, <1>3
  DEF LifeOK, Handled, ModeOK, ListedOK, CalledOK, CleanedOK, shouldRunJob, Succeeded, pvVars,
      jobVars
<1> QED BY <1>1, <1>4 DEF LifeInv

LEMMA LifeGoroutines == ASSUME Life, PassShape', Goroutines PROVE LifeInv'
<1>1. ASSUME NEW v \in Volumes, DeliverPV(v) PROVE LifeInv'
  BY <1>1, LifeLoop DEF DeliverPV, Populate, LeavesOut, loopVars, diskVars
<1> QED BY <1>1, LifeDeliverJob, LifeCleaner DEF Goroutines

-----------------------------------------------------------------------------
(***************************************************************************)
(* The cluster                                                             *)
(***************************************************************************)
\* A PV in use has nothing to do with deletePV, its tables and its jobs.
LEMMA LifeUsed ==
    ASSUME Life, NEW v \in Volumes, Claimable(apiPV[v])
    PROVE  /\ apiPV[v] \in PV /\ apiPV[v] # ToDelete /\ ~Handled(v)
           /\ procTable[v] = "CSNotFound" /\ cleaner[v] = "idle"
           /\ apiJob[v] \in {"none", "terminating"}
<1>1. apiPV[v] # ToDelete /\ apiPV[v] \in PV /\ LifeOK(v)
  BY LifeTypes DEF Claimable, ToDelete, NoPV
<1> QED BY <1>1, LifeTypes DEF LifeOK, CleanedOK, JobStates

LEMMA LifeWriteUsed ==
    ASSUME Life, PassShape', NEW v \in Volumes, Bind(v) \/ Release(v) \/ PatchPolicy(v)
    PROVE  LifeInv'
<1>0. /\ UNCHANGED <<jobVars, media, pc, todo, cur, cleaner, procTable>>
      /\ Claimable(apiPV[v]) /\ LifeOK(v)
      /\ \E pv : WritePV(v, pv)
  BY LifeTypes DEF Bind, Release, PatchPolicy, SetPhase, SetPolicy, Claimable, diskVars, loopVars
<1>1. \A u \in Volumes \ {v} : apiPV'[u] = apiPV[u] /\ dirty'[u] = dirty[u]
  BY <1>0, LifeTypes, WrittenPV DEF Bind, Release, PatchPolicy, Written, diskVars
<1>2. ASSUME NEW u \in Volumes, u # v PROVE LifeOK(u)'
  BY <1>0, <1>1, <1>2, LifeTypes, LifeFrame DEF Same, SameReports, LeavesOut, jobVars
<1>3. apiPV'[v].phase = "Available" \/ apiPV'[v] = NoPV => ~dirty'[v]
  <2>1. CASE Bind(v) \/ Release(v)
    BY <2>1, LifeTypes, WrittenPV DEF Bind, Release, SetPhase, NoPV
  <2>2. CASE PatchPolicy(v)
    <3>1. PICK p \in PatchTo : WritePV(v, [phase |-> apiPV[v].phase, policy |-> p])
      BY <2>2 DEF PatchPolicy, SetPolicy
    <3>2. apiPV'[v] = [phase |-> apiPV[v].phase, policy |-> p]
      BY <3>1, LifeTypes, WrittenPV
    <3> QED BY <1>0, <2>2, <3>2 DEF PatchPolicy, LifeOK, CleanedOK, Claimable, NoPV, diskVars
  <2> QED BY <1>0, <2>1, <2>2
<1>4. LifeOK(v)'
  BY <1>0, <1>3, LifeUsed
  DEF LifeOK, Handled, ModeOK, ListedOK, CalledOK, CleanedOK, shouldRunJob, jobVars
<1> QED BY <1>2, <1>4 DEF LifeInv

\* A job goes on: it succeeds, having erased the disk, fails, or is removed.
LEMMA LifeJob ==
    ASSUME Life, PassShape', NEW v \in Volumes, NEW job \in {"none", "failed", "succeeded"},
           WriteJob(v, job),
           \/ apiJob[v] = "running" /\ job \in {"succeeded", "failed"}
           \/ apiJob[v] \in {"terminating", "failed"} /\ job = "none",
           UNCHANGED <<apiPV, media, loopVars>>,
           \A u \in Volumes \ {v} : dirty'[u] = dirty[u],
           dirty'[v] => dirty[v], job = "succeeded" => ~dirty'[v]
    PROVE  LifeInv'
<1>0. /\ \A u \in Volumes \ {v} : apiJob'[u] = apiJob[u] /\ jobEvents'[u] = jobEvents[u]
      /\ jobLister' = jobLister /\ apiJob'[v] = job
      /\ \A i \in 1..Len(jobEvents'[v]) :
                \/ jobEvents'[v][i] = job
                \/ i \in 1..Len(jobEvents[v]) /\ jobEvents'[v][i] = jobEvents[v][i]
      /\ LifeOK(v)
  BY LifeTypes, WrittenJob DEF JobStates
<1>1. ASSUME NEW u \in Volumes, u # v PROVE LifeOK(u)'
  BY <1>0, <1>1, LifeTypes, LifeFrame DEF Same, SameReports, LeavesOut, loopVars
<1>2. ListedOK(v)'
  BY <1>0 DEF LifeOK, ListedOK, Succeeded, loopVars
<1>3. ModeOK(v)' /\ CalledOK(v)' /\ CleanedOK(v)'
  BY <1>0 DEF LifeOK, ModeOK, CalledOK, CleanedOK, shouldRunJob, loopVars
<1>4. LifeOK(v)'
  BY <1>0, <1>2, <1>3 DEF LifeOK, Handled, loopVars
<1> QED BY <1>1, <1>4 DEF LifeInv

LEMMA LifeCluster == ASSUME Life, PassShape', Cluster PROVE LifeInv'
<1>1. ASSUME NEW v \in Volumes, JobDone(v) PROVE LifeInv'
  BY <1>1, LifeJob, LifeTypes DEF JobDone, JobSucceeds, Erased, pvVars
<1>2. ASSUME NEW v \in Volumes, JobGone(v) PROVE LifeInv'
  BY <1>2, LifeJob DEF JobGone, JobCollected, AdminDeletesJob, pvVars, diskVars
<1> QED BY <1>1, <1>2, LifeWriteUsed DEF Cluster

-----------------------------------------------------------------------------
LEMMA LifeFaults == ASSUME Prompt, Life, PassShape', Faults PROVE LifeInv'
<1>1. CASE Restart
  <2> SUFFICES ASSUME NEW v \in Volumes PROVE LifeOK(v)'
    BY DEF LifeInv
  <2>1. /\ pc' = "sleep" /\ todo' = {} /\ cur' = {}
        /\ procTable'[v] = "CSNotFound" /\ cleaner'[v] = "idle"
        /\ UNCHANGED <<apiPV, apiJob, diskVars>>
    BY <1>1 DEF Restart, RestartDeleter, RestartInformer, RestartJobInformer
  <2> QED BY <2>1, LifeTypes
      DEF LifeOK, Handled, ModeOK, ListedOK, CalledOK, CleanedOK, shouldRunJob, diskVars
<1>2. CASE JobWatchBreaks
  <2> SUFFICES ASSUME NEW v \in Volumes PROVE LifeOK(v)'
    BY DEF LifeInv
  <2>1. /\ UNCHANGED <<pvVars, diskVars, loopVars, apiJob, jobLister>>
        /\ jobEvents'[v] = <<apiJob[v]>>
        /\ LifeOK(v)
    BY <1>2, LifeTypes DEF JobWatchBreaks, RelistJobs
  <2>2. \A i \in 1..Len(jobEvents'[v]) : jobEvents'[v][i] = apiJob[v]
    BY <2>1
  <2> QED BY <2>1, <2>2
      DEF LifeOK, Handled, ModeOK, ListedOK, CalledOK, CleanedOK, shouldRunJob, Succeeded, pvVars,
          diskVars, loopVars
<1>3. ASSUME NEW v \in Volumes, JobFailed(v) PROVE LifeInv'
  BY <1>3, LifeJob DEF JobFailed, JobFails, pvVars, diskVars
<1>4. ~PVWatchBreaks /\ \A v \in Volumes : ~AdminDeletesPV(v) /\ ~MediaLost(v)
  BY LifeTypes
  DEF Prompt, NoRelist, NoAdmin, PVWatchBreaks, AdminDeletesPV, MediaLost, Fault, TypeOK, FaultKinds
<1>5. \A v \in Volumes : ~MediaBack(v)
  BY LifeTypes DEF MediaBack, Remount, LifeOK
<1> QED BY <1>1, <1>2, <1>3, <1>4, <1>5 DEF Faults

LEMMA LifeStep == ASSUME Prompt, Life, PassShape', [Next]_vars PROVE LifeInv'
<1>1. CASE UNCHANGED vars
  BY <1>1, LifeLoop DEF vars, pvVars, loopVars, diskVars, LeavesOut
<1> QED BY <1>1, LifeMainLoop, LifeGoroutines, LifeCluster, LifeFaults DEF Next

LEMMA LifeInit == Init => PVsArrive /\ JobsArrive /\ LifeInv
<1> SUFFICES ASSUME Init PROVE PVsArrive /\ JobsArrive /\ LifeInv
  OBVIOUS
<1>1. PVsArrive /\ JobsArrive
  BY DEF Init, PVInit, JobInit, PVsArrive, JobsArrive, Arrives
<1>2. LifeInv
  BY DEF Init, PVInit, JobInit, DiskInit, NewProcTable, DeleterInit, LifeInv, LifeOK, Handled, ModeOK,
     ListedOK, CalledOK, CleanedOK
<1> QED BY <1>1, <1>2

LEMMA LifeAlways == Prompt /\ Spec => []Life
<1>1. Prompt /\ LagInv /\ LagInv' /\ TableTracksCleaners /\ PVsArrive /\ JobsArrive /\ LifeInv
        /\ [Next]_vars => PVsArrive' /\ JobsArrive' /\ LifeInv'
  <2> SUFFICES ASSUME Prompt, LagInv, LagInv', TableTracksCleaners, PVsArrive, JobsArrive, LifeInv,
                      [Next]_vars
               PROVE  PVsArrive' /\ JobsArrive' /\ LifeInv'
    OBVIOUS
  <2>1. TypeOK /\ PassShape' /\ NoRelist /\ Life
    BY DEF LagInv, LagParts, Prompt, Life
  <2> QED BY <2>1, PVsArriveStep, JobsArriveStep, LifeStep
<1>2. Prompt => NoAdmin
  BY DEF Prompt
<1>3. (Prompt)' <=> Prompt
  BY DEF Prompt, NoAdmin, NoRelist
<1>4. Life <=> LagInv /\ TableTracksCleaners /\ PVsArrive /\ JobsArrive /\ LifeInv
  BY DEF Life
<1> QED BY <1>1, <1>2, <1>3, <1>4, LifeInit, LagAlways, TableIsRight, PTL DEF Spec

-----------------------------------------------------------------------------
(***************************************************************************)
(* A PV that can be claimed holds no data of a former claim, through       *)
(* restarts, lost watches of jobs, failed calls and failed cleanups, with  *)
(* cleaning by process and by jobs (AvailableIsClean).                     *)
(***************************************************************************)
THEOREM AvailableClean == Prompt /\ Spec => []AvailableIsClean
<1>1. Life => AvailableIsClean
  BY LifeTypes DEF LifeOK, CleanedOK, AvailableIsClean
<1> QED BY <1>1, LifeAlways, PTL

(***************************************************************************)
(* The success that makes deletePV delete a PV is one of this life of the  *)
(* PV, never what an earlier life left in the table or in the job lister   *)
(* (DeletedAfterCleanup).                                                  *)
(***************************************************************************)
THEOREM DeletedClean == Prompt /\ Spec => []DeletedAfterCleanup
<1>1. Life => DeletedAfterCleanup
  BY LifeTypes DEF LifeOK, CalledOK, DeletedAfterCleanup
<1> QED BY <1>1, LifeAlways, PTL

(***************************************************************************)
(* With prompt reports jobs, too, clean only volumes whose PV is released  *)
(* for deletion or gone (CleansOnlyReleased).                              *)
(***************************************************************************)
THEOREM JobCleaningSafe == Prompt /\ Spec => []CleansOnlyReleased
<1>1. Life => CleansOnlyReleased
  BY LifeTypes DEF LifeOK, CleanedOK, CleansOnlyReleased, BeingCleaned, Disposable, ToDelete
<1> QED BY <1>1, LifeAlways, PTL

-----------------------------------------------------------------------------
(***************************************************************************)
(* The steps of the provisioner as steps of VolumeLifecycle                *)
(***************************************************************************)
Soiled == {v \in Volumes : dirty[v]}

Stutters == UNCHANGED <<apiPV, Soiled>>

\* What a volume's data are set to
LEMMA SoiledSet ==
    ASSUME Life, NEW v \in Volumes
    PROVE  /\ dirty' = Erased(v) => Soiled' = Soiled \ {v}
           /\ dirty' = Written(v) => Soiled' = Soiled \cup {v}
           /\ dirty' = dirty => Soiled' = Soiled
           /\ v \in Soiled <=> dirty[v]
<1>1. media[v] = "mounted"
  BY LifeTypes DEF LifeOK
<1> QED BY <1>1, LifeTypes DEF Soiled, Erased, Written

\* Whatever cleans v erases a volume that is to be erased.
LEMMA StepErase ==
    ASSUME Life, NEW v \in Volumes, CleanDone(v) \/ JobDone(v)
    PROVE  Lifecycle!Erase(v)
<1>1. apiPV[v] = ToDelete
  BY LifeTypes DEF CleanDone, cleanPVSucceeds, JobDone, JobSucceeds, LifeOK, CleanedOK
<1>2. dirty' = Erased(v) /\ apiPV' = apiPV
  BY DEF CleanDone, cleanPVSucceeds, JobDone, pvVars
<1> QED BY <1>1, <1>2, SoiledSet
    DEF Lifecycle!Erase, Lifecycle!Reclaimable, Lifecycle!AsPV, ToDelete, Soiled

LEMMA StepPublish ==
    ASSUME Life, NEW v \in Volumes, CreatePVSent(v)
    PROVE  Lifecycle!Publish(v)
<1>1. apiPV[v] = NoPV /\ apiPV' = [apiPV EXCEPT ![v] = NewPV(v)] /\ dirty' = dirty
  BY DEF CreatePVSent, CreatePVDone, WritePV, diskVars
<1>2. v \notin Soiled
  BY <1>1, LifeTypes, SoiledSet DEF LifeOK, CleanedOK
<1>3. NewPV(v) = Lifecycle!AsPV("Available", ClassPolicy[ClassOf[v]])
  BY DEF NewPV, Lifecycle!AsPV
<1>4. ClassPolicy[ClassOf[v]] \in Policies
  BY ConfigAssumption
<1> QED BY <1>1, <1>2, <1>3, <1>4, SoiledSet DEF Lifecycle!Publish, Soiled

LEMMA StepWithdraw ==
    ASSUME Life, NEW v \in Volumes, DeletePVSent(v)
    PROVE  Lifecycle!Withdraw(v)
<1>1. /\ pc = "DeletePV" /\ v \in cur /\ apiPV' = [apiPV EXCEPT ![v] = NoPV] /\ dirty' = dirty
  BY DEF DeletePVSent, DeletePVDone, Return, WritePV, diskVars
<1>2. apiPV[v] = ToDelete /\ v \notin Soiled
  BY <1>1, LifeTypes, SoiledSet DEF LifeOK, CalledOK, Handled
<1> QED BY <1>1, <1>2, SoiledSet
    DEF Lifecycle!Withdraw, Lifecycle!Reclaimable, Lifecycle!AsPV, ToDelete, Soiled

LEMMA StepUsed ==
    ASSUME Life, NEW v \in Volumes, Bind(v) \/ Release(v) \/ PatchPolicy(v)
    PROVE  Lifecycle!Claim(v) \/ Lifecycle!Release(v) \/ Lifecycle!SetPolicy(v)
<1>0. apiPV[v] \in PV
  <2>1. Claimable(apiPV[v])
    BY DEF Bind, Release, PatchPolicy, SetPhase, SetPolicy, Claimable
  <2> QED BY <2>1, LifeUsed
<1>1. CASE Bind(v)
  <2>1. /\ apiPV[v].phase = "Available" /\ dirty' = Written(v)
        /\ apiPV' = [apiPV EXCEPT ![v] = [phase |-> "Bound", policy |-> apiPV[v].policy]]
    BY <1>1 DEF Bind, SetPhase, WritePV
  <2>2. [apiPV[v] EXCEPT !.phase = "Bound"] = [phase |-> "Bound", policy |-> apiPV[v].policy]
    BY <1>0 DEF PV
  <2> QED BY <2>1, <2>2, SoiledSet DEF Lifecycle!Claim, Soiled
<1>2. CASE Release(v)
  <2>1. /\ apiPV[v].phase = "Bound" /\ dirty' = dirty
        /\ apiPV' = [apiPV EXCEPT ![v] = [phase |-> "Released", policy |-> apiPV[v].policy]]
    BY <1>2 DEF Release, SetPhase, WritePV, diskVars
  <2>2. [apiPV[v] EXCEPT !.phase = "Released"] = [phase |-> "Released", policy |-> apiPV[v].policy]
    BY <1>0 DEF PV
  <2> QED BY <2>1, <2>2, SoiledSet DEF Lifecycle!Release, Soiled
<1>3. CASE PatchPolicy(v)
  <2>1. PICK p \in PatchTo :
          /\ apiPV[v].phase \in {"Available", "Bound"} /\ dirty' = dirty
          /\ apiPV' = [apiPV EXCEPT ![v] = [phase |-> apiPV[v].phase, policy |-> p]]
    BY <1>3 DEF PatchPolicy, SetPolicy, Claimable, WritePV, diskVars
  <2>2. [apiPV[v] EXCEPT !.policy = p] = [phase |-> apiPV[v].phase, policy |-> p] /\ p \in Policies
    BY <1>0, FaultAssumption DEF PV
  <2> QED BY <2>1, <2>2, SoiledSet DEF Lifecycle!SetPolicy, Soiled
<1> QED BY <1>1, <1>2, <1>3

LEMMA StepLifecycle ==
    ASSUME Prompt, Life, [Next]_vars
    PROVE  [Lifecycle!Next]_<<apiPV, Soiled>>
<1>0. UNCHANGED <<apiPV, dirty>> => UNCHANGED <<apiPV, Soiled>>
  BY DEF Soiled
<1>1. CASE MainLoop
  <2>1. CASE \E v \in Volumes : DeletePVSent(v) \/ CreatePVSent(v)
    BY <2>1, StepPublish, StepWithdraw DEF Lifecycle!Next
  <2> QED BY <1>0, <1>1, <2>1 DEF MainLoop, StartPass, StartDiscovery, Sleep, ReclaimPV,
     DeleteJobSent, DeleteJobDone, CreateJobSent, CreateJobDone, CallError, CallFails,
     DeleteJobLost, DiscoverFile, PassOverFile, CreatePVError, CreatePVFails,
     discoverVolumesAtPath, PassOverClass, pvVars, diskVars
<1>2. CASE Goroutines
  <2>1. CASE \E v \in Volumes : CleanDone(v)
    BY <2>1, StepErase DEF Lifecycle!Next
  <2> QED BY <1>0, <1>2, <2>1 DEF Goroutines, DeliverPV, Populate, DeliverJob, CleanFailed,
     cleanPVFails, MarkCleaned, MarkDone, pvVars, diskVars
<1>3. CASE Cluster
  <2>1. CASE \E v \in Volumes : Bind(v) \/ Release(v) \/ PatchPolicy(v) \/ JobDone(v)
    BY <2>1, StepErase, StepUsed DEF Lifecycle!Next
  <2> QED BY <1>0, <1>3, <2>1 DEF Cluster, JobGone, pvVars, diskVars
<1>4. CASE Faults
  <2>1. ~PVWatchBreaks /\ \A v \in Volumes : ~AdminDeletesPV(v)
    BY LifeTypes DEF Prompt, NoRelist, NoAdmin, PVWatchBreaks, AdminDeletesPV, Fault, TypeOK, FaultKinds
  <2> QED BY <1>0, <1>4, <2>1 DEF Faults, Restart, RestartInformer, JobWatchBreaks, MediaLost,
     Unmount, MediaBack, Remount, JobFailed, pvVars, diskVars
<1> QED BY <1>0, <1>1, <1>2, <1>3, <1>4 DEF Next, vars, pvVars, diskVars

(***************************************************************************)
(* The provisioner implements VolumeLifecycle: a PV is published on a      *)
(* clean disk, claimed, released, its disk erased, and withdrawn once it   *)
(* is clean, and nothing else happens to it (FollowsLifecycle).            *)
(***************************************************************************)
THEOREM ImplementsLifecycle == Prompt /\ Spec => FollowsLifecycle
<1>1. Init => Lifecycle!Init
  BY DEF Init, PVInit, DiskInit, Lifecycle!Init
<1>2. Prompt /\ Life /\ [Next]_vars => [Lifecycle!Next]_<<apiPV, Soiled>>
  BY StepLifecycle
<1>3. (Prompt)' <=> Prompt
  BY DEF Prompt, NoAdmin, NoRelist
<1> QED BY <1>1, <1>2, <1>3, LifeAlways, PTL DEF Spec, FollowsLifecycle, Lifecycle!Spec, Soiled
=============================================================================
