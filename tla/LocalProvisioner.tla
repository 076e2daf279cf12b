-------------------------- MODULE LocalProvisioner --------------------------
(***************************************************************************)
(* The local volume provisioner of one node (local-volume/provisioner),    *)
(* composed: the main loop of pkg/controller/controller.go, which runs the *)
(* Deleter and then the Discoverer, the informers and the cleanup          *)
(* goroutines beside it, and what the cluster, the administrator and the   *)
(* machine do meanwhile.                                                   *)
(***************************************************************************)
EXTENDS Discoverer

CONSTANTS
    PatchTo,        \* reclaim policies an administrator sets on unreleased PVs
    MaxFaults,      \* bound on the number of faults of each kind
    PromptReports   \* every report arrives while the main loop sleeps

FaultKinds == {"restart", "relistPVs", "relistJobs", "adminDelete", "unmount", "jobFail"}

ASSUME FaultAssumption ==
    /\ PatchTo \subseteq Policies
    /\ MaxFaults \in [FaultKinds -> Nat]
    /\ PromptReports \in BOOLEAN

VARIABLE faults    \* how many faults of each kind have happened

loopVars == <<pc, todo, cur, cleaner, procTable>>
vars == <<pvVars, jobVars, diskVars, loopVars, discoverVars, faults>>

TypeOK ==
    /\ PVTypeOK
    /\ ProcTypeOK
    /\ JobTypeOK
    /\ DiskTypeOK
    /\ DeleterTypeOK
    /\ DiscovererTypeOK
    /\ faults \in [FaultKinds -> Nat]

Init ==
    /\ PVInit
    /\ NewProcTable
    /\ JobInit
    /\ DiskInit
    /\ DeleterInit
    /\ DiscovererInit
    /\ faults = [k \in FaultKinds |-> 0]

Fault(k) ==
    /\ faults[k] < MaxFaults[k]
    /\ faults' = [faults EXCEPT ![k] = @ + 1]

-----------------------------------------------------------------------------
(***************************************************************************)
(* The main loop.  With PromptReports a pass starts, after the sleep of    *)
(* 10 s, only when all reports have arrived and deleted jobs are gone;     *)
(* without it they may be arbitrarily late.                                *)
(***************************************************************************)
Settled ==
    \A v \in Volumes : /\ pvEvents[v] = <<>>
                       /\ jobEvents[v] = <<>>
                       /\ apiJob[v] # "terminating"

StartPass ==
    /\ PromptReports => Settled
    /\ ListPVs
    /\ UNCHANGED <<pvVars, jobVars, diskVars, discoverVars, faults>>

ReclaimPV(v) ==
    /\ deletePV(v)
    /\ UNCHANGED <<pvVars, jobVars, diskVars, discoverVars, faults>>

StartDiscovery ==
    /\ EndDeletePVs
    /\ classes' = Classes
    /\ UNCHANGED <<pvVars, jobVars, diskVars, files, mounts, faults>>

DeletePVSent(v)  == DeletePVDone(v)  /\ UNCHANGED <<diskVars, discoverVars, faults>>
DeleteJobSent(v) == DeleteJobDone(v) /\ UNCHANGED <<diskVars, discoverVars, faults>>
CreateJobSent(v) == CreateJobDone(v) /\ UNCHANGED <<diskVars, discoverVars, faults>>

\* The call fails (it may be refused, too), or its answer is lost.
CallError(v) ==
    /\ \/ \E call \in {"DeletePV", "DeleteJob", "CreateJob"} : CallFails(call, v)
       \/ DeleteJobLost(v)
    /\ UNCHANGED <<diskVars, discoverVars, faults>>

discoverVolumesAtPath(c) ==
    /\ ReadClass(c)
    /\ UNCHANGED <<pvVars, jobVars, diskVars, loopVars, faults>>

PassOverClass(c) ==
    /\ SkipClass(c)
    /\ UNCHANGED <<pvVars, jobVars, diskVars, loopVars, faults>>

DiscoverFile(v) ==
    /\ VisitFile(v)
    /\ UNCHANGED <<pvVars, jobVars, diskVars, todo, cleaner, procTable, faults>>

PassOverFile(v) ==
    /\ SkipFile(v)
    /\ UNCHANGED <<pvVars, jobVars, diskVars, todo, cleaner, procTable, faults>>

CreatePVSent(v) ==
    /\ CreatePVDone(v)
    /\ UNCHANGED <<pvCache, jobVars, diskVars, todo, cleaner, procTable, discoverVars, faults>>

CreatePVError(v) ==
    /\ CreatePVFails(v)
    /\ UNCHANGED <<jobVars, diskVars, todo, cleaner, procTable, discoverVars, faults>>

Sleep ==
    /\ EndDiscover
    /\ UNCHANGED <<pvVars, jobVars, diskVars, todo, cur, cleaner, procTable, faults>>

MainLoop ==
    \/ StartPass \/ StartDiscovery \/ Sleep
    \/ \E v \in Volumes :
         \/ ReclaimPV(v) \/ DeletePVSent(v) \/ DeleteJobSent(v) \/ CreateJobSent(v)
         \/ CallError(v) \/ DiscoverFile(v) \/ PassOverFile(v)
         \/ CreatePVSent(v) \/ CreatePVError(v)
    \/ \E c \in Classes : discoverVolumesAtPath(c) \/ PassOverClass(c)

-----------------------------------------------------------------------------
(***************************************************************************)
(* Beside the main loop: informers and cleanup goroutines.                 *)
(***************************************************************************)
DeliverPV(v) ==
    /\ Populate(v)
    /\ UNCHANGED <<jobVars, diskVars, loopVars, discoverVars, faults>>

DeliverJob(v) ==
    /\ ObserveJob(v)
    /\ UNCHANGED <<pvVars, diskVars, loopVars, discoverVars, faults>>

CleanDone(v) ==
    /\ cleanPVSucceeds(v)
    /\ UNCHANGED <<pvVars, jobVars, pc, todo, cur, discoverVars, faults>>

CleanFailed(v) ==
    /\ cleanPVFails(v)
    /\ UNCHANGED <<pvVars, jobVars, pc, todo, cur, discoverVars, faults>>

MarkCleaned(v) ==
    /\ MarkDone(v)
    /\ UNCHANGED <<pvVars, jobVars, pc, todo, cur, discoverVars, faults>>

Goroutines == \E v \in Volumes :
    DeliverPV(v) \/ DeliverJob(v) \/ CleanDone(v) \/ CleanFailed(v) \/ MarkCleaned(v)

-----------------------------------------------------------------------------
(***************************************************************************)
(* The cluster: claims bind and release PVs, the Job controller runs the   *)
(* cleaning jobs.                                                          *)
(***************************************************************************)
Bind(v) ==
    /\ SetPhase(v, "Available", "Bound")
    /\ dirty' = Written(v)
    /\ UNCHANGED <<pvCache, jobVars, media, loopVars, discoverVars, faults>>

Release(v) ==
    /\ SetPhase(v, "Bound", "Released")
    /\ UNCHANGED <<pvCache, jobVars, diskVars, loopVars, discoverVars, faults>>

PatchPolicy(v) ==
    /\ \E p \in PatchTo : SetPolicy(v, p)
    /\ UNCHANGED <<pvCache, jobVars, diskVars, loopVars, discoverVars, faults>>

JobDone(v) ==
    /\ JobSucceeds(v)
    /\ media[v] = "mounted"
    /\ dirty' = Erased(v)
    /\ UNCHANGED <<pvVars, media, loopVars, discoverVars, faults>>

JobGone(v) ==
    /\ JobCollected(v) \/ AdminDeletesJob(v)
    /\ UNCHANGED <<pvVars, diskVars, loopVars, discoverVars, faults>>

Cluster == \E v \in Volumes :
    Bind(v) \/ Release(v) \/ PatchPolicy(v) \/ JobDone(v) \/ JobGone(v)

-----------------------------------------------------------------------------
(***************************************************************************)
(* Faults, each bounded by MaxFaults.                                      *)
(***************************************************************************)
Restart ==
    /\ Fault("restart")
    /\ RestartDeleter
    /\ RestartInformer
    /\ RestartJobInformer
    /\ classes' = {} /\ files' = {} /\ mounts' = {}
    /\ UNCHANGED diskVars

PVWatchBreaks ==
    /\ Fault("relistPVs")
    /\ RelistPVs
    /\ UNCHANGED <<jobVars, diskVars, loopVars, discoverVars>>

JobWatchBreaks ==
    /\ Fault("relistJobs")
    /\ RelistJobs
    /\ UNCHANGED <<pvVars, diskVars, loopVars, discoverVars>>

\* An administrator deletes a PV that is not in use (the finalizer
\* pv-protection keeps one that is).
AdminDeletesPV(v) ==
    /\ Fault("adminDelete")
    /\ apiPV[v].phase \in {"Available", "Released"}
    /\ WritePV(v, NoPV)
    /\ UNCHANGED <<pvCache, jobVars, diskVars, loopVars, discoverVars>>

MediaLost(v) ==
    /\ Fault("unmount")
    /\ Unmount(v)
    /\ UNCHANGED <<pvVars, jobVars, loopVars, discoverVars>>

MediaBack(v) ==
    /\ Remount(v)
    /\ UNCHANGED <<pvVars, jobVars, loopVars, discoverVars, faults>>

JobFailed(v) ==
    /\ Fault("jobFail")
    /\ JobFails(v)
    /\ UNCHANGED <<pvVars, diskVars, loopVars, discoverVars>>

Faults ==
    \/ Restart \/ PVWatchBreaks \/ JobWatchBreaks
    \/ \E v \in Volumes : AdminDeletesPV(v) \/ MediaLost(v) \/ MediaBack(v) \/ JobFailed(v)

Next == MainLoop \/ Goroutines \/ Cluster \/ Faults

Spec == Init /\ [][Next]_vars

-----------------------------------------------------------------------------
(***************************************************************************)
(* Safety.                                                                 *)
(***************************************************************************)
\* Something is at work on the data of v: the cleanup goroutine, or a job.
BeingCleaned(v) == cleaner[v] = "cleaning" \/ apiJob[v] = "running"

(***************************************************************************)
(* The program's main promise about data in use: a volume is only cleaned  *)
(* while its PV is Released with policy Delete or no longer exists, never  *)
(* under a claim, never a volume to retain.  The decision is made from the *)
(* cache (DeletePVs, deletePV), which may be far behind the API server,    *)
(* and cleaning goes on while the Discoverer could create the PV anew      *)
(* (discovery.go: "prevent PV from being created while it is being         *)
(* cleaned").                                                              *)
(***************************************************************************)
CleansOnlyReleased == \A v \in Volumes :
    BeingCleaned(v) => Disposable(apiPV[v])

(***************************************************************************)
(* deletePV acts on the word of a snapshot of a cache that may lag.  When  *)
(* its API calls are made (delete the PV, delete or create its cleaning    *)
(* job) the PV has not been bound, kept or created anew in the meantime.   *)
(***************************************************************************)
ActsOnlyOnReleased == \A v \in Volumes :
    pc \in {"DeletePV", "DeleteJob", "CreateJob"} /\ v \in cur
        => Disposable(apiPV[v])

(***************************************************************************)
(* A PV that can be claimed holds no data of a former claim: "delete file  *)
(* contents and delete PV, to be discovered again" happens in this order.  *)
(***************************************************************************)
AvailableIsClean == \A v \in Volumes : apiPV[v].phase = "Available" => ~dirty[v]

(***************************************************************************)
(* "Deleting pv %s after successful cleanup" (deletePV): a PV about to be  *)
(* deleted was cleaned in this life, after its release; the success that   *)
(* is found in the table or in the job lister is not one of an earlier     *)
(* life of the PV.                                                         *)
(***************************************************************************)
DeletedAfterCleanup == \A v \in Volumes :
    pc = "DeletePV" /\ v \in cur /\ apiPV[v] # NoPV => ~dirty[v]

(***************************************************************************)
(* A goroutine cleans v exactly while the table says CSRunning, so that    *)
(* IsRunning and RemoveEntry can be relied on: no second goroutine is      *)
(* started and no outcome is entered without one (runProcess, asyncCleanPV *)
(* and a restart in between).                                              *)
(***************************************************************************)
TableTracksCleaners == \A v \in Volumes : cleaner[v] # "idle" <=> IsRunning(v)

(***************************************************************************)
(* The provisioner implements the abstract life of a volume: the PV in the *)
(* API server and the data on the disk change as VolumeLifecycle allows,   *)
(* whatever the cache, the tables and the jobs go through (DeletePVs and   *)
(* DiscoverLocalVolumes as users see them).                                *)
(***************************************************************************)
Lifecycle == INSTANCE VolumeLifecycle
               WITH pv <- apiPV, soiled <- {v \in Volumes : dirty[v]}
FollowsLifecycle == Lifecycle!Spec

-----------------------------------------------------------------------------
(***************************************************************************)
(* Fairness.  The main loop and the goroutines are scheduled; a call to    *)
(* the API server, a directory or the cleanup itself that is tried again   *)
(* and again (every pass tries again) succeeds in the end.                 *)
(***************************************************************************)
Fairness ==
    /\ WF_vars(MainLoop)
    /\ \A v \in Volumes :
         /\ WF_vars(DeliverPV(v)) /\ WF_vars(DeliverJob(v))
         /\ WF_vars(CleanDone(v) \/ CleanFailed(v)) /\ WF_vars(MarkCleaned(v))
         /\ WF_vars(JobDone(v)) /\ WF_vars(JobGone(v))
         /\ SF_vars(CleanDone(v))
         /\ SF_vars(DeletePVSent(v)) /\ SF_vars(DeleteJobSent(v)) /\ SF_vars(CreateJobSent(v))
         /\ SF_vars(DiscoverFile(v)) /\ SF_vars(CreatePVSent(v))
    /\ \A c \in Classes : SF_vars(discoverVolumesAtPath(c))

FairSpec == Spec /\ Fairness

(***************************************************************************)
(* A released volume is recycled: its PV is cleaned, deleted and, found    *)
(* again by the Discoverer, claimable once more ("When PV created by the   *)
(* provisioner is released, delete file contents and delete PV, to be      *)
(* discovered again", CHANGELOG.md), across errors, failed cleanups and    *)
(* restarts of the provisioner.                                            *)
(***************************************************************************)
ReleasedIsRecycled == \A v \in Volumes :
    apiPV[v] = [phase |-> "Released", policy |-> "Delete"] ~> apiPV[v].phase = "Available"
=============================================================================
