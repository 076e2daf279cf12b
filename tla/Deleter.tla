------------------------------- MODULE Deleter -------------------------------
(***************************************************************************)
(* pkg/deleter/deleter.go: the first half of a pass of the main loop.      *)
(* DeletePVs lists the cache once and calls deletePV for each Released PV  *)
(* whose policy is Delete.  deletePV decides from the cleanup status       *)
(* tracker and makes at most two API calls; each call is a step of its     *)
(* own (pc names the call about to be made), because anything may happen   *)
(* between the decision and the call.  Cleaning by process runs in a       *)
(* goroutine of its own (asyncCleanPV).                                    *)
(***************************************************************************)
EXTENDS PVInformer, ProcTable, CleanupJobs

VARIABLES
    pc,       \* where the main loop is
    todo,     \* PVs of the ListPVs snapshot that deletePV is still to handle
    cur,      \* the volume the API call at pc is about, a set of at most one
    cleaner   \* asyncCleanPV of each volume

APICalls == {"DeletePV", "DeleteJob", "CreateJob", "CreatePV"}

DeleterTypeOK ==
    /\ pc \in {"sleep", "delete", "discover"} \cup APICalls
    /\ todo \subseteq Volumes
    /\ cur \subseteq Volumes
    /\ cleaner \in [Volumes -> {"idle", "cleaning", "succeeded", "failed"}]

DeleterInit ==
    /\ pc = "sleep"
    /\ todo = {}
    /\ cur = {}
    /\ cleaner = [v \in Volumes |-> "idle"]

-----------------------------------------------------------------------------
InProgress(v) == IF shouldRunJob(v) THEN IsCleaningJobRunning(v) ELSE IsRunning(v)

\* The PVs DeletePVs acts on; for the others it only logs or records an event.
Reclaimable_AnyPolicy(pv) == pv.phase = "Released"
Reclaimable_AnyUsed(pv) == pv.phase \in {"Bound", "Released"} /\ pv.policy = "Delete"
Reclaimable(pv) == pv.phase = "Released" /\ pv.policy = "Delete"

ListPVs ==
    /\ pc = "sleep"
    /\ pc' = "delete"
    /\ todo' = {v \in Volumes : Reclaimable(pvCache[v])}
    /\ UNCHANGED <<cur, cleaner, procTable>>

\* RemoveStatus refuses while cleaning is not completed.
Unfinished(v) ==
    IF shouldRunJob(v) THEN jobLister[v] # "none" /\ ~Succeeded(jobLister[v])
                       ELSE procTable[v] = "CSRunning"

\* The early returns of deletePV: no volume mode, cleaning in progress, or an
\* error of RemoveStatus.
SkipPV(v) ==
    /\ ~HasMode(v) \/ InProgress(v) \/ Unfinished(v)
    /\ UNCHANGED <<pc, cur, cleaner, procTable>>

\* The next step of the main loop is the given API call about v.
Call(call, v) == pc' = call /\ cur' = {v}

\* A succeeded entry is removed and the PV deleted next.
TakeSuccess_OrFailure(v) ==
    /\ HasMode(v) /\ ~InProgress(v) /\ ~shouldRunJob(v)
    /\ procTable[v] \in {"CSSucceeded", "CSFailed"}
    /\ procTable' = RemoveEntry(procTable, v)
    /\ Call("DeletePV", v)
    /\ UNCHANGED cleaner
TakeSuccess(v) ==
    /\ HasMode(v) /\ ~InProgress(v) /\ ~shouldRunJob(v)
    /\ procTable[v] = "CSSucceeded"
    /\ procTable' = RemoveEntry(procTable, v)
    /\ Call("DeletePV", v)
    /\ UNCHANGED cleaner

\* No entry, or a failed one that is removed: runProcess.
runProcess(v) ==
    /\ HasMode(v) /\ ~InProgress(v) /\ ~shouldRunJob(v)
    /\ procTable[v] \in {"CSNotFound", "CSFailed"}
    /\ procTable' = MarkRunning(RemoveEntry(procTable, v), v)
    /\ cleaner' = [cleaner EXCEPT ![v] = "cleaning"]
    /\ UNCHANGED <<pc, cur>>

\* RemoveJob: the job is deleted if the lister says that it succeeded; if the
\* lister has none, runJob creates one.
RemoveJob(v) ==
    /\ HasMode(v) /\ ~InProgress(v) /\ shouldRunJob(v)
    /\ Succeeded(jobLister[v])
    /\ Call("DeleteJob", v)
    /\ UNCHANGED <<cleaner, procTable>>

runJob(v) ==
    /\ HasMode(v) /\ ~InProgress(v) /\ shouldRunJob(v)
    /\ jobLister[v] = "none"
    /\ Call("CreateJob", v)
    /\ UNCHANGED <<cleaner, procTable>>

deletePV(v) ==
    /\ pc = "delete"
    /\ v \in todo
    /\ todo' = todo \ {v}
    /\ SkipPV(v) \/ TakeSuccess(v) \/ runProcess(v) \/ RemoveJob(v) \/ runJob(v)

EndDeletePVs ==
    /\ pc = "delete"
    /\ todo = {}
    /\ pc' = "discover"
    /\ UNCHANGED <<todo, cur, cleaner, procTable>>

-----------------------------------------------------------------------------
(***************************************************************************)
(* The API calls of deletePV about a volume v.  A call that is answered    *)
(* with an error may have been carried out all the same.  NotFound and     *)
(* every error of DeletePV lead to the same state as success; an error of  *)
(* DeleteJob ends deletePV before the PV is deleted.                       *)
(***************************************************************************)
Return(call, v) ==
    /\ pc = call
    /\ v \in cur
    /\ pc' = "delete"
    /\ cur' = {}
    /\ UNCHANGED <<todo, cleaner, procTable>>

\* The server deletes the PV of that name, whatever it has become since.
DeletePVDone(v) ==
    /\ Return("DeletePV", v)
    /\ apiPV[v] # NoPV
    /\ WritePV(v, NoPV)
    /\ UNCHANGED <<pvCache, jobVars>>

CallFails(call, v) == Return(call, v) /\ UNCHANGED <<pvVars, jobVars>>

DeleteJobDone(v) ==
    /\ pc = "DeleteJob" /\ v \in cur
    /\ DeleteJob(v)
    /\ Call("DeletePV", v)
    /\ UNCHANGED <<todo, cleaner, procTable, pvVars>>

DeleteJobLost(v) == Return("DeleteJob", v) /\ DeleteJob(v) /\ UNCHANGED pvVars

CreateJobDone(v) == Return("CreateJob", v) /\ CreateJob(v) /\ UNCHANGED pvVars

-----------------------------------------------------------------------------
(***************************************************************************)
(* asyncCleanPV: cleanPV works on the path, then the outcome is entered.   *)
(* A path that cannot be opened fails; one that can may fail as well       *)
(* (RemoveAll, the cleanup script), having erased part of the data.        *)
(***************************************************************************)
cleanPVSucceeds(v) ==
    /\ cleaner[v] = "cleaning"
    /\ HasMode(v)
    /\ cleaner' = [cleaner EXCEPT ![v] = "succeeded"]
    /\ dirty' = Erased(v)
    /\ UNCHANGED <<procTable, media>>

cleanPVFails(v) ==
    /\ cleaner[v] = "cleaning"
    /\ cleaner' = [cleaner EXCEPT ![v] = "failed"]
    /\ UNCHANGED <<procTable, media, dirty>>

MarkDone_OnlySuccess(v) ==
    /\ cleaner[v] \in {"succeeded", "failed"}
    /\ procTable' = IF cleaner[v] = "succeeded"
                      THEN markStatus(procTable, v, "CSSucceeded") ELSE procTable
    /\ cleaner' = [cleaner EXCEPT ![v] = "idle"]
    /\ UNCHANGED <<media, dirty>>
MarkDone(v) ==
    /\ cleaner[v] \in {"succeeded", "failed"}
    /\ procTable' = markStatus(procTable, v,
                      IF cleaner[v] = "succeeded" THEN "CSSucceeded" ELSE "CSFailed")
    /\ cleaner' = [cleaner EXCEPT ![v] = "idle"]
    /\ UNCHANGED <<media, dirty>>

\* A new process: no entry and no goroutine survives.
RestartDeleter ==
    /\ pc' = "sleep"
    /\ todo' = {}
    /\ cur' = {}
    /\ cleaner' = [v \in Volumes |-> "idle"]
    /\ procTable' = [v \in Volumes |-> "CSNotFound"]
=============================================================================
