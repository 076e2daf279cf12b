----------------------------- MODULE CleanupJobs -----------------------------
(***************************************************************************)
(* Cleaning by Kubernetes Jobs: pkg/deleter/jobcontroller.go and the calls *)
(* CreateJob and DeleteJob of pkg/util/api_util.go.  A job is named after  *)
(* its PV, so there is at most one per volume.  The provisioner asks about *)
(* jobs from jobLister, the store of its job informer, and changes them    *)
(* through the API server; the two are apart while reports are under way.  *)
(* The Job controller of Kubernetes, which runs the job's pod, is          *)
(* external.                                                               *)
(***************************************************************************)
EXTENDS LocalVolumes

VARIABLES
    apiJob,      \* the cleaning job of each volume in the API server
    jobEvents,   \* reports on it that the informer has not received
    jobLister    \* the informer's store

jobVars == <<apiJob, jobEvents, jobLister>>

(***************************************************************************)
(* "failed": the retries are used up; Status.Succeeded stays 0.            *)
(* "terminating": deleted with foreground propagation, which leaves the    *)
(* object, with Status.Succeeded = 1, until its pods are collected.        *)
(***************************************************************************)
JobStates == {"none", "running", "failed", "succeeded", "terminating"}

JobTypeOK ==
    /\ apiJob \in [Volumes -> JobStates]
    /\ jobLister \in [Volumes -> JobStates]
    /\ jobEvents \in [Volumes -> Seq(JobStates)]

JobInit ==
    /\ apiJob = [v \in Volumes |-> "none"]
    /\ jobEvents = [v \in Volumes |-> <<>>]
    /\ jobLister = [v \in Volumes |-> "none"]

\* job.Status.Succeeded > 0
Succeeded_OrFailed(job) == job \in {"succeeded", "terminating", "failed"}
Succeeded(job) == job \in {"succeeded", "terminating"}

WriteJob(v, job) ==
    /\ Len(jobEvents[v]) < MaxEvents
    /\ apiJob' = [apiJob EXCEPT ![v] = job]
    /\ jobEvents' = [jobEvents EXCEPT ![v] = Append(@, job)]
    /\ UNCHANGED jobLister

-----------------------------------------------------------------------------
(***************************************************************************)
(* The Job controller of Kubernetes, its garbage collector, and the        *)
(* administrator who deletes a job that failed ("We assume failed jobs to  *)
(* be still running, until addressed by admin").                           *)
(***************************************************************************)
JobSucceeds(v)  == apiJob[v] = "running"     /\ WriteJob(v, "succeeded")
JobFails(v)     == apiJob[v] = "running"     /\ WriteJob(v, "failed")
JobCollected(v) == apiJob[v] = "terminating" /\ WriteJob(v, "none")
AdminDeletesJob(v) == apiJob[v] = "failed"   /\ WriteJob(v, "none")

\* The informer handles a report.  The workqueue that the event handlers of
\* NewJobController fill only leads to log lines (processItem).
ObserveJob(v) ==
    /\ jobEvents[v] # <<>>
    /\ jobLister' = [jobLister EXCEPT ![v] = Head(jobEvents[v])]
    /\ jobEvents' = [jobEvents EXCEPT ![v] = Tail(@)]
    /\ UNCHANGED apiJob

\* The watch breaks and the jobs are listed again.
RelistJobs ==
    /\ jobEvents' = [v \in Volumes |-> <<apiJob[v]>>]
    /\ UNCHANGED <<apiJob, jobLister>>

\* WaitForCacheSync: a new process starts with a lister that is up to date.
RestartJobInformer ==
    /\ jobLister' = apiJob
    /\ jobEvents' = [v \in Volumes |-> <<>>]
    /\ UNCHANGED apiJob

-----------------------------------------------------------------------------
IsCleaningJobRunning_Present(v) == jobLister[v] # "none"
IsCleaningJobRunning(v) == jobLister[v] # "none" /\ ~Succeeded(jobLister[v])

\* Create: refused if the name is taken, even by a job that is terminating.
CreateJob(v) == apiJob[v] = "none" /\ WriteJob(v, "running")

\* Delete: NotFound if there is none.  Deleting a completed job leaves it
\* terminating, deleting it again changes nothing; one that is not complete
\* is killed, and taken to be gone at once.
DeleteJob(v) ==
    /\ apiJob[v] # "none"
    /\ IF apiJob[v] = "terminating"
         THEN UNCHANGED jobVars
         ELSE WriteJob(v, IF Succeeded(apiJob[v]) THEN "terminating" ELSE "none")
=============================================================================
