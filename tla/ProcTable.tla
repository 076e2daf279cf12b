------------------------------ MODULE ProcTable ------------------------------
(***************************************************************************)
(* pkg/deleter/proctable.go: the table of cleanup processes, keyed by PV   *)
(* name, that the main loop (IsRunning, MarkRunning, RemoveEntry) and the  *)
(* cleanup goroutines (MarkSucceeded, MarkFailed) share under a mutex.     *)
(* Every method holds the mutex throughout, so each is one step.  Start    *)
(* times and the two counters only feed metrics and are left out.          *)
(***************************************************************************)
EXTENDS LocalVolumes

VARIABLE procTable    \* ProcTableImpl.procTable; CSNotFound = no entry

CleanupStates == {"CSNotFound", "CSRunning", "CSSucceeded", "CSFailed"}

ProcTypeOK == procTable \in [Volumes -> CleanupStates]

NewProcTable == procTable = [v \in Volumes |-> "CSNotFound"]

IsRunning(v) == procTable[v] = "CSRunning"

\* The effect on the table is a function of it, so that RemoveEntry and
\* MarkRunning, which deletePV calls one after the other, compose.
MarkRunning(table, v) == [table EXCEPT ![v] = "CSRunning"]

\* markStatus refuses a PV that has no entry.
markStatus_Always(table, v, status) == [table EXCEPT ![v] = "CSSucceeded"]
markStatus(table, v, status) ==
    IF table[v] = "CSNotFound" THEN table ELSE [table EXCEPT ![v] = status]

RemoveEntry_Kept(table, v) == table
RemoveEntry(table, v) ==
    IF table[v] = "CSRunning" THEN table ELSE [table EXCEPT ![v] = "CSNotFound"]
=============================================================================
