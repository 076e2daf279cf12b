------------------------- MODULE SnapshotController -------------------------
(***************************************************************************)
(* snapshot/cmd/snapshot-controller: users and the API server, the         *)
(* informer, the populator, the reconciler, the operations it starts and   *)
(* the storage below them.                                                 *)
(***************************************************************************)
EXTENDS Snapshotter

CONSTANT MaxRestarts   \* bound on restarts of the controller

ASSUME SnapshotAssumption ==
    /\ MaxUID \in Nat /\ MaxAttempts \in Nat
    /\ NoObject \notin VolumeSnapshot
    /\ MaxLag \in Nat /\ MaxRelists \in Nat /\ MaxFaults \in Nat /\ MaxRestarts \in Nat

VARIABLE restarts

vars == <<plugin, disks, worldVars, dataFor, attempts, opVars, faults, restarts>>
snapshotterKept == <<dataFor, attempts, opVars, faults>>

TypeOK ==
    /\ BackendTypeOK /\ WorldsTypeOK /\ SnapshotterTypeOK
    /\ restarts \in 0..MaxRestarts

Init == BackendInit /\ WorldsInit /\ SnapshotterInit /\ restarts = 0

-----------------------------------------------------------------------------
\* Both state maps are read entry by entry; a running operation is skipped.
Reconcile(u) == StartDelete(u) \/ StartCreate(u)

CreateStep(u) ==
    \/ ListData(u) \/ FindByTags(u)
    \/ Stamp(u) \/ Take(u) \/ PostData(u)
    \/ bindandUpdate(u)
    \/ GetData(u)
    \/ WaitForSnapshot(u)

DeleteStep(u) == GetDataToDelete(u) \/ DeleteDisk(u) \/ DeleteData(u)

User    == (UserCreates \/ UserDeletes) /\ UNCHANGED <<plugin, disks, snapshotterKept>>
Watch   == (Informer \/ Relist) /\ UNCHANGED <<plugin, disks, snapshotterKept>>
Populate == Populator /\ UNCHANGED <<plugin, disks, snapshotterKept>>
Storage == \E n \in Attempts : Completes(n) /\ UNCHANGED <<worldVars, snapshotterKept>>

\* Maps and goroutines are gone, whatever call they were in.
Restart ==
    /\ restarts < MaxRestarts
    /\ restarts' = restarts + 1
    /\ WorldsRestart
    /\ creating' = [u \in UIDs |-> NoCreate]
    /\ deleting' = [u \in UIDs |-> NoDelete]
    /\ UNCHANGED <<plugin, disks, dataFor, attempts, faults>>

Next ==
    \/ /\ \/ User \/ Watch \/ Populate \/ Storage
          \/ \E u \in UIDs : Reconcile(u) \/ CreateStep(u) \/ WaitTimesOut(u) \/ DeleteStep(u)
       /\ UNCHANGED restarts
    \/ Restart

(***************************************************************************)
(* Every loop and every goroutine goes on; the storage completes what it   *)
(* began.  Users need do nothing; faults, relists and restarts need not    *)
(* happen, nor need a wait time out.                                       *)
(***************************************************************************)
Fairness ==
    /\ WF_vars(Informer /\ UNCHANGED <<plugin, disks, snapshotterKept, restarts>>)
    /\ WF_vars(Populate /\ UNCHANGED restarts)
    /\ WF_vars(Storage /\ UNCHANGED restarts)
    /\ \A u \in UIDs :
        /\ WF_vars(Reconcile(u) /\ UNCHANGED restarts)
        /\ WF_vars(CreateStep(u) /\ UNCHANGED restarts)
        /\ WF_vars(DeleteStep(u) /\ UNCHANGED restarts)

Spec == Init /\ [][Next]_vars /\ Fairness

-----------------------------------------------------------------------------
Bound == object # NoObject /\ object.data # 0

(***************************************************************************)
(* A VolumeSnapshot that names a VolumeSnapshotData finds it.              *)
(***************************************************************************)
BoundHasData == Bound => HasData(object.data)

(***************************************************************************)
(* The snapshot on disk of a VolumeSnapshot that is there is never         *)
(* deleted: delete operations reach only what was given up.                *)
(***************************************************************************)
KeepsBoundDisks ==
    [][\A n \in Attempts :
        (Exists(n) /\ disks'[n] = "deleted") => ~(Bound /\ object.data = n)]_vars

(***************************************************************************)
(* What a delete operation will be started with can be deleted: every      *)
(* entry of the actual state names its VolumeSnapshotData.                 *)
(***************************************************************************)
ActualIsBound == \A u \in UIDs : SnapshotExists(asw, u) => asw[u].data # 0

(***************************************************************************)
(* A VolumeSnapshot that stays is taken into the actual state, whatever    *)
(* call fails on the way and whenever the controller restarts: unless the  *)
(* storage failed, or a Cinder snapshot is found by its tags.              *)
(***************************************************************************)
BecomesActual ==
    (object # NoObject)
        ~> \/ object = NoObject \/ SnapshotExists(asw, object.uid)
           \/ \E n \in Attempts : disks[n] = "failed"
           \/ FindSnapshot(object.stamp)

\* The disk is gone, and its data: a removal of data behind a failed call finds
\* the disk missing, which most plugins refuse; the errors of Cinder are dropped.
NothingLeft(n) ==
    /\ Exists(n)  => plugin = "cinder" /\ faults # 0
    /\ HasData(n) => plugin \in {"hostPath", "glusterfs", "aws_ebs"} /\ faults # 0

(***************************************************************************)
(* The snapshot on disk and the data of a VolumeSnapshot that is gone, and *)
(* is in the actual state, are deleted, whatever call fails on the way,    *)
(* but for the cases above; unless the controller restarts, which then     *)
(* knows of it no more.                                                    *)
(***************************************************************************)
DeletedIsRemoved ==
    \A u \in UIDs, n \in Attempts :
        (SnapshotExists(asw, u) /\ asw[u].data = n /\ object = NoObject)
            ~> (NothingLeft(n) \/ restarts # 0)
=============================================================================
