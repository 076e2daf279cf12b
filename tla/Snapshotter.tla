----------------------------- MODULE Snapshotter -----------------------------
(***************************************************************************)
(* snapshot/pkg/controller/snapshotter: the create and the delete          *)
(* operation of a VolumeSnapshot.  Each runs in a goroutine of its own;    *)
(* the two of one snapshot do not exclude each other.  A step is one call  *)
(* to the API server, to the plugin, or a Get with the Put that follows.   *)
(* A create that gets so far as to label its VolumeSnapshot is an attempt; *)
(* its number stands for the time stamp, the disk and the                  *)
(* VolumeSnapshotData that come of it.                                     *)
(***************************************************************************)
EXTENDS SnapshotWorlds, FiniteSets

CONSTANT MaxFaults   \* bound on the calls that fail

VARIABLES
    dataFor,   \* the UID a VolumeSnapshotData is for, 0 if there is none
    attempts,  \* attempts begun
    creating,  \* the create operations
    deleting,  \* the delete operations
    faults

opVars == <<creating, deleting>>

CreateSteps == {"idle", "list", "find", "stamp", "take", "post", "bind", "get", "wait"}
DeleteSteps == {"idle", "get", "disk", "data"}

(***************************************************************************)
(* obj: the VolumeSnapshot the operation has in hand; n: the attempt or    *)
(* the data it is about; cond: the conditions a bind is to write, "new"    *)
(* for the nil of updateSnapshotIfExists, which leaves what is there.      *)
(***************************************************************************)
CreateOp == [at : CreateSteps, obj : MaybeSnapshot, n : Attempts \cup {0}, cond : Conditions]
DeleteOp == [at : DeleteSteps, n : Attempts \cup {0}]
NoCreate == [at |-> "idle", obj |-> NoObject, n |-> 0, cond |-> "new"]
NoDelete == [at |-> "idle", n |-> 0]

SnapshotterTypeOK ==
    /\ dataFor \in [Attempts -> UIDs \cup {0}]
    /\ attempts \in Attempts \cup {0}
    /\ creating \in [UIDs -> CreateOp]
    /\ deleting \in [UIDs -> DeleteOp]
    /\ faults \in 0..MaxFaults

SnapshotterInit ==
    /\ dataFor = [n \in Attempts |-> 0]
    /\ attempts = 0
    /\ creating = [u \in UIDs |-> NoCreate]
    /\ deleting = [u \in UIDs |-> NoDelete]
    /\ faults = 0

-----------------------------------------------------------------------------
\* A call fails, or not.
Fails   == faults < MaxFaults /\ faults' = faults + 1
Answers == UNCHANGED faults

CreateGoes(u, step) == creating' = [creating EXCEPT ![u].at = step]
CreateEnds(u) == creating' = [creating EXCEPT ![u] = NoCreate]
DeleteGoes(u, step) == deleting' = [deleting EXCEPT ![u].at = step]
DeleteEnds(u) == deleting' = [deleting EXCEPT ![u] = NoDelete]

HasData(n) == n \in Attempts /\ dataFor[n] # 0

worldsKept == <<object, created, reports, store, dsw, listed, relists>>
diskKept   == <<plugin, disks>>

(***************************************************************************)
(* CreateVolumeSnapshot and the first lines of syncSnapshot.  Nothing is   *)
(* started for a snapshot in error: its operation fails where it begins.   *)
(***************************************************************************)
StartCreate(u) ==
    /\ SnapshotExists(dsw, u) /\ ~SnapshotExists(asw, u)
    /\ creating[u].at = "idle"
    /\ \/ /\ dsw[u].cond = "ready"
          /\ asw' = AddSnapshot(asw, dsw[u])
          /\ UNCHANGED creating
       \/ /\ dsw[u].cond \in {"pending", "new"}
          /\ creating' = [creating EXCEPT ![u] =
                 IF dsw[u].cond = "pending"
                 THEN [NoCreate EXCEPT !.at = "get", !.obj = dsw[u], !.n = dsw[u].data]
                 ELSE [NoCreate EXCEPT !.at = "list", !.obj = dsw[u]]]
          /\ UNCHANGED asw
    /\ UNCHANGED <<worldsKept, diskKept, dataFor, attempts, deleting, faults>>

(***************************************************************************)
(* getSnapshotDataFromSnapshotName: some VolumeSnapshotData that is for    *)
(* this name and UID.  A failed list is taken for an empty one.            *)
(***************************************************************************)
ListData(u) ==
    /\ creating[u].at = "list"
    /\ \/ /\ \E n \in Attempts :
                /\ dataFor[n] = u
                /\ creating' = [creating EXCEPT ![u].at = "bind", ![u].n = n]
          /\ Answers
       \/ /\ \A n \in Attempts : dataFor[n] # u
          /\ CreateGoes(u, "find")
          /\ Answers
       \/ /\ CreateGoes(u, "find")
          /\ Fails
    /\ UNCHANGED <<worldsKept, asw, diskKept, dataFor, attempts, deleting>>

(***************************************************************************)
(* findSnapshotByTags, with the time stamp of the VolumeSnapshot in hand.  *)
(* If the disk is found, updateSnapshotIfExists looks for the PV's name    *)
(* under a label nobody writes, and the operation fails.                   *)
(***************************************************************************)
FindByTags(u) ==
    /\ creating[u].at = "find"
    /\ \/ /\ IF FindSnapshot(creating[u].obj.stamp) THEN CreateEnds(u) ELSE CreateGoes(u, "stamp")
          /\ Answers
       \/ /\ FindSnapshot(creating[u].obj.stamp)
          /\ CreateGoes(u, "stamp")
          /\ Fails
    /\ UNCHANGED <<worldsKept, asw, diskKept, dataFor, attempts, deleting>>

\* getPVFromVolumeSnapshot, then updateVolumeSnapshotMetadata.
Stamp(u) ==
    /\ creating[u].at = "stamp"
    /\ \/ /\ object # NoObject
          /\ attempts + 1 \in Attempts
          /\ attempts' = attempts + 1
          /\ Write([object EXCEPT !.stamp = attempts + 1])
          /\ creating' = [creating EXCEPT ![u].at = "take", ![u].n = attempts + 1]
          /\ Answers
       \/ /\ IF object = NoObject THEN Answers ELSE Fails
          /\ CreateEnds(u)
          /\ UNCHANGED <<attempts, object, reports>>
    /\ UNCHANGED <<created, store, dsw, asw, listed, relists, diskKept, dataFor, deleting>>

\* takeSnapshot: what the plugin made before it failed stays.
Take(u) ==
    /\ creating[u].at = "take"
    /\ \E o \in SnapshotCreate :
        /\ disks' = [disks EXCEPT ![creating[u].n] = o.disk]
        /\ IF o.answer = "err" THEN CreateEnds(u)
           ELSE creating' = [creating EXCEPT ![u].at = "post", ![u].cond = o.answer]
        /\ IF o.fault THEN Fails ELSE Answers
    /\ UNCHANGED <<worldsKept, asw, plugin, dataFor, attempts, deleting>>

\* Variant: the error of the Post is not looked at.
PostData_Unchecked(u) ==
    /\ creating[u].at = "post"
    /\ \/ dataFor' = [dataFor EXCEPT ![creating[u].n] = u] /\ Answers
       \/ UNCHANGED dataFor /\ Fails
    /\ CreateGoes(u, "bind")
    /\ UNCHANGED <<worldsKept, asw, diskKept, attempts, deleting>>

\* createVolumeSnapshotData: an error, also of a Post that was done, is final.
PostData(u) ==
    /\ creating[u].at = "post"
    /\ \/ /\ dataFor' = [dataFor EXCEPT ![creating[u].n] = u]
          /\ CreateGoes(u, "bind")
          /\ Answers
       \/ /\ \/ dataFor' = [dataFor EXCEPT ![creating[u].n] = u]
             \/ UNCHANGED dataFor
          /\ CreateEnds(u)
          /\ Fails
    /\ UNCHANGED <<worldsKept, asw, diskKept, attempts, deleting>>

(***************************************************************************)
(* bindandUpdateVolumeSnapshot: the VolumeSnapshot is got by name.  With   *)
(* the nil status of updateSnapshotIfExists its conditions stay, and the   *)
(* data is read before the wait.                                           *)
(***************************************************************************)
BoundTo(o, n, cond) ==
    IF cond = "new" THEN [o EXCEPT !.data = n] ELSE [o EXCEPT !.data = n, !.cond = cond]

\* Variant: the operation goes on with the VolumeSnapshot as it was.
bindandUpdate_KeepsObj(u) ==
    LET op == creating[u] IN
    /\ op.at = "bind"
    /\ \/ /\ object # NoObject
          /\ LET bound == BoundTo(object, op.n, op.cond) IN
              /\ Write(bound)
              /\ creating' = [creating EXCEPT
                     ![u].at = IF op.cond = "new" THEN "get" ELSE "wait"]
          /\ Answers
       \/ /\ IF object = NoObject THEN Answers ELSE Fails
          /\ CreateEnds(u)
          /\ UNCHANGED <<object, reports>>
    /\ UNCHANGED <<created, store, dsw, asw, listed, relists, diskKept, dataFor, attempts, deleting>>

bindandUpdate(u) ==
    LET op == creating[u] IN
    /\ op.at = "bind"
    /\ \/ /\ object # NoObject
          /\ LET bound == BoundTo(object, op.n, op.cond) IN
              /\ Write(bound)
              /\ creating' = [creating EXCEPT
                     ![u].at = IF op.cond = "new" THEN "get" ELSE "wait", ![u].obj = bound]
          /\ Answers
       \/ /\ IF object = NoObject THEN Answers ELSE Fails
          /\ CreateEnds(u)
          /\ UNCHANGED <<object, reports>>
    /\ UNCHANGED <<created, store, dsw, asw, listed, relists, diskKept, dataFor, attempts, deleting>>

\* getSnapshotDataFromSnapshot, for a pending snapshot
GetData(u) ==
    /\ creating[u].at = "get"
    /\ \/ /\ IF HasData(creating[u].n) THEN CreateGoes(u, "wait") ELSE CreateEnds(u)
          /\ Answers
       \/ /\ HasData(creating[u].n)
          /\ CreateEnds(u)
          /\ Fails
    /\ UNCHANGED <<worldsKept, asw, diskKept, dataFor, attempts, deleting>>

-----------------------------------------------------------------------------
(***************************************************************************)
(* One turn of waitForSnapshot: the plugin's condition goes to the         *)
(* VolumeSnapshot of this name and on to the data it is bound to           *)
(* (UpdateVolumeSnapshotStatus, propagateVolumeSnapshotCondition).  Where  *)
(* that fails there is no VolumeSnapshot to add: a Ready one panics, and   *)
(* the operation fails.  Turns that change nothing are left out.           *)
(***************************************************************************)
Propagates == HasData(object.data)

UpdateStatus(u, c) ==
    /\ object # NoObject /\ object.cond # c
    /\ Write([object EXCEPT !.cond = c])
    /\ asw' = IF c = "ready" /\ Propagates THEN AddSnapshot(asw, [object EXCEPT !.cond = c]) ELSE asw
    /\ IF c = "pending" THEN UNCHANGED creating ELSE CreateEnds(u)
    /\ Answers

StatusIsEqual(u, c) ==
    /\ object # NoObject /\ object.cond = c
    /\ c # "pending"
    /\ asw' = IF c = "ready" THEN AddSnapshot(asw, creating[u].obj) ELSE asw
    /\ CreateEnds(u)
    /\ Answers
    /\ UNCHANGED <<object, reports>>

StatusFails(u, c) ==
    /\ c # "pending"
    /\ IF object = NoObject THEN Answers ELSE Fails
    /\ CreateEnds(u)
    /\ UNCHANGED <<object, reports, asw>>

WaitForSnapshot(u) ==
    /\ creating[u].at = "wait"
    /\ LET c == DescribeSnapshot(creating[u].n) IN
        /\ c # "err"
        /\ UpdateStatus(u, c) \/ StatusIsEqual(u, c) \/ StatusFails(u, c)
    /\ UNCHANGED <<created, store, dsw, listed, relists, diskKept, dataFor, attempts, deleting>>

(***************************************************************************)
(* The last of the volumeSnapshotSteps turns found nothing final.  They    *)
(* take 6650 seconds: the watch has reported what was written by then.     *)
(***************************************************************************)
WaitTimesOut(u) ==
    /\ creating[u].at = "wait"
    /\ reports = <<>>
    /\ DescribeSnapshot(creating[u].n) \in {"err", "pending"}
    /\ CreateEnds(u)
    /\ UNCHANGED <<worldsKept, asw, diskKept, dataFor, attempts, deleting, faults>>

-----------------------------------------------------------------------------
\* DeleteVolumeSnapshot, with the VolumeSnapshot of the actual state.
StartDelete(u) ==
    /\ SnapshotExists(asw, u) /\ ~SnapshotExists(dsw, u)
    /\ deleting[u].at = "idle"
    /\ deleting' = [deleting EXCEPT ![u] = [at |-> "get", n |-> asw[u].data]]
    /\ UNCHANGED <<worldsKept, asw, diskKept, dataFor, attempts, creating, faults>>

\* getSnapshotDeleteFunc, its first call: missing data is an error.
GetDataToDelete(u) ==
    /\ deleting[u].at = "get"
    /\ \/ /\ IF HasData(deleting[u].n) THEN DeleteGoes(u, "disk") ELSE DeleteEnds(u)
          /\ Answers
       \/ /\ HasData(deleting[u].n)
          /\ DeleteEnds(u)
          /\ Fails
    /\ UNCHANGED <<worldsKept, asw, diskKept, dataFor, attempts, creating>>

DeleteDisk(u) ==
    /\ deleting[u].at = "disk"
    /\ \E o \in SnapshotDelete(deleting[u].n) :
        /\ disks' = [disks EXCEPT ![deleting[u].n] = o.disk]
        /\ IF o.answer = "ok" THEN DeleteGoes(u, "data") ELSE DeleteEnds(u)
        /\ IF o.fault THEN Fails ELSE Answers
    /\ UNCHANGED <<worldsKept, asw, plugin, dataFor, attempts, creating>>

\* The VolumeSnapshotData goes, and its VolumeSnapshot from the actual state.
DeleteData(u) ==
    /\ deleting[u].at = "data"
    /\ DeleteEnds(u)
    /\ \/ /\ HasData(deleting[u].n)
          /\ dataFor' = [dataFor EXCEPT ![deleting[u].n] = 0]
          /\ asw' = DeleteSnapshot(asw, u)
          /\ Answers
       \/ /\ HasData(deleting[u].n)
          /\ \/ dataFor' = [dataFor EXCEPT ![deleting[u].n] = 0]
             \/ UNCHANGED dataFor
          /\ UNCHANGED asw
          /\ Fails
    /\ UNCHANGED <<worldsKept, diskKept, attempts, creating>>
=============================================================================
