--------------------------- MODULE SnapshotWorlds ---------------------------
(***************************************************************************)
(* snapshot/pkg/controller: VolumeSnapshots in the API server, the watch,  *)
(* the informer's store and its handlers, the desired and the actual state *)
(* of the world, and the populator.  Snapshots of different names do not   *)
(* meet; here are the VolumeSnapshots that bear one name, one after the    *)
(* other, each with a UID of its own.  Caches are keyed by name and UID,   *)
(* the API server and the store by name alone.                             *)
(***************************************************************************)
EXTENDS SnapshotBackend, Sequences

CONSTANTS NoObject,
    MaxUID,      \* bound on the VolumeSnapshots users create
    MaxLag,      \* bound on the writes the watch may lag behind
    MaxRelists   \* bound on how often the watch is lost

UIDs == 1..MaxUID

VARIABLES
    object,    \* the VolumeSnapshot of this name in the API server
    created,   \* UIDs given out
    reports,   \* what object became, and the informer does not know yet
    store,     \* the informer's store
    dsw, asw,  \* desired and actual state of the world
    listed,    \* what the populator found in the store and has yet to add
    relists

worldVars == <<object, created, reports, store, dsw, asw, listed, relists>>

(***************************************************************************)
(* data: Spec.SnapshotDataName, 0 if empty; stamp: the time stamp label;   *)
(* cond: the last condition of Status, "new" if there is none.             *)
(***************************************************************************)
VolumeSnapshot ==
    [uid : UIDs, data : Attempts \cup {0}, stamp : Attempts \cup {0}, cond : Conditions]
MaybeSnapshot == VolumeSnapshot \cup {NoObject}

\* A map from MakeSnapshotName to VolumeSnapshots.
World == [UIDs -> MaybeSnapshot]
Empty == [u \in UIDs |-> NoObject]

WorldsTypeOK ==
    /\ object \in MaybeSnapshot
    /\ created \in UIDs \cup {0}
    /\ reports \in Seq(MaybeSnapshot)
    /\ store \in MaybeSnapshot
    /\ dsw \in World /\ asw \in World
    /\ listed \in MaybeSnapshot
    /\ relists \in 0..MaxRelists

WorldsInit ==
    /\ object = NoObject /\ created = 0
    /\ reports = <<>>
    /\ store = NoObject
    /\ dsw = Empty /\ asw = Empty
    /\ listed = NoObject
    /\ relists = 0

AddSnapshot(world, s) == [world EXCEPT ![s.uid] = s]
DeleteSnapshot(world, u) == [world EXCEPT ![u] = NoObject]
SnapshotExists(world, u) == world[u] # NoObject

-----------------------------------------------------------------------------
\* object becomes o, and the watch has one more write to report.
Write(o) ==
    /\ Len(reports) < MaxLag
    /\ object' = o
    /\ reports' = Append(reports, o)

UserCreates ==
    /\ object = NoObject
    /\ created + 1 \in UIDs
    /\ created' = created + 1
    /\ Write([uid |-> created + 1, data |-> 0, stamp |-> 0, cond |-> "new"])
    /\ UNCHANGED <<store, dsw, asw, listed, relists>>

UserDeletes ==
    /\ object # NoObject
    /\ Write(NoObject)
    /\ UNCHANGED <<created, store, dsw, asw, listed, relists>>

\* The watch is lost and the informer lists: it sees the last write only.
Relist ==
    /\ Len(reports) > 1
    /\ relists < MaxRelists
    /\ relists' = relists + 1
    /\ reports' = IF object = store THEN <<>> ELSE <<object>>
    /\ UNCHANGED <<object, created, store, dsw, asw, listed>>

-----------------------------------------------------------------------------
onSnapshotAdd(new) == dsw' = AddSnapshot(dsw, new)

\* An update that binds the snapshot replaces it; others are not kept.
onSnapshotUpdate(old, new) ==
    dsw' = IF old.data # new.data THEN AddSnapshot(dsw, new) ELSE dsw

\* Also with a tombstone (DeletedFinalStateUnknown).
onSnapshotDelete(old) == dsw' = DeleteSnapshot(dsw, old.uid)

\* The informer takes the next report: the store first, then the handler.
Informer ==
    /\ reports # <<>>
    /\ LET new == Head(reports) IN
        /\ store' = new
        /\ CASE store = NoObject /\ new # NoObject -> onSnapshotAdd(new)
             [] store # NoObject /\ new # NoObject -> onSnapshotUpdate(store, new)
             [] store # NoObject /\ new = NoObject -> onSnapshotDelete(store)
             [] OTHER -> UNCHANGED dsw
    /\ reports' = Tail(reports)
    /\ UNCHANGED <<object, created, asw, listed, relists>>

-----------------------------------------------------------------------------
\* Variant: the test of the store is inverted.
findAndRemoveDeletedSnapshots_Present(u) ==
    /\ SnapshotExists(dsw, u)
    /\ store # NoObject
    /\ dsw' = DeleteSnapshot(dsw, u)
    /\ UNCHANGED <<object, created, reports, store, asw, listed, relists>>

\* The store is asked by name: another UID of that name counts.
findAndRemoveDeletedSnapshots(u) ==
    /\ SnapshotExists(dsw, u)
    /\ store = NoObject
    /\ dsw' = DeleteSnapshot(dsw, u)
    /\ UNCHANGED <<object, created, reports, store, asw, listed, relists>>

\* findAndAddActiveSnapshots lists the store ...
ListActiveSnapshots ==
    /\ listed = NoObject /\ store # NoObject
    /\ listed' = store
    /\ UNCHANGED <<object, created, reports, store, dsw, asw, relists>>

\* ... and adds what it listed, if it is missing by now.
findAndAddActiveSnapshots ==
    /\ listed # NoObject
    /\ dsw' = IF SnapshotExists(dsw, listed.uid) THEN dsw ELSE AddSnapshot(dsw, listed)
    /\ listed' = NoObject
    /\ UNCHANGED <<object, created, reports, store, asw, relists>>

Populator ==
    \/ \E u \in UIDs : findAndRemoveDeletedSnapshots(u)
    \/ ListActiveSnapshots
    \/ findAndAddActiveSnapshots

\* A new process: what is present is listed before the reconciler starts.
WorldsRestart ==
    /\ store' = object
    /\ dsw' = IF object = NoObject THEN Empty ELSE AddSnapshot(Empty, object)
    /\ asw' = Empty
    /\ reports' = <<>>
    /\ listed' = NoObject
    /\ UNCHANGED <<object, created, relists>>
=============================================================================
