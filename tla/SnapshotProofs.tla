---------------------------- MODULE SnapshotProofs ----------------------------
(***************************************************************************)
(* Theorems about SnapshotController, for any number of attempts, faults,  *)
(* relists and restarts and any lag of the watch.                          *)
(***************************************************************************)
EXTENDS SnapshotController, TLAPS

-----------------------------------------------------------------------------
(***************************************************************************)
(* A name that is used once: its VolumeSnapshot, once deleted, does not    *)
(* come back, and there is one entry, one create and one delete operation. *)
(***************************************************************************)
UsedOnce == MaxUID = 1

\* What a cache or an operation may have seen of the VolumeSnapshot
Seen(s) == s # NoObject =>
    /\ s.cond # "new" => s.data # 0
    /\ s.data # 0 /\ object # NoObject => object.data # 0

SeenOK ==
    /\ Seen(object) /\ Seen(store) /\ Seen(listed)
    /\ \A i \in 1..Len(reports) : Seen(reports[i])
    /\ \A u \in UIDs : Seen(dsw[u])

\* Before the VolumeSnapshot is created nobody knows of it.
NotYetOK == created = 0 =>
    /\ object = NoObject /\ store = NoObject /\ listed = NoObject /\ reports = <<>>
    /\ \A u \in UIDs : /\ dsw[u] = NoObject /\ asw[u] = NoObject
                       /\ creating[u].at = "idle" /\ deleting[u].at = "idle"

\* While it is there, it is desired from the moment the informer knows of it, and
\* nothing of it is being deleted.
PresentOK == object # NoObject =>
    /\ \A i \in 1..Len(reports) : reports[i] # NoObject
    /\ store # NoObject => \A u \in UIDs : dsw[u] # NoObject
    /\ store = NoObject =>
         /\ listed = NoObject
         /\ \A u \in UIDs : dsw[u] = NoObject /\ asw[u] = NoObject /\ creating[u].at = "idle"
    /\ \A u \in UIDs : deleting[u].at = "idle"

\* What a create operation has in hand at its steps
InHandOK(op) ==
    /\ Seen(op.obj)
    /\ op.at = "idle" => op.obj = NoObject
    /\ op.at = "take" => op.n \in Attempts /\ op.n <= attempts /\ disks[op.n] = "none"
    /\ op.at \in {"post", "bind"} => op.n \in Attempts
    /\ op.at = "bind" /\ object # NoObject => HasData(op.n)
    /\ op.at \in {"get", "wait"} => op.obj # NoObject /\ op.obj.data # 0

CreatingOK == \A u \in UIDs : InHandOK(creating[u])

\* Attempts not begun have left nothing on disk.
UnusedOK == \A n \in Attempts : n > attempts => disks[n] = "none"

Inv ==
    /\ TypeOK /\ SeenOK /\ NotYetOK /\ PresentOK /\ CreatingOK /\ UnusedOK
    /\ BoundHasData /\ ActualIsBound

-----------------------------------------------------------------------------
(***************************************************************************)
(* What the plugins answer                                                 *)
(***************************************************************************)
LEMMA CreateOutcomes ==
    ASSUME plugin \in Plugins, NEW o \in SnapshotCreate
    PROVE  /\ o.disk \in DiskStates
           /\ o.answer \in {"pending", "ready", "error", "err"}
<1>1. CASE plugin \in {"hostPath", "glusterfs"}
  BY <1>1 DEF SnapshotCreate, HostPathCreate, GlusterCreate, Outcome, DiskStates
<1>2. CASE plugin = "aws_ebs"
  <2>1. PICK p \in EC2CreateSnapshot : o = Answered(p, convertAWSStatus)
    BY <1>2 DEF SnapshotCreate, AWSCreate
  <2> QED
    BY <2>1 DEF EC2CreateSnapshot, Outcome, Answered, convertAWSStatus, DiskStates
<1>3. CASE plugin = "gce-pd"
  <2>1. PICK p \in GCECreateSnapshot : o = Answered(p, convertGCEStatus)
    BY <1>3 DEF SnapshotCreate, GCECreate
  <2> QED
    BY <2>1 DEF GCECreateSnapshot, Outcome, Answered, convertGCEStatus, DiskStates
<1>4. CASE plugin = "cinder"
  <2>1. PICK p \in createSnapshot : o = Answered(p, convertSnapshotStatus)
    BY <1>4 DEF SnapshotCreate, CinderCreate
  <2> QED
    BY <2>1 DEF createSnapshot, Outcome, Answered, convertSnapshotStatus, DiskStates
<1> QED
  BY <1>1, <1>2, <1>3, <1>4 DEF Plugins

LEMMA DeleteOutcomes ==
    ASSUME BackendTypeOK, NEW n \in Attempts, NEW o \in SnapshotDelete(n)
    PROVE  o.disk \in DiskStates
<1>1. disks[n] \in DiskStates /\ "deleted" \in DiskStates
  BY DEF BackendTypeOK, DiskStates
<1>2. CASE plugin = "cinder" /\ Exists(n)
  <2>1. PICK p \in Removal(n) : o = [p EXCEPT !.answer = "ok"]
    BY <1>2 DEF SnapshotDelete, CinderDelete
  <2> QED
    BY <1>1, <2>1 DEF Removal, Outcome
<1>3. CASE ~ (plugin = "cinder" /\ Exists(n))
  BY <1>1, <1>3
  DEF SnapshotDelete, BackendTypeOK, Plugins, HostPathDelete, GlusterDelete, AWSDelete, GCEDelete,
      CinderDelete, Removal, Outcome
<1> QED
  BY <1>2, <1>3

LEMMA DescribesCondition ==
    ASSUME plugin \in Plugins, NEW n
    PROVE  DescribeSnapshot(n) \in {"pending", "ready", "error", "err"}
BY DEF DescribeSnapshot, Plugins, HostPathDescribe, GlusterDescribe, AWSDescribe, GCEDescribe,
       CinderDescribe, Described, EC2DescribeSnapshot, getSnapshotByName, getSnapshot,
       convertAWSStatus, convertGCEStatus, convertSnapshotStatus

-----------------------------------------------------------------------------
(***************************************************************************)
(* The types of the helpers                                                *)
(***************************************************************************)
LEMMA WorldTypes ==
    ASSUME NEW world \in World
    PROVE  /\ \A s \in MaybeSnapshot : AddSnapshot(world, s) \in World
           /\ \A u : DeleteSnapshot(world, u) \in World
           /\ Empty \in World
BY DEF World, AddSnapshot, DeleteSnapshot, Empty, MaybeSnapshot

LEMMA SnapshotTypes ==
    ASSUME NEW s \in MaybeSnapshot, s # NoObject
    PROVE  /\ s \in VolumeSnapshot
           /\ s.uid \in UIDs /\ s.data \in Attempts \cup {0} /\ s.cond \in Conditions
           /\ \A n \in Attempts \cup {0} :
                [s EXCEPT !.stamp = n] \in VolumeSnapshot /\ [s EXCEPT !.data = n] \in VolumeSnapshot
           /\ \A c \in Conditions : [s EXCEPT !.cond = c] \in VolumeSnapshot
           /\ \A n \in Attempts \cup {0}, c \in Conditions :
                BoundTo(s, n, c) \in VolumeSnapshot
BY DEF MaybeSnapshot, VolumeSnapshot, BoundTo

LEMMA WriteTypes ==
    ASSUME WorldsTypeOK, NEW o \in MaybeSnapshot, Write(o)
    PROVE  /\ object' \in MaybeSnapshot /\ reports' \in Seq(MaybeSnapshot)
           /\ Len(reports') = Len(reports) + 1
           /\ \A i \in 1..Len(reports) : reports'[i] = reports[i]
           /\ reports'[Len(reports) + 1] = o
BY DEF WorldsTypeOK, Write

LEMMA CreateTypes ==
    ASSUME creating \in [UIDs -> CreateOp], NEW u \in UIDs
    PROVE  /\ CreateEnds(u) => /\ creating' \in [UIDs -> CreateOp]
                               /\ creating'[u] = NoCreate
                               /\ \A v \in UIDs \ {u} : creating'[v] = creating[v]
           /\ \A op \in CreateOp : [creating EXCEPT ![u] = op] \in [UIDs -> CreateOp]
           /\ NoCreate \in CreateOp /\ NoCreate.at = "idle" /\ NoCreate.obj = NoObject
<1>1. NoCreate \in CreateOp /\ NoCreate.at = "idle" /\ NoCreate.obj = NoObject
  BY DEF NoCreate, CreateOp, CreateSteps, Conditions, MaybeSnapshot
<1>2. \A op \in CreateOp : [creating EXCEPT ![u] = op] \in [UIDs -> CreateOp]
  OBVIOUS
<1> QED
  BY <1>1, <1>2 DEF CreateEnds

LEMMA CreateGoesTypes ==
    ASSUME creating \in [UIDs -> CreateOp], NEW u \in UIDs, NEW step \in CreateSteps,
           CreateGoes(u, step)
    PROVE  /\ creating' \in [UIDs -> CreateOp]
           /\ creating'[u] = [creating[u] EXCEPT !.at = step]
           /\ creating'[u].at = step /\ creating'[u].n = creating[u].n
           /\ creating'[u].obj = creating[u].obj /\ creating'[u].cond = creating[u].cond
           /\ \A v \in UIDs \ {u} : creating'[v] = creating[v]
<1> DEFINE op == [creating[u] EXCEPT !.at = step]
<1>1. op \in CreateOp /\ op.at = step /\ op.n = creating[u].n
        /\ op.obj = creating[u].obj /\ op.cond = creating[u].cond
  BY DEF CreateOp
<1>2. creating' = [creating EXCEPT ![u] = op]
  BY DEF CreateGoes
<1> HIDE DEF op
<1>3. creating' \in [UIDs -> CreateOp] /\ creating'[u] = op
        /\ \A v \in UIDs \ {u} : creating'[v] = creating[v]
  BY <1>1, <1>2
<1> QED
  BY <1>1, <1>3 DEF op

LEMMA DeleteTypes ==
    ASSUME deleting \in [UIDs -> DeleteOp], NEW u \in UIDs
    PROVE  /\ DeleteEnds(u) => deleting' \in [UIDs -> DeleteOp]
           /\ \A step \in DeleteSteps : DeleteGoes(u, step) => deleting' \in [UIDs -> DeleteOp]
           /\ \A op \in DeleteOp : [deleting EXCEPT ![u] = op] \in [UIDs -> DeleteOp]
           /\ NoDelete \in DeleteOp
<1>1. NoDelete \in DeleteOp
  BY DEF NoDelete, DeleteOp, DeleteSteps
<1>2. \A op \in DeleteOp : [deleting EXCEPT ![u] = op] \in [UIDs -> DeleteOp]
  OBVIOUS
<1>3. ASSUME NEW step \in DeleteSteps, DeleteGoes(u, step)
      PROVE  deleting' \in [UIDs -> DeleteOp]
  <2>1. [deleting[u] EXCEPT !.at = step] \in DeleteOp
    BY DEF DeleteOp
  <2>2. deleting' = [deleting EXCEPT ![u] = [deleting[u] EXCEPT !.at = step]]
    BY <1>3 DEF DeleteGoes
  <2> QED
    BY <2>1, <2>2
<1> QED
  BY <1>1, <1>2, <1>3 DEF DeleteEnds

-----------------------------------------------------------------------------
(***************************************************************************)
(* Types                                                                   *)
(***************************************************************************)
LEMMA InitType == Init => TypeOK
<1> SUFFICES ASSUME Init PROVE TypeOK
  OBVIOUS
<1>1. BackendTypeOK
  BY DEF Init, BackendInit, BackendTypeOK, DiskStates
<1>2. WorldsTypeOK
  <2>1. Empty \in World
    BY DEF Empty, World, MaybeSnapshot
  <2> QED
    BY <2>1, SnapshotAssumption DEF Init, WorldsInit, WorldsTypeOK, MaybeSnapshot
<1>3. SnapshotterTypeOK
  <2>1. NoCreate \in CreateOp /\ NoDelete \in DeleteOp
    BY DEF NoCreate, CreateOp, CreateSteps, Conditions, MaybeSnapshot, NoDelete, DeleteOp, DeleteSteps
  <2> QED
    BY <2>1, SnapshotAssumption DEF Init, SnapshotterInit, SnapshotterTypeOK
<1> QED
  BY <1>1, <1>2, <1>3, SnapshotAssumption DEF Init, TypeOK

\* The API server, the watch, the informer and the populator
LEMMA WorldsType ==
    ASSUME WorldsTypeOK,
           UserCreates \/ UserDeletes \/ Informer \/ Relist \/ Populator \/ WorldsRestart
    PROVE  WorldsTypeOK'
<1>0. /\ object \in MaybeSnapshot /\ created \in UIDs \cup {0} /\ reports \in Seq(MaybeSnapshot)
      /\ store \in MaybeSnapshot /\ dsw \in World /\ asw \in World
      /\ listed \in MaybeSnapshot /\ relists \in 0..MaxRelists /\ NoObject \in MaybeSnapshot
  BY DEF WorldsTypeOK, MaybeSnapshot
<1>1. CASE UserCreates
  <2> DEFINE o == [uid |-> created + 1, data |-> 0, stamp |-> 0, cond |-> "new"]
  <2>1. o \in MaybeSnapshot
    BY <1>1 DEF UserCreates, MaybeSnapshot, VolumeSnapshot, Conditions
  <2> QED
    BY <1>0, <1>1, <2>1, WriteTypes DEF UserCreates, WorldsTypeOK
<1>2. CASE UserDeletes
  BY <1>0, <1>2, WriteTypes DEF UserDeletes, WorldsTypeOK
<1>3. CASE Informer
  <2>1. Head(reports) \in MaybeSnapshot /\ Tail(reports) \in Seq(MaybeSnapshot)
    BY <1>0, <1>3 DEF Informer
  <2>2. dsw' \in World
    BY <1>0, <1>3, <2>1, WorldTypes
    DEF Informer, onSnapshotAdd, onSnapshotUpdate, onSnapshotDelete
  <2> QED
    BY <1>0, <1>3, <2>1, <2>2 DEF Informer, WorldsTypeOK
<1>4. CASE Relist
  <2>1. reports' \in Seq(MaybeSnapshot)
    BY <1>0, <1>4 DEF Relist
  <2>2. relists' \in 0..MaxRelists
    BY <1>0, <1>4, SnapshotAssumption DEF Relist
  <2> QED
    BY <1>0, <1>4, <2>1, <2>2 DEF Relist, WorldsTypeOK
<1>5. CASE Populator
  BY <1>0, <1>5, WorldTypes
  DEF Populator, findAndRemoveDeletedSnapshots, ListActiveSnapshots, findAndAddActiveSnapshots,
      WorldsTypeOK
<1>6. CASE WorldsRestart
  <2>1. Empty \in World
    BY DEF Empty, World, MaybeSnapshot
  <2>2. dsw' \in World /\ asw' \in World
    BY <1>0, <1>6, <2>1, WorldTypes DEF WorldsRestart
  <2>3. reports' \in Seq(MaybeSnapshot)
    BY <1>6 DEF WorldsRestart
  <2> QED
    BY <1>0, <1>6, <2>2, <2>3 DEF WorldsRestart, WorldsTypeOK
<1> QED
  BY <1>1, <1>2, <1>3, <1>4, <1>5, <1>6

LEMMA FaultsType ==
    ASSUME faults \in 0..MaxFaults, Fails \/ Answers
    PROVE  faults' \in 0..MaxFaults
BY SnapshotAssumption DEF Fails, Answers

LEMMA CreateStepType ==
    ASSUME TypeOK, NEW u \in UIDs, StartCreate(u) \/ CreateStep(u) \/ WaitTimesOut(u)
    PROVE  BackendTypeOK' /\ WorldsTypeOK' /\ SnapshotterTypeOK'
<1>0. /\ BackendTypeOK /\ WorldsTypeOK /\ SnapshotterTypeOK
      /\ creating \in [UIDs -> CreateOp] /\ faults \in 0..MaxFaults
      /\ object \in MaybeSnapshot /\ dsw \in World /\ asw \in World
      /\ attempts \in Attempts \cup {0} /\ dataFor \in [Attempts -> UIDs \cup {0}]
      /\ disks \in [Attempts -> DiskStates] /\ plugin \in Plugins
  BY DEF TypeOK, BackendTypeOK, WorldsTypeOK, SnapshotterTypeOK
<1>1. dsw[u] \in MaybeSnapshot /\ creating[u] \in CreateOp
  BY <1>0 DEF World
<1>2. creating[u].obj \in MaybeSnapshot /\ creating[u].n \in Attempts \cup {0}
        /\ creating[u].cond \in Conditions
  BY <1>1 DEF CreateOp
<1>3. \A n \in Attempts \cup {0} : n \in Nat
  BY SnapshotAssumption DEF Attempts
<1>4. {"idle", "list", "find", "stamp", "take", "post", "bind", "get", "wait"} \subseteq CreateSteps
        /\ {"new", "pending", "ready", "error"} \subseteq Conditions
  BY DEF CreateSteps, Conditions
<1>5. CASE StartCreate(u)
  <2>1. SnapshotExists(dsw, u) /\ dsw[u] # NoObject
    BY <1>5 DEF StartCreate, SnapshotExists
  <2>2. asw' \in World
    BY <1>0, <1>1, <1>5, WorldTypes DEF StartCreate
  <2>3. [NoCreate EXCEPT !.at = "list", !.obj = dsw[u]] \in CreateOp
    BY <1>1, <1>4, CreateTypes, <1>0 DEF NoCreate, CreateOp
  <2>4. [NoCreate EXCEPT !.at = "get", !.obj = dsw[u], !.n = dsw[u].data] \in CreateOp
    BY <1>1, <1>4, <2>1, CreateTypes, <1>0, SnapshotTypes DEF NoCreate, CreateOp
  <2>5. creating' \in [UIDs -> CreateOp]
    BY <1>0, <1>5, <2>3, <2>4, CreateTypes DEF StartCreate
  <2> QED
    BY <1>0, <1>5, <2>2, <2>5
    DEF StartCreate, worldsKept, diskKept, BackendTypeOK, WorldsTypeOK, SnapshotterTypeOK
<1>6. CASE ListData(u)
  <2>1. creating' \in [UIDs -> CreateOp]
    <3>1. ASSUME NEW n \in Attempts, creating' = [creating EXCEPT ![u].at = "bind", ![u].n = n]
          PROVE  creating' \in [UIDs -> CreateOp]
      <4>1. [creating[u] EXCEPT !.at = "bind", !.n = n] \in CreateOp
        BY <1>1, <1>4 DEF CreateOp
      <4>2. creating' = [creating EXCEPT ![u] = [creating[u] EXCEPT !.at = "bind", !.n = n]]
        BY <1>0, <3>1
      <4> QED
        BY <1>0, <4>1, <4>2, CreateTypes
    <3> QED
      BY <1>0, <1>4, <1>6, <3>1, CreateGoesTypes DEF ListData
  <2> QED
    BY <1>0, <1>6, <2>1, FaultsType
    DEF ListData, worldsKept, diskKept, BackendTypeOK, WorldsTypeOK, SnapshotterTypeOK
<1>7. CASE FindByTags(u)
  <2>1. creating' \in [UIDs -> CreateOp]
    BY <1>0, <1>4, <1>7, CreateGoesTypes, CreateTypes DEF FindByTags
  <2> QED
    BY <1>0, <1>7, <2>1, FaultsType
    DEF FindByTags, worldsKept, diskKept, BackendTypeOK, WorldsTypeOK, SnapshotterTypeOK
<1>8. CASE Stamp(u)
  <2>1. CASE /\ object # NoObject /\ attempts + 1 \in Attempts /\ attempts' = attempts + 1
             /\ Write([object EXCEPT !.stamp = attempts + 1])
             /\ creating' = [creating EXCEPT ![u].at = "take", ![u].n = attempts + 1]
             /\ Answers
    <3>1. [object EXCEPT !.stamp = attempts + 1] \in MaybeSnapshot
      BY <1>0, <2>1, SnapshotTypes DEF MaybeSnapshot
    <3>2. object' \in MaybeSnapshot /\ reports' \in Seq(MaybeSnapshot)
      BY <1>0, <2>1, <3>1, WriteTypes
    <3>3. creating' \in [UIDs -> CreateOp]
      <4>1. [creating[u] EXCEPT !.at = "take", !.n = attempts + 1] \in CreateOp
        BY <1>1, <1>4, <2>1 DEF CreateOp
      <4>2. creating' = [creating EXCEPT ![u] = [creating[u] EXCEPT !.at = "take", !.n = attempts + 1]]
        BY <1>0, <2>1
      <4> QED
        BY <1>0, <4>1, <4>2, CreateTypes
    <3> QED
      BY <1>0, <1>8, <2>1, <3>2, <3>3, FaultsType
      DEF Stamp, diskKept, BackendTypeOK, WorldsTypeOK, SnapshotterTypeOK
  <2>2. CASE /\ IF object = NoObject THEN Answers ELSE Fails
             /\ CreateEnds(u)
             /\ UNCHANGED <<attempts, object, reports>>
    <3>1. creating' \in [UIDs -> CreateOp]
      BY <1>0, <2>2, CreateTypes
    <3> QED
      BY <1>0, <1>8, <2>2, <3>1, FaultsType
      DEF Stamp, diskKept, BackendTypeOK, WorldsTypeOK, SnapshotterTypeOK
  <2> QED
    BY <1>8, <2>1, <2>2 DEF Stamp
<1>9. CASE Take(u)
  <2>1. PICK o \in SnapshotCreate :
          /\ disks' = [disks EXCEPT ![creating[u].n] = o.disk]
          /\ IF o.answer = "err" THEN CreateEnds(u)
             ELSE creating' = [creating EXCEPT ![u].at = "post", ![u].cond = o.answer]
          /\ IF o.fault THEN Fails ELSE Answers
    BY <1>9 DEF Take
  <2>2. o.disk \in DiskStates /\ o.answer \in {"pending", "ready", "error", "err"}
    BY <1>0, CreateOutcomes
  <2>3. disks' \in [Attempts -> DiskStates]
    BY <1>0, <2>1, <2>2
  <2>4. creating' \in [UIDs -> CreateOp]
    <3>1. CASE o.answer # "err"
      <4>1. [creating[u] EXCEPT !.at = "post", !.cond = o.answer] \in CreateOp
        BY <1>1, <1>4, <2>2, <3>1 DEF CreateOp
      <4>2. creating' = [creating EXCEPT ![u] = [creating[u] EXCEPT !.at = "post", !.cond = o.answer]]
        BY <1>0, <2>1, <3>1
      <4> QED
        BY <1>0, <4>1, <4>2, CreateTypes
    <3> QED
      BY <1>0, <2>1, <3>1, CreateTypes
  <2> QED
    BY <1>0, <1>9, <2>1, <2>3, <2>4, FaultsType
    DEF Take, worldsKept, BackendTypeOK, WorldsTypeOK, SnapshotterTypeOK
<1>10. CASE PostData(u)
  <2>1. creating' \in [UIDs -> CreateOp]
    BY <1>0, <1>4, <1>10, CreateGoesTypes, CreateTypes DEF PostData
  <2>2. dataFor' \in [Attempts -> UIDs \cup {0}]
    BY <1>0, <1>10 DEF PostData
  <2> QED
    BY <1>0, <1>10, <2>1, <2>2, FaultsType
    DEF PostData, worldsKept, diskKept, BackendTypeOK, WorldsTypeOK, SnapshotterTypeOK
<1>11. CASE bindandUpdate(u)
  <2> DEFINE op == creating[u]
             bound == BoundTo(object, op.n, op.cond)
             next == IF op.cond = "new" THEN "get" ELSE "wait"
  <2>1. CASE /\ object # NoObject
             /\ Write(bound)
             /\ creating' = [creating EXCEPT ![u].at = next, ![u].obj = bound]
             /\ Answers
    <3>1. bound \in MaybeSnapshot
      BY <1>0, <1>2, <2>1, SnapshotTypes DEF MaybeSnapshot
    <3>2. object' \in MaybeSnapshot /\ reports' \in Seq(MaybeSnapshot)
      BY <1>0, <2>1, <3>1, WriteTypes
    <3> HIDE DEF bound
    <3>3. creating' \in [UIDs -> CreateOp]
      <4>0. next \in CreateSteps
        BY <1>4
      <4> HIDE DEF next
      <4>1. [creating[u] EXCEPT !.at = next, !.obj = bound] \in CreateOp
        BY <1>1, <3>1, <4>0 DEF CreateOp
      <4>2. creating' = [creating EXCEPT ![u] = [creating[u] EXCEPT !.at = next, !.obj = bound]]
        BY <1>0, <2>1
      <4> QED
        BY <1>0, <4>1, <4>2, CreateTypes
    <3> QED
      BY <1>0, <1>11, <2>1, <3>2, <3>3, FaultsType
      DEF bindandUpdate, diskKept, BackendTypeOK, WorldsTypeOK, SnapshotterTypeOK
  <2>2. CASE /\ IF object = NoObject THEN Answers ELSE Fails
             /\ CreateEnds(u)
             /\ UNCHANGED <<object, reports>>
    <3>1. creating' \in [UIDs -> CreateOp]
      BY <1>0, <2>2, CreateTypes
    <3> QED
      BY <1>0, <1>11, <2>2, <3>1, FaultsType
      DEF bindandUpdate, diskKept, BackendTypeOK, WorldsTypeOK, SnapshotterTypeOK
  <2> QED
    BY <1>11, <2>1, <2>2 DEF bindandUpdate
<1>12. CASE GetData(u)
  <2>1. creating' \in [UIDs -> CreateOp]
    BY <1>0, <1>4, <1>12, CreateGoesTypes, CreateTypes DEF GetData
  <2> QED
    BY <1>0, <1>12, <2>1, FaultsType
    DEF GetData, worldsKept, diskKept, BackendTypeOK, WorldsTypeOK, SnapshotterTypeOK
<1>13. CASE WaitForSnapshot(u)
  <2> DEFINE c == DescribeSnapshot(creating[u].n)
  <2>1. c \in Conditions
    BY <1>0, <1>4, <1>13, DescribesCondition DEF WaitForSnapshot
  <2> HIDE DEF c
  <2>2. CASE UpdateStatus(u, c)
    <3>1. [object EXCEPT !.cond = c] \in MaybeSnapshot
      BY <1>0, <2>1, <2>2, SnapshotTypes DEF UpdateStatus, MaybeSnapshot
    <3>2. object' \in MaybeSnapshot /\ reports' \in Seq(MaybeSnapshot)
      BY <1>0, <2>2, <3>1, WriteTypes DEF UpdateStatus
    <3>3. asw' \in World
      BY <1>0, <2>2, <3>1, WorldTypes DEF UpdateStatus
    <3>4. creating' \in [UIDs -> CreateOp]
      BY <1>0, <2>2, CreateTypes DEF UpdateStatus
    <3> QED
      BY <1>0, <1>13, <2>2, <3>2, <3>3, <3>4, FaultsType
      DEF UpdateStatus, WaitForSnapshot, diskKept, BackendTypeOK, WorldsTypeOK, SnapshotterTypeOK
  <2>3. CASE StatusIsEqual(u, c) \/ StatusFails(u, c)
    <3>1. asw' \in World
      BY <1>0, <1>2, <2>3, WorldTypes DEF StatusIsEqual, StatusFails
    <3>2. creating' \in [UIDs -> CreateOp]
      BY <1>0, <2>3, CreateTypes DEF StatusIsEqual, StatusFails
    <3>3. faults' \in 0..MaxFaults /\ UNCHANGED <<object, reports>>
      BY <1>0, <2>3, FaultsType DEF StatusIsEqual, StatusFails
    <3> QED
      BY <1>0, <1>13, <3>1, <3>2, <3>3
      DEF WaitForSnapshot, diskKept, BackendTypeOK, WorldsTypeOK, SnapshotterTypeOK
  <2> QED
    BY <1>13, <2>2, <2>3 DEF WaitForSnapshot, c
<1>14. CASE WaitTimesOut(u)
  <2>1. creating' \in [UIDs -> CreateOp]
    BY <1>0, <1>14, CreateTypes DEF WaitTimesOut
  <2> QED
    BY <1>0, <1>14, <2>1
    DEF WaitTimesOut, worldsKept, diskKept, BackendTypeOK, WorldsTypeOK, SnapshotterTypeOK
<1> QED
  BY <1>5, <1>6, <1>7, <1>8, <1>9, <1>10, <1>11, <1>12, <1>13, <1>14 DEF CreateStep

LEMMA DeleteStepType ==
    ASSUME TypeOK, NEW u \in UIDs, StartDelete(u) \/ DeleteStep(u)
    PROVE  BackendTypeOK' /\ WorldsTypeOK' /\ SnapshotterTypeOK'
<1>0. /\ BackendTypeOK /\ WorldsTypeOK /\ SnapshotterTypeOK
      /\ deleting \in [UIDs -> DeleteOp] /\ faults \in 0..MaxFaults
      /\ asw \in World /\ dataFor \in [Attempts -> UIDs \cup {0}]
      /\ disks \in [Attempts -> DiskStates]
  BY DEF TypeOK, BackendTypeOK, WorldsTypeOK, SnapshotterTypeOK
<1>1. {"get", "disk", "data"} \subseteq DeleteSteps
  BY DEF DeleteSteps
<1>2. CASE StartDelete(u)
  <2>1. asw[u] \in MaybeSnapshot /\ asw[u] # NoObject
    BY <1>0, <1>2 DEF StartDelete, SnapshotExists, World
  <2>2. [at |-> "get", n |-> asw[u].data] \in DeleteOp
    BY <1>1, <2>1, SnapshotTypes DEF DeleteOp
  <2>3. deleting' \in [UIDs -> DeleteOp]
    BY <1>0, <1>2, <2>2, DeleteTypes DEF StartDelete
  <2> QED
    BY <1>0, <1>2, <2>3
    DEF StartDelete, worldsKept, diskKept, BackendTypeOK, WorldsTypeOK, SnapshotterTypeOK
<1>3. CASE GetDataToDelete(u)
  <2>1. deleting' \in [UIDs -> DeleteOp]
    BY <1>0, <1>1, <1>3, DeleteTypes DEF GetDataToDelete
  <2> QED
    BY <1>0, <1>3, <2>1, FaultsType
    DEF GetDataToDelete, worldsKept, diskKept, BackendTypeOK, WorldsTypeOK, SnapshotterTypeOK
<1>4. CASE DeleteDisk(u)
  <2>1. PICK o \in SnapshotDelete(deleting[u].n) :
          /\ disks' = [disks EXCEPT ![deleting[u].n] = o.disk]
          /\ IF o.answer = "ok" THEN DeleteGoes(u, "data") ELSE DeleteEnds(u)
          /\ IF o.fault THEN Fails ELSE Answers
    BY <1>4 DEF DeleteDisk
  <2>2. disks' \in [Attempts -> DiskStates]
    <3>1. CASE deleting[u].n \in Attempts
      <4>1. o.disk \in DiskStates
        BY <1>0, <3>1, DeleteOutcomes
      <4> QED
        BY <1>0, <2>1, <4>1
    <3>2. CASE deleting[u].n \notin Attempts
      BY <1>0, <2>1, <3>2
    <3> QED
      BY <3>1, <3>2
  <2>3. deleting' \in [UIDs -> DeleteOp]
    BY <1>0, <1>1, <2>1, DeleteTypes
  <2> QED
    BY <1>0, <1>4, <2>1, <2>2, <2>3, FaultsType
    DEF DeleteDisk, worldsKept, BackendTypeOK, WorldsTypeOK, SnapshotterTypeOK
<1>5. CASE DeleteData(u)
  <2>1. deleting' \in [UIDs -> DeleteOp]
    BY <1>0, <1>5, DeleteTypes DEF DeleteData
  <2>2. dataFor' \in [Attempts -> UIDs \cup {0}] /\ asw' \in World
    BY <1>0, <1>5, WorldTypes DEF DeleteData
  <2> QED
    BY <1>0, <1>5, <2>1, <2>2, FaultsType
    DEF DeleteData, worldsKept, diskKept, BackendTypeOK, WorldsTypeOK, SnapshotterTypeOK
<1> QED
  BY <1>2, <1>3, <1>4, <1>5 DEF DeleteStep

LEMMA StepType ==
    ASSUME TypeOK, [Next]_vars
    PROVE  TypeOK'
<1>0. BackendTypeOK /\ WorldsTypeOK /\ SnapshotterTypeOK /\ restarts \in 0..MaxRestarts
  BY DEF TypeOK
<1>1. ASSUME User \/ Watch \/ Populate, UNCHANGED restarts PROVE TypeOK'
  <2>1. WorldsTypeOK' /\ UNCHANGED <<plugin, disks, snapshotterKept>>
    BY <1>0, <1>1, WorldsType DEF User, Watch, Populate
  <2> QED
    BY <1>0, <1>1, <2>1 DEF TypeOK, BackendTypeOK, SnapshotterTypeOK, snapshotterKept, opVars
<1>2. ASSUME Storage, UNCHANGED restarts PROVE TypeOK'
  <2>1. BackendTypeOK'
    BY <1>0, <1>2 DEF Storage, Completes, BackendTypeOK, DiskStates
  <2> QED
    BY <1>0, <1>2, <2>1
    DEF Storage, TypeOK, WorldsTypeOK, worldVars, SnapshotterTypeOK, snapshotterKept, opVars
<1>3. ASSUME NEW u \in UIDs, Reconcile(u) \/ CreateStep(u) \/ WaitTimesOut(u) \/ DeleteStep(u),
             UNCHANGED restarts
      PROVE  TypeOK'
  BY <1>0, <1>3, CreateStepType, DeleteStepType DEF Reconcile, TypeOK
<1>4. CASE Restart
  <2>1. WorldsTypeOK'
    BY <1>0, <1>4, WorldsType DEF Restart
  <2>2. NoCreate \in CreateOp /\ NoDelete \in DeleteOp
    BY DEF NoCreate, CreateOp, CreateSteps, Conditions, MaybeSnapshot, NoDelete, DeleteOp, DeleteSteps
  <2>3. restarts' \in 0..MaxRestarts
    BY <1>0, <1>4, SnapshotAssumption DEF Restart
  <2> QED
    BY <1>0, <1>4, <2>1, <2>2, <2>3 DEF Restart, TypeOK, BackendTypeOK, SnapshotterTypeOK
<1>5. CASE UNCHANGED vars
  BY <1>0, <1>5
  DEF vars, worldVars, opVars, TypeOK, BackendTypeOK, WorldsTypeOK, SnapshotterTypeOK
<1> QED
  BY <1>1, <1>2, <1>3, <1>4, <1>5 DEF Next

(***************************************************************************)
(* The caches of the controller, its operations and the snapshots on disk  *)
(* stay within their types, however often a name is used.                  *)
(***************************************************************************)
THEOREM SnapshotTypeCorrect == Spec => []TypeOK
BY InitType, StepType, PTL DEF Spec

-----------------------------------------------------------------------------
(***************************************************************************)
(* Of a name that is used once there is one UID.                           *)
(***************************************************************************)
LEMMA OneUID ==
    ASSUME UsedOnce
    PROVE  /\ UIDs = {1}
           /\ \A s \in VolumeSnapshot : s.uid = 1
           /\ \A world \in World, s \in VolumeSnapshot, u \in UIDs : AddSnapshot(world, s)[u] = s
           /\ \A world \in World, s, u \in UIDs : DeleteSnapshot(world, s)[u] = NoObject
           /\ \A u \in UIDs : Empty[u] = NoObject
<1>1. UIDs = {1}
  BY DEF UsedOnce, UIDs
<1>2. \A s \in VolumeSnapshot : s.uid = 1
  BY <1>1 DEF VolumeSnapshot
<1> QED
  BY <1>1, <1>2 DEF World, AddSnapshot, DeleteSnapshot, Empty

\* A create operation goes on or ends, and nothing else changes.
LEMMA OpMoves ==
    ASSUME UsedOnce, Inv, TypeOK', NEW u \in UIDs,
           UNCHANGED <<worldVars, disks, dataFor, attempts, deleting>>,
           creating[u].at # "idle", InHandOK(creating[u])'
    PROVE  Inv'
<1> USE DEF worldVars
<1>0. UIDs = {u}
  BY OneUID
<1>1. created # 0
  BY DEF Inv, NotYetOK
<1>2. SeenOK' /\ NotYetOK'
  BY <1>1 DEF Inv, SeenOK, Seen, NotYetOK
<1>3. PresentOK'
  BY <1>0 DEF Inv, PresentOK
<1>4. CreatingOK'
  BY <1>0 DEF CreatingOK
<1>5. UnusedOK' /\ BoundHasData' /\ ActualIsBound'
  BY DEF Inv, UnusedOK, BoundHasData, Bound, HasData, ActualIsBound, SnapshotExists
<1> QED
  BY <1>2, <1>3, <1>4, <1>5 DEF Inv

LEMMA EndedInHand ==
    ASSUME creating \in [UIDs -> CreateOp], NEW u \in UIDs, CreateEnds(u)
    PROVE  InHandOK(creating[u])'
<1>1. creating'[u] = NoCreate
  BY CreateTypes
<1>2. NoCreate.at = "idle" /\ NoCreate.obj = NoObject
  BY DEF NoCreate
<1> QED
  BY <1>1, <1>2 DEF InHandOK, Seen

\* A create operation writes the VolumeSnapshot.
LEMMA OpWrites ==
    ASSUME UsedOnce, Inv, TypeOK', NEW u \in UIDs, creating[u].at # "idle",
           object # NoObject, NEW o \in VolumeSnapshot, Write(o),
           o.cond # "new" => o.data # 0,
           object.data # 0 => o.data # 0,
           o.data # 0 => HasData(o.data),
           UNCHANGED <<created, store, dsw, listed, disks, dataFor, deleting>>,
           \A v \in UIDs : asw'[v] = asw[v] \/ asw'[v].data # 0,
           attempts' \in {attempts, attempts + 1},
           InHandOK(creating[u])'
    PROVE  Inv'
<1>0. UIDs = {u}
  BY OneUID
<1>1. o # NoObject
  BY SnapshotAssumption
<1>2. /\ object' = o /\ Len(reports') = Len(reports) + 1 /\ Len(reports) \in Nat
      /\ \A i \in 1..Len(reports) : reports'[i] = reports[i]
      /\ reports'[Len(reports) + 1] = o
  <2>1. WorldsTypeOK /\ o \in MaybeSnapshot
    BY DEF Inv, TypeOK, MaybeSnapshot
  <2>2. Len(reports) \in Nat
    BY <2>1 DEF WorldsTypeOK
  <2> QED
    BY <2>1, <2>2, WriteTypes DEF Write
<1>3. \A i \in 1..Len(reports') : i \in 1..Len(reports) \/ reports'[i] = o
  BY <1>2
<1>4. ASSUME NEW s, Seen(s) PROVE Seen(s)'
  BY <1>1, <1>2, <1>4 DEF Seen
<1>5. Seen(o)'
  BY <1>2 DEF Seen
<1>6. SeenOK'
  <2>1. Seen(object)'
    BY <1>2, <1>5 DEF Seen
  <2>2. Seen(store)' /\ Seen(listed)' /\ \A v \in UIDs : Seen(dsw[v])'
    <3>1. Seen(store) /\ Seen(listed) /\ \A v \in UIDs : Seen(dsw[v])
      BY DEF Inv, SeenOK
    <3> QED
      BY <3>1, <1>1, <1>2 DEF Seen
  <2>3. ASSUME NEW i \in 1..Len(reports') PROVE Seen(reports[i])'
    <3>1. CASE i \in 1..Len(reports)
      <4>1. Seen(reports[i]) /\ reports'[i] = reports[i]
        BY <1>2, <3>1 DEF Inv, SeenOK
      <4> QED
        BY <1>1, <1>2, <4>1 DEF Seen
    <3>2. CASE reports'[i] = o
      BY <1>5, <3>2 DEF Seen
    <3> QED
      BY <1>3, <3>1, <3>2
  <2> QED
    BY <2>1, <2>2, <2>3 DEF SeenOK
<1>7. NotYetOK'
  BY DEF Inv, NotYetOK
<1>8. PresentOK'
  <2>1. store # NoObject /\ dsw[u] # NoObject /\ deleting[u].at = "idle"
    BY DEF Inv, PresentOK
  <2>2. \A i \in 1..Len(reports') : reports'[i] # NoObject
    BY <1>1, <1>2, <1>3 DEF Inv, PresentOK
  <2> QED
    BY <1>0, <2>1, <2>2 DEF PresentOK
<1>9. CreatingOK'
  BY <1>0 DEF CreatingOK
<1>10. UnusedOK'
  <2>1. attempts \in Nat /\ \A n \in Attempts : n \in Nat
    BY SnapshotAssumption DEF Inv, TypeOK, SnapshotterTypeOK, Attempts
  <2> QED
    BY <2>1 DEF Inv, UnusedOK
<1>11. BoundHasData'
  BY <1>2 DEF BoundHasData, Bound, HasData
<1>12. ActualIsBound'
  BY DEF Inv, ActualIsBound, SnapshotExists
<1> QED
  BY <1>6, <1>7, <1>8, <1>9, <1>10, <1>11, <1>12 DEF Inv

-----------------------------------------------------------------------------
(***************************************************************************)
(* Each kind of step keeps the invariant.                                  *)
(***************************************************************************)
LEMMA UserInv ==
    ASSUME UsedOnce, Inv, TypeOK', User
    PROVE  Inv'
<1> USE DEF User, snapshotterKept, opVars
<1>0. UIDs = {1} /\ WorldsTypeOK /\ NoObject \in MaybeSnapshot
  BY OneUID DEF Inv, TypeOK, MaybeSnapshot
<1>1. Len(reports) \in Nat
  BY <1>0 DEF WorldsTypeOK
<1>2. CASE UserCreates
  <2> DEFINE o == [uid |-> created + 1, data |-> 0, stamp |-> 0, cond |-> "new"]
  <2>1. created = 0 /\ created' = 1
    BY <1>0, <1>2 DEF UserCreates, WorldsTypeOK
  <2>2. o.data = 0 /\ o.cond = "new"
    OBVIOUS
  <2>3. object' = o /\ reports' = Append(reports, o)
    BY <1>2 DEF UserCreates, Write
  <2>4. o \in VolumeSnapshot /\ o # NoObject
    BY <1>0, <1>2, <2>1, SnapshotAssumption DEF UserCreates, VolumeSnapshot, Conditions
  <2> HIDE DEF o
  <2>5. reports = <<>>
    BY <2>1 DEF Inv, NotYetOK
  <2>6. Len(reports') = 1 /\ reports'[1] = o
    BY <2>3, <2>5
  <2>7. /\ store = NoObject /\ listed = NoObject
        /\ \A u \in UIDs : /\ dsw[u] = NoObject /\ asw[u] = NoObject
                           /\ creating[u].at = "idle" /\ deleting[u].at = "idle"
    BY <2>1 DEF Inv, NotYetOK
  <2>8. UNCHANGED <<store, dsw, asw, listed, plugin, disks, dataFor, attempts, creating, deleting>>
    BY <1>2 DEF UserCreates
  <2>9. SeenOK'
    BY <2>2, <2>3, <2>6, <2>7, <2>8 DEF SeenOK, Seen
  <2>10. NotYetOK' /\ PresentOK'
    BY <2>1, <2>4, <2>6, <2>7, <2>8 DEF NotYetOK, PresentOK
  <2>11. CreatingOK'
    BY <2>2, <2>3, <2>7, <2>8 DEF Inv, CreatingOK, InHandOK, Seen, HasData, UserCreates
  <2>12. UnusedOK' /\ BoundHasData' /\ ActualIsBound'
    BY <2>2, <2>3, <2>8
    DEF Inv, UnusedOK, BoundHasData, Bound, ActualIsBound, SnapshotExists
  <2> QED
    BY <2>9, <2>10, <2>11, <2>12 DEF Inv
<1>3. CASE UserDeletes
  <2>1. /\ object' = NoObject /\ object # NoObject
        /\ UNCHANGED <<created, store, dsw, asw, listed, plugin, disks, dataFor, attempts, creating, deleting>>
    BY <1>3 DEF UserDeletes, Write
  <2>2. /\ Len(reports') = Len(reports) + 1
        /\ \A i \in 1..Len(reports) : reports'[i] = reports[i]
        /\ reports'[Len(reports) + 1] = NoObject
    BY <1>0, <1>3, WriteTypes DEF UserDeletes
  <2>3. \A i \in 1..Len(reports') : i \in 1..Len(reports) \/ reports'[i] = NoObject
    BY <1>1, <2>2
  <2>4. SeenOK'
    <3>1. \A i \in 1..Len(reports') : Seen(reports[i])'
      BY <2>1, <2>2, <2>3 DEF Inv, SeenOK, Seen
    <3> QED
      BY <2>1, <3>1 DEF Inv, SeenOK, Seen
  <2>5. NotYetOK' /\ PresentOK'
    BY <2>1 DEF Inv, NotYetOK, PresentOK
  <2>6. CreatingOK' /\ UnusedOK' /\ BoundHasData' /\ ActualIsBound'
    BY <2>1 DEF Inv, CreatingOK, InHandOK, Seen, UnusedOK, BoundHasData, Bound, HasData,
                ActualIsBound, SnapshotExists
  <2> QED
    BY <2>4, <2>5, <2>6 DEF Inv
<1> QED
  BY <1>2, <1>3

LEMMA WatchInv ==
    ASSUME UsedOnce, Inv, TypeOK', Watch
    PROVE  Inv'
<1> USE DEF Watch, snapshotterKept, opVars
<1>0. /\ UIDs = {1} /\ reports \in Seq(MaybeSnapshot) /\ store \in MaybeSnapshot /\ dsw \in World
      /\ UNCHANGED <<object, created, asw, listed, plugin, disks, dataFor, attempts, creating, deleting>>
      /\ object \in MaybeSnapshot
  BY OneUID DEF Inv, TypeOK, WorldsTypeOK, Informer, Relist
<1>1. created # 0
  <2>1. reports # <<>>
    BY <1>0 DEF Informer, Relist
  <2> QED
    BY <2>1 DEF Inv, NotYetOK
<1>2. NotYetOK' /\ CreatingOK' /\ UnusedOK' /\ BoundHasData' /\ ActualIsBound'
  BY <1>0, <1>1 DEF Inv, NotYetOK, CreatingOK, InHandOK, Seen, UnusedOK, BoundHasData, Bound, HasData,
                    ActualIsBound, SnapshotExists
<1>3. CASE Informer
  <2> DEFINE new == Head(reports)
  <2>1. /\ new \in MaybeSnapshot /\ new = reports[1] /\ 1 \in 1..Len(reports)
        /\ Len(reports') \in Nat
        /\ \A i \in 1..Len(reports') : i + 1 \in 1..Len(reports) /\ reports'[i] = reports[i + 1]
    BY <1>0, <1>3 DEF Informer
  <2>2. store' = new /\ Seen(new)
    BY <1>3, <2>1 DEF Informer, Inv, SeenOK
  <2>3. object # NoObject => new # NoObject
    BY <2>1 DEF Inv, PresentOK
  <2>4. \A u \in UIDs : dsw'[u] \in {dsw[u], new, NoObject}
    <3>1. new # NoObject => new \in VolumeSnapshot
      BY <2>1 DEF MaybeSnapshot
    <3>2. store # NoObject => store.uid \in UIDs
      BY <1>0 DEF MaybeSnapshot, VolumeSnapshot
    <3> HIDE DEF new
    <3> QED
      BY <1>0, <1>3, <3>1, <3>2, OneUID
      DEF new, Informer, onSnapshotAdd, onSnapshotUpdate, onSnapshotDelete
  <2>5. ASSUME object # NoObject PROVE \A u \in UIDs : dsw'[u] # NoObject
    <3>1. new \in VolumeSnapshot /\ new # NoObject
      BY <2>1, <2>3, <2>5 DEF MaybeSnapshot
    <3>2. store # NoObject => \A u \in UIDs : dsw[u] # NoObject
      BY <2>5 DEF Inv, PresentOK
    <3> HIDE DEF new
    <3> QED
      BY <1>0, <1>3, <3>1, <3>2, OneUID
      DEF new, Informer, onSnapshotAdd, onSnapshotUpdate, onSnapshotDelete
  <2> HIDE DEF new
  <2>6. SeenOK'
    <3>1. \A i \in 1..Len(reports') : Seen(reports[i])'
      BY <1>0, <2>1 DEF Inv, SeenOK, Seen
    <3>2. Seen(store)' /\ \A u \in UIDs : Seen(dsw[u])'
      BY <1>0, <2>2, <2>4 DEF Inv, SeenOK, Seen
    <3> QED
      BY <1>0, <3>1, <3>2 DEF Inv, SeenOK, Seen
  <2>7. PresentOK'
    BY <1>0, <2>1, <2>2, <2>3, <2>5 DEF Inv, PresentOK
  <2> QED
    BY <1>2, <2>6, <2>7 DEF Inv
<1>4. CASE Relist
  <2>1. UNCHANGED <<store, dsw>>
    BY <1>4 DEF Relist
  <2>2. \A i \in 1..Len(reports') : reports'[i] = object
    BY <1>4 DEF Relist
  <2>3. SeenOK' /\ PresentOK'
    BY <1>0, <2>1, <2>2 DEF Inv, SeenOK, Seen, PresentOK
  <2> QED
    BY <1>2, <2>3 DEF Inv
<1> QED
  BY <1>3, <1>4

LEMMA PopulateInv ==
    ASSUME UsedOnce, Inv, TypeOK', Populate
    PROVE  Inv'
<1> USE DEF Populate, snapshotterKept, opVars
<1>0. /\ UIDs = {1} /\ dsw \in World /\ listed \in MaybeSnapshot
      /\ UNCHANGED <<object, created, reports, store, asw, plugin, disks, dataFor, attempts, creating, deleting>>
  BY OneUID
  DEF Inv, TypeOK, WorldsTypeOK, Populator, findAndRemoveDeletedSnapshots, ListActiveSnapshots,
      findAndAddActiveSnapshots
<1>1. CreatingOK' /\ UnusedOK' /\ BoundHasData' /\ ActualIsBound'
  BY <1>0 DEF Inv, CreatingOK, InHandOK, Seen, UnusedOK, BoundHasData, Bound, HasData,
              ActualIsBound, SnapshotExists
<1>2. CASE \E u \in UIDs : findAndRemoveDeletedSnapshots(u)
  <2>1. store = NoObject /\ listed' = listed /\ \A v \in UIDs : dsw'[v] = NoObject
    BY <1>0, <1>2, OneUID DEF findAndRemoveDeletedSnapshots
  <2>2. SeenOK' /\ NotYetOK' /\ PresentOK'
    BY <1>0, <2>1 DEF Inv, SeenOK, Seen, NotYetOK, PresentOK
  <2> QED
    BY <1>1, <2>2 DEF Inv
<1>3. CASE ListActiveSnapshots
  BY <1>0, <1>1, <1>3 DEF ListActiveSnapshots, Inv, SeenOK, Seen, NotYetOK, PresentOK
<1>4. CASE findAndAddActiveSnapshots
  <2>1. listed # NoObject /\ listed \in VolumeSnapshot /\ listed' = NoObject
    BY <1>0, <1>4 DEF findAndAddActiveSnapshots, MaybeSnapshot
  <2>2. \A u \in UIDs : dsw'[u] \in {dsw[u], listed} /\ dsw'[u] # NoObject
    BY <1>0, <1>4, <2>1, OneUID DEF findAndAddActiveSnapshots, SnapshotExists
  <2>3. SeenOK' /\ NotYetOK' /\ PresentOK'
    BY <1>0, <2>1, <2>2 DEF Inv, SeenOK, Seen, NotYetOK, PresentOK
  <2> QED
    BY <1>1, <2>3 DEF Inv
<1> QED
  BY <1>2, <1>3, <1>4 DEF Populator

LEMMA StorageInv ==
    ASSUME UsedOnce, Inv, TypeOK', Storage
    PROVE  Inv'
<1> USE DEF Storage, snapshotterKept, opVars, worldVars
<1>1. PICK n \in Attempts : Completes(n) /\ UNCHANGED <<worldVars, snapshotterKept>>
  OBVIOUS
<1>2. \A m \in Attempts : disks[m] = "none" => disks'[m] = "none"
  BY <1>1 DEF Completes, Inv, TypeOK, BackendTypeOK
<1>3. SeenOK' /\ NotYetOK' /\ PresentOK'
  BY <1>1 DEF Inv, SeenOK, Seen, NotYetOK, PresentOK
<1>4. CreatingOK' /\ UnusedOK' /\ BoundHasData' /\ ActualIsBound'
  BY <1>1, <1>2 DEF Inv, CreatingOK, InHandOK, Seen, UnusedOK, BoundHasData, Bound, HasData,
                    ActualIsBound, SnapshotExists
<1> QED
  BY <1>3, <1>4 DEF Inv

LEMMA RestartInv ==
    ASSUME UsedOnce, Inv, TypeOK', Restart
    PROVE  Inv'
<1> USE DEF Restart, WorldsRestart
<1>0. UIDs = {1} /\ object \in MaybeSnapshot /\ Empty \in World
  BY OneUID DEF Inv, TypeOK, WorldsTypeOK, Empty, World, MaybeSnapshot
<1>1. \A u \in UIDs : /\ dsw'[u] = object /\ asw'[u] = NoObject
                      /\ creating'[u] = NoCreate /\ deleting'[u] = NoDelete
  BY <1>0, OneUID DEF MaybeSnapshot
<1>2. NoCreate.at = "idle" /\ NoCreate.obj = NoObject /\ NoDelete.at = "idle"
  BY DEF NoCreate, NoDelete
<1>3. Len(reports') = 0
  OBVIOUS
<1>4. SeenOK'
  BY <1>1, <1>3 DEF Inv, SeenOK, Seen
<1>5. NotYetOK' /\ PresentOK'
  BY <1>1, <1>2, <1>3 DEF Inv, NotYetOK, PresentOK
<1>6. CreatingOK' /\ UnusedOK' /\ BoundHasData' /\ ActualIsBound'
  BY <1>1, <1>2 DEF Inv, CreatingOK, InHandOK, Seen, UnusedOK, BoundHasData, Bound, HasData,
                    ActualIsBound, SnapshotExists
<1> QED
  BY <1>4, <1>5, <1>6 DEF Inv

LEMMA StartCreateInv ==
    ASSUME UsedOnce, Inv, TypeOK', NEW u \in UIDs, StartCreate(u)
    PROVE  Inv'
<1> USE DEF worldsKept, diskKept
<1>0. /\ UIDs = {u} /\ asw \in World /\ dsw[u] \in VolumeSnapshot /\ dsw[u] # NoObject
      /\ UNCHANGED <<object, created, reports, store, dsw, listed, plugin, disks, dataFor, attempts, deleting>>
      /\ creating \in [UIDs -> CreateOp]
  BY OneUID DEF StartCreate, Inv, TypeOK, WorldsTypeOK, SnapshotterTypeOK, World, MaybeSnapshot, SnapshotExists
<1>1. /\ created # 0 /\ Seen(dsw[u])
      /\ object # NoObject => store # NoObject
  BY <1>0 DEF Inv, NotYetOK, SeenOK, PresentOK
<1>2. SeenOK' /\ NotYetOK' /\ PresentOK'
  BY <1>0, <1>1 DEF Inv, SeenOK, Seen, NotYetOK, PresentOK
<1>3. UnusedOK' /\ BoundHasData'
  BY <1>0 DEF Inv, UnusedOK, BoundHasData, Bound, HasData
<1>4. CASE dsw[u].cond = "ready" /\ asw' = AddSnapshot(asw, dsw[u]) /\ UNCHANGED creating
  <2>1. asw'[u] = dsw[u] /\ dsw[u].data # 0
    BY <1>0, <1>1, <1>4, OneUID DEF Seen
  <2>2. ActualIsBound'
    BY <1>0, <2>1 DEF ActualIsBound
  <2>3. CreatingOK'
    BY <1>0, <1>4 DEF Inv, CreatingOK, InHandOK, Seen, HasData
  <2> QED
    BY <1>2, <1>3, <2>2, <2>3 DEF Inv
<1>5. CASE /\ dsw[u].cond \in {"pending", "new"}
           /\ creating' = [creating EXCEPT ![u] =
                 IF dsw[u].cond = "pending"
                 THEN [NoCreate EXCEPT !.at = "get", !.obj = dsw[u], !.n = dsw[u].data]
                 ELSE [NoCreate EXCEPT !.at = "list", !.obj = dsw[u]]]
           /\ UNCHANGED asw
  <2>1. /\ creating'[u].obj = dsw[u]
        /\ \/ creating'[u].at = "get" /\ dsw[u].cond = "pending"
           \/ creating'[u].at = "list"
    BY <1>0, <1>5 DEF NoCreate
  <2>2. CreatingOK'
    BY <1>0, <1>1, <2>1 DEF CreatingOK, InHandOK, Seen
  <2>3. ActualIsBound'
    BY <1>5 DEF Inv, ActualIsBound, SnapshotExists
  <2> QED
    BY <1>2, <1>3, <2>2, <2>3 DEF Inv
<1> QED
  BY <1>4, <1>5 DEF StartCreate

\* The operation looks for what is there.
LEMMA LookupInv ==
    ASSUME UsedOnce, Inv, TypeOK', NEW u \in UIDs,
           ListData(u) \/ FindByTags(u) \/ GetData(u) \/ WaitTimesOut(u)
    PROVE  Inv'
<1> USE DEF worldsKept, diskKept, worldVars
<1>0. /\ creating \in [UIDs -> CreateOp] /\ creating[u].at # "idle"
      /\ UNCHANGED <<worldVars, disks, dataFor, attempts, deleting>>
  BY DEF Inv, TypeOK, SnapshotterTypeOK, ListData, FindByTags, GetData, WaitTimesOut
<1>1. InHandOK(creating[u])
  BY DEF Inv, CreatingOK
<1>2. CASE CreateEnds(u)
  BY <1>0, <1>2, EndedInHand, OpMoves
<1>3. ASSUME NEW step \in {"find", "stamp"}, CreateGoes(u, step) PROVE Inv'
  <2>1. creating'[u].at = step /\ creating'[u].obj = creating[u].obj
    BY <1>0, <1>3, CreateGoesTypes DEF CreateSteps
  <2>2. InHandOK(creating[u])'
    BY <1>0, <1>1, <2>1 DEF InHandOK, Seen
  <2> QED
    BY <1>0, <2>2, OpMoves
<1>4. CASE creating[u].at = "get" /\ CreateGoes(u, "wait")
  <2>1. creating'[u].at = "wait" /\ creating'[u].obj = creating[u].obj
    BY <1>0, <1>4, CreateGoesTypes DEF CreateSteps
  <2>2. InHandOK(creating[u])'
    BY <1>0, <1>1, <1>4, <2>1 DEF InHandOK, Seen
  <2> QED
    BY <1>0, <2>2, OpMoves
<1>5. ASSUME NEW n \in Attempts, dataFor[n] = u,
             creating' = [creating EXCEPT ![u].at = "bind", ![u].n = n]
      PROVE  Inv'
  <2>1. creating'[u].at = "bind" /\ creating'[u].obj = creating[u].obj /\ creating'[u].n = n
    BY <1>0, <1>5 DEF CreateOp
  <2>2. u # 0
    BY OneUID
  <2>3. InHandOK(creating[u])'
    BY <1>0, <1>1, <1>5, <2>1, <2>2 DEF InHandOK, Seen, HasData
  <2> QED
    BY <1>0, <2>3, OpMoves
<1> QED
  BY <1>2, <1>3, <1>4, <1>5 DEF ListData, FindByTags, GetData, WaitTimesOut

LEMMA StampInv ==
    ASSUME UsedOnce, Inv, TypeOK', NEW u \in UIDs, Stamp(u)
    PROVE  Inv'
<1> USE DEF diskKept
<1>0. /\ creating \in [UIDs -> CreateOp] /\ creating[u].at = "stamp"
      /\ InHandOK(creating[u]) /\ object \in MaybeSnapshot
      /\ UNCHANGED <<created, store, dsw, asw, listed, relists, disks, dataFor, deleting>>
  BY DEF Inv, TypeOK, WorldsTypeOK, SnapshotterTypeOK, CreatingOK, Stamp
<1>1. CASE /\ object # NoObject /\ attempts + 1 \in Attempts /\ attempts' = attempts + 1
           /\ Write([object EXCEPT !.stamp = attempts + 1])
           /\ creating' = [creating EXCEPT ![u].at = "take", ![u].n = attempts + 1]
  <2> DEFINE o == [object EXCEPT !.stamp = attempts + 1]
  <2>1. object \in VolumeSnapshot
    BY <1>0, <1>1 DEF MaybeSnapshot
  <2>2. o \in VolumeSnapshot /\ o.data = object.data /\ o.cond = object.cond
    BY <1>1, <2>1 DEF VolumeSnapshot
  <2>3. creating'[u].at = "take" /\ creating'[u].obj = creating[u].obj /\ creating'[u].n = attempts + 1
    BY <1>0, <1>1 DEF CreateOp
  <2>4. object' = o /\ o # NoObject
    BY <1>1, <2>2, SnapshotAssumption DEF Write
  <2> HIDE DEF o
  <2>5. disks[attempts + 1] = "none"
    <3>1. attempts \in Nat
      BY SnapshotAssumption DEF Inv, TypeOK, SnapshotterTypeOK, Attempts
    <3> QED
      BY <1>1, <3>1 DEF Inv, UnusedOK
  <2>6. InHandOK(creating[u])'
    <3>1. attempts \in Nat
      BY SnapshotAssumption DEF Inv, TypeOK, SnapshotterTypeOK, Attempts
    <3> QED
      BY <1>0, <1>1, <2>2, <2>3, <2>4, <2>5, <3>1 DEF InHandOK, Seen
  <2>7. /\ o.cond # "new" => o.data # 0
        /\ o.data # 0 => HasData(o.data)
    BY <1>1, <2>2 DEF Inv, SeenOK, Seen, BoundHasData, Bound
  <2> QED
    BY <1>0, <1>1, <2>2, <2>6, <2>7, OpWrites DEF o
<1>2. CASE CreateEnds(u) /\ UNCHANGED <<attempts, object, reports>>
  BY <1>0, <1>2, EndedInHand, OpMoves DEF worldVars
<1> QED
  BY <1>1, <1>2 DEF Stamp

LEMMA TakeInv ==
    ASSUME UsedOnce, Inv, TypeOK', NEW u \in UIDs, Take(u)
    PROVE  Inv'
<1> USE DEF worldsKept
<1>0. /\ creating \in [UIDs -> CreateOp] /\ creating[u].at = "take"
      /\ InHandOK(creating[u]) /\ UIDs = {u}
      /\ UNCHANGED <<object, created, reports, store, dsw, asw, listed, dataFor, attempts, deleting>>
  BY OneUID DEF Inv, TypeOK, SnapshotterTypeOK, CreatingOK, Take
<1>1. creating[u].n \in Attempts /\ disks[creating[u].n] = "none"
  BY <1>0 DEF InHandOK
<1>2. InHandOK(creating[u])'
  <2>1. PICK o \in SnapshotCreate :
          IF o.answer = "err" THEN CreateEnds(u)
             ELSE creating' = [creating EXCEPT ![u].at = "post", ![u].cond = o.answer]
    BY DEF Take
  <2>2. CASE o.answer = "err"
    BY <1>0, <2>1, <2>2, EndedInHand
  <2>3. CASE o.answer # "err"
    <3>1. creating'[u].at = "post" /\ creating'[u].obj = creating[u].obj
            /\ creating'[u].n = creating[u].n
      BY <1>0, <2>1, <2>3 DEF CreateOp
    <3> QED
      BY <1>0, <1>1, <3>1 DEF InHandOK, Seen
  <2> QED
    BY <2>2, <2>3
<1>3. UnusedOK'
  <2>1. creating[u].n <= attempts
    BY <1>0 DEF InHandOK
  <2>2. \A n \in Attempts : n # creating[u].n => disks'[n] = disks[n]
    BY DEF Take, Inv, TypeOK, BackendTypeOK
  <2>3. attempts \in Nat /\ \A n \in Attempts : n \in Nat
    BY SnapshotAssumption DEF Inv, TypeOK, SnapshotterTypeOK, Attempts
  <2> QED
    BY <1>0, <1>1, <2>1, <2>2, <2>3 DEF Inv, UnusedOK
<1>4. SeenOK' /\ NotYetOK' /\ PresentOK'
  BY <1>0 DEF Inv, SeenOK, Seen, NotYetOK, PresentOK
<1>5. CreatingOK'
  BY <1>0, <1>2 DEF CreatingOK
<1>6. BoundHasData' /\ ActualIsBound'
  BY <1>0 DEF Inv, BoundHasData, Bound, HasData, ActualIsBound, SnapshotExists
<1> QED
  BY <1>3, <1>4, <1>5, <1>6 DEF Inv

LEMMA PostInv ==
    ASSUME UsedOnce, Inv, TypeOK', NEW u \in UIDs, PostData(u)
    PROVE  Inv'
<1> USE DEF worldsKept, diskKept
<1>0. /\ creating \in [UIDs -> CreateOp] /\ creating[u].at = "post"
      /\ InHandOK(creating[u]) /\ UIDs = {u} /\ u = 1
      /\ dataFor \in [Attempts -> UIDs \cup {0}]
      /\ UNCHANGED <<object, created, reports, store, dsw, asw, listed, disks, attempts, deleting>>
  BY OneUID DEF Inv, TypeOK, SnapshotterTypeOK, CreatingOK, PostData
<1>1. creating[u].n \in Attempts
  BY <1>0 DEF InHandOK
<1>2. \A n : HasData(n) => HasData(n)'
  BY <1>0, <1>1 DEF PostData, HasData
<1>3. InHandOK(creating[u])'
  <2>1. CASE CreateEnds(u)
    BY <1>0, <2>1, EndedInHand
  <2>2. CASE CreateGoes(u, "bind") /\ dataFor' = [dataFor EXCEPT ![creating[u].n] = u]
    <3>1. creating'[u].at = "bind" /\ creating'[u].obj = creating[u].obj
            /\ creating'[u].n = creating[u].n
      BY <1>0, <2>2, CreateGoesTypes DEF CreateSteps
    <3>2. dataFor'[creating[u].n] = u
      BY <1>0, <1>1, <2>2
    <3> QED
      BY <1>0, <1>1, <3>1, <3>2 DEF InHandOK, Seen, HasData
  <2> QED
    BY <2>1, <2>2 DEF PostData
<1>4. SeenOK' /\ NotYetOK' /\ PresentOK'
  BY <1>0 DEF Inv, SeenOK, Seen, NotYetOK, PresentOK
<1>5. CreatingOK'
  BY <1>0, <1>3 DEF CreatingOK
<1>6. UnusedOK' /\ BoundHasData' /\ ActualIsBound'
  BY <1>0, <1>2 DEF Inv, UnusedOK, BoundHasData, Bound, ActualIsBound, SnapshotExists
<1> QED
  BY <1>4, <1>5, <1>6 DEF Inv

LEMMA BindInv ==
    ASSUME UsedOnce, Inv, TypeOK', NEW u \in UIDs, bindandUpdate(u)
    PROVE  Inv'
<1> USE DEF diskKept
<1> DEFINE op == creating[u]
           bound == BoundTo(object, op.n, op.cond)
           next == IF op.cond = "new" THEN "get" ELSE "wait"
<1>0. /\ creating \in [UIDs -> CreateOp] /\ op.at = "bind"
      /\ InHandOK(op) /\ object \in MaybeSnapshot
      /\ UNCHANGED <<created, store, dsw, asw, listed, relists, disks, dataFor, attempts, deleting>>
  BY DEF Inv, TypeOK, WorldsTypeOK, SnapshotterTypeOK, CreatingOK, bindandUpdate
<1>1. /\ op.n \in Attempts /\ op.n # 0 /\ op.cond \in Conditions
      /\ object # NoObject => HasData(op.n)
  <2>1. op.n \in Attempts /\ op.cond \in Conditions
    BY <1>0 DEF InHandOK, CreateOp
  <2> QED
    BY <1>0, <2>1 DEF InHandOK, Attempts
<1>2. CASE /\ object # NoObject
           /\ Write(bound)
           /\ creating' = [creating EXCEPT ![u].at = next, ![u].obj = bound]
  <2>1. bound \in VolumeSnapshot /\ bound.data = op.n /\ bound # NoObject
    <3>1. object \in VolumeSnapshot
      BY <1>0, <1>2 DEF MaybeSnapshot
    <3> QED
      BY <1>1, <3>1, SnapshotAssumption DEF BoundTo, VolumeSnapshot
  <2>2. creating'[u].at \in {"get", "wait"} /\ creating'[u].obj = bound
    BY <1>0, <1>2 DEF CreateOp
  <2>3. object' = bound
    BY <1>2 DEF Write
  <2> HIDE DEF bound, op
  <2>4. InHandOK(creating[u])'
    BY <1>1, <2>1, <2>2, <2>3 DEF InHandOK, Seen
  <2> QED
    BY <1>0, <1>1, <1>2, <2>1, <2>4, OpWrites DEF op
<1>3. CASE CreateEnds(u) /\ UNCHANGED <<object, reports>>
  BY <1>0, <1>3, EndedInHand, OpMoves DEF worldVars
<1> QED
  BY <1>2, <1>3 DEF bindandUpdate

LEMMA WaitInv ==
    ASSUME UsedOnce, Inv, TypeOK', NEW u \in UIDs, WaitForSnapshot(u)
    PROVE  Inv'
<1> USE DEF diskKept
<1>0. /\ creating \in [UIDs -> CreateOp] /\ creating[u].at = "wait"
      /\ InHandOK(creating[u]) /\ object \in MaybeSnapshot /\ asw \in World
      /\ creating[u].obj \in MaybeSnapshot
      /\ UNCHANGED <<created, store, dsw, listed, relists, plugin, disks, dataFor, attempts, deleting>>
      /\ UIDs = {u}
  BY OneUID DEF Inv, TypeOK, WorldsTypeOK, SnapshotterTypeOK, CreatingOK, WaitForSnapshot, CreateOp
<1>1. /\ creating[u].obj # NoObject /\ creating[u].obj.data # 0
      /\ object # NoObject => object.data # 0
  BY <1>0 DEF InHandOK, Seen
<1>2. PICK c \in Conditions : UpdateStatus(u, c) \/ StatusIsEqual(u, c) \/ StatusFails(u, c)
  <2>1. plugin \in Plugins
    BY DEF Inv, TypeOK, BackendTypeOK
  <2> QED
    BY <2>1, DescribesCondition DEF WaitForSnapshot, Conditions
<1>3. CASE UpdateStatus(u, c)
  <2> DEFINE o == [object EXCEPT !.cond = c]
  <2>1. object \in VolumeSnapshot /\ object # NoObject
    BY <1>0, <1>3 DEF UpdateStatus, MaybeSnapshot
  <2>2. o \in VolumeSnapshot /\ o.data = object.data /\ o # NoObject
    BY <2>1, SnapshotAssumption DEF VolumeSnapshot
  <2>3. Write(o) /\ object' = o /\ asw' \in {AddSnapshot(asw, o), asw}
    BY <1>3 DEF UpdateStatus, Write
  <2> HIDE DEF o
  <2>4. \A v \in UIDs : asw'[v] = asw[v] \/ asw'[v].data # 0
    BY <1>0, <1>1, <2>1, <2>2, <2>3, OneUID
  <2>5. InHandOK(creating[u])'
    <3>1. CASE CreateEnds(u)
      BY <1>0, <3>1, EndedInHand
    <3>2. CASE UNCHANGED creating
      BY <1>0, <1>1, <2>1, <2>2, <2>3, <3>2 DEF InHandOK, Seen
    <3> QED
      BY <1>3, <3>1, <3>2 DEF UpdateStatus
  <2>6. HasData(o.data)
    BY <1>1, <2>1, <2>2 DEF Inv, BoundHasData, Bound
  <2> QED
    BY <1>0, <1>1, <2>1, <2>2, <2>3, <2>4, <2>5, <2>6, OpWrites
<1>4. CASE StatusIsEqual(u, c)
  <2>1. UNCHANGED <<object, reports>> /\ CreateEnds(u) /\ asw' \in {AddSnapshot(asw, creating[u].obj), asw}
          /\ object # NoObject
    BY <1>4 DEF StatusIsEqual
  <2>2. \A v \in UIDs : asw'[v] = asw[v] \/ asw'[v].data # 0
    BY <1>0, <1>1, <2>1, OneUID DEF MaybeSnapshot
  <2>3. InHandOK(creating[u])'
    BY <1>0, <2>1, EndedInHand
  <2>4. created # 0 /\ store # NoObject
    BY <1>0, <2>1 DEF Inv, NotYetOK, PresentOK
  <2>5. SeenOK' /\ NotYetOK' /\ PresentOK'
    BY <1>0, <2>1, <2>4 DEF Inv, SeenOK, Seen, NotYetOK, PresentOK
  <2>6. CreatingOK' /\ UnusedOK' /\ BoundHasData' /\ ActualIsBound'
    BY <1>0, <2>1, <2>2, <2>3
    DEF Inv, CreatingOK, UnusedOK, BoundHasData, Bound, HasData, ActualIsBound, SnapshotExists
  <2> QED
    BY <2>5, <2>6 DEF Inv
<1>5. CASE StatusFails(u, c)
  BY <1>0, <1>5, EndedInHand, OpMoves DEF StatusFails, worldVars
<1> QED
  BY <1>2, <1>3, <1>4, <1>5

-----------------------------------------------------------------------------
\* What was never on disk is not there after a deletion either.
LEMMA AbsentStays ==
    ASSUME plugin \in Plugins, NEW n, disks[n] = "none", NEW o \in SnapshotDelete(n)
    PROVE  o.disk = "none"
<1>1. ~ Exists(n)
  BY DEF Exists
<1> QED
  BY <1>1 DEF SnapshotDelete, Plugins, HostPathDelete, GlusterDelete, AWSDelete, GCEDelete,
              CinderDelete, Outcome

\* A delete operation runs only when the VolumeSnapshot is gone.
LEMMA DeleteInv ==
    ASSUME UsedOnce, Inv, TypeOK', NEW u \in UIDs, StartDelete(u) \/ DeleteStep(u)
    PROVE  Inv'
<1> USE DEF worldsKept, diskKept
<1>0. /\ UIDs = {u} /\ asw \in World /\ plugin \in Plugins /\ disks \in [Attempts -> DiskStates]
      /\ UNCHANGED <<object, created, reports, store, dsw, listed, attempts, creating>>
  BY OneUID
  DEF Inv, TypeOK, WorldsTypeOK, BackendTypeOK, StartDelete, DeleteStep, GetDataToDelete,
      DeleteDisk, DeleteData
<1>1. object = NoObject /\ created # 0
  BY DEF Inv, PresentOK, NotYetOK, StartDelete, SnapshotExists, DeleteStep, GetDataToDelete,
         DeleteDisk, DeleteData
<1>2. \A n \in Attempts : disks[n] = "none" => disks'[n] = "none"
  <2>1. CASE DeleteDisk(u)
    <3>1. PICK o \in SnapshotDelete(deleting[u].n) :
            disks' = [disks EXCEPT ![deleting[u].n] = o.disk]
      BY <2>1 DEF DeleteDisk
    <3> QED
      BY <1>0, <3>1, AbsentStays
  <2> QED
    BY <2>1 DEF StartDelete, DeleteStep, GetDataToDelete, DeleteData
<1>3. \A v \in UIDs : asw'[v] \in {asw[v], NoObject}
  BY <1>0, OneUID DEF StartDelete, DeleteStep, GetDataToDelete, DeleteDisk, DeleteData
<1>4. SeenOK' /\ NotYetOK' /\ PresentOK'
  BY <1>0, <1>1 DEF Inv, SeenOK, Seen, NotYetOK, PresentOK
<1>5. CreatingOK' /\ UnusedOK'
  BY <1>0, <1>1, <1>2 DEF Inv, CreatingOK, InHandOK, Seen, UnusedOK
<1>6. BoundHasData' /\ ActualIsBound'
  BY <1>0, <1>1, <1>3 DEF Inv, BoundHasData, Bound, ActualIsBound, SnapshotExists
<1> QED
  BY <1>4, <1>5, <1>6 DEF Inv

-----------------------------------------------------------------------------
LEMMA InitInv ==
    ASSUME UsedOnce, Init
    PROVE  Inv
<1>0. TypeOK
  BY InitType
<1>1. UIDs = {1} /\ \A u \in UIDs : dsw[u] = NoObject /\ asw[u] = NoObject
        /\ creating[u] = NoCreate /\ deleting[u] = NoDelete
  BY OneUID DEF Init, WorldsInit, SnapshotterInit
<1>2. NoCreate.at = "idle" /\ NoCreate.obj = NoObject /\ NoDelete.at = "idle"
  BY DEF NoCreate, NoDelete
<1>3. SeenOK /\ NotYetOK /\ PresentOK /\ CreatingOK
  BY <1>1, <1>2 DEF Init, WorldsInit, SeenOK, Seen, NotYetOK, PresentOK, CreatingOK, InHandOK
<1>4. UnusedOK /\ BoundHasData /\ ActualIsBound
  BY <1>1 DEF Init, BackendInit, WorldsInit, UnusedOK, BoundHasData, Bound, ActualIsBound,
              SnapshotExists
<1> QED
  BY <1>0, <1>3, <1>4 DEF Inv

LEMMA StepInv ==
    ASSUME UsedOnce, Inv, [Next]_vars
    PROVE  Inv'
<1>1. TypeOK'
  BY StepType DEF Inv
<1>2. CASE User \/ Watch \/ Populate \/ Storage
  BY <1>1, <1>2, UserInv, WatchInv, PopulateInv, StorageInv
<1>3. ASSUME NEW u \in UIDs, Reconcile(u) \/ CreateStep(u) \/ WaitTimesOut(u) \/ DeleteStep(u)
      PROVE  Inv'
  BY <1>1, <1>3, StartCreateInv, LookupInv, StampInv, TakeInv, PostInv, BindInv, WaitInv, DeleteInv
  DEF Reconcile, CreateStep
<1>4. CASE UNCHANGED vars
  <2> USE <1>4 DEF vars, worldVars, opVars
  <2>1. SeenOK' /\ NotYetOK' /\ PresentOK'
    BY DEF Inv, SeenOK, Seen, NotYetOK, PresentOK
  <2>2. CreatingOK' /\ UnusedOK' /\ BoundHasData' /\ ActualIsBound'
    BY DEF Inv, CreatingOK, InHandOK, Seen, UnusedOK, BoundHasData, Bound, HasData, ActualIsBound,
           SnapshotExists
  <2> QED
    BY <1>1, <2>1, <2>2 DEF Inv
<1> QED
  BY <1>1, <1>2, <1>3, <1>4, RestartInv DEF Next

LEMMA SnapshotInvariant == ASSUME UsedOnce PROVE Spec => []Inv
<1>1. Init => Inv
  BY InitInv
<1>2. Inv /\ [Next]_vars => Inv'
  BY StepInv
<1> QED
  BY <1>1, <1>2, PTL DEF Spec

(***************************************************************************)
(* The VolumeSnapshotData that a VolumeSnapshot names is there, through    *)
(* retries of create, lost answers and restarts, if the name is used once. *)
(***************************************************************************)
THEOREM BoundSnapshotHasData == ASSUME UsedOnce PROVE Spec => []BoundHasData
<1>1. Inv => BoundHasData
  BY DEF Inv
<1> QED
  BY SnapshotInvariant, <1>1, PTL

(***************************************************************************)
(* An entry of the actual state names its VolumeSnapshotData, so that the  *)
(* delete operation started with it finds what it has to delete.           *)
(***************************************************************************)
THEOREM ActualStateIsBound == ASSUME UsedOnce PROVE Spec => []ActualIsBound
<1>1. Inv => ActualIsBound
  BY DEF Inv
<1> QED
  BY SnapshotInvariant, <1>1, PTL

(***************************************************************************)
(* No step deletes the snapshot on disk of a VolumeSnapshot that is there. *)
(* A name that is used again loses this: the populator and the watch take  *)
(* one UID for the other.                                                  *)
(***************************************************************************)
THEOREM BoundDisksKept == ASSUME UsedOnce PROVE Spec => KeepsBoundDisks
<1> DEFINE Keeps == \A n \in Attempts :
        (Exists(n) /\ disks'[n] = "deleted") => ~(Bound /\ object.data = n)
<1>1. ASSUME Inv, [Next]_vars PROVE Keeps
  <2>0. disks \in [Attempts -> DiskStates]
    BY <1>1 DEF Inv, TypeOK, BackendTypeOK
  <2>1. CASE UNCHANGED disks
    BY <2>1 DEF Exists
  <2>2. CASE Storage
    BY <2>0, <2>2 DEF Storage, Completes, Exists
  <2>3. ASSUME NEW u \in UIDs, Take(u) PROVE Keeps
    <3>1. creating[u].n \in Attempts /\ ~ Exists(creating[u].n)
      BY <1>1, <2>3 DEF Inv, CreatingOK, InHandOK, Take, Exists
    <3>2. \A n \in Attempts \ {creating[u].n} : disks'[n] = disks[n]
      BY <2>0, <2>3 DEF Take
    <3> QED
      BY <3>1, <3>2 DEF Exists
  <2>4. ASSUME NEW u \in UIDs, DeleteDisk(u) PROVE Keeps
    BY <1>1, <2>4 DEF Inv, PresentOK, DeleteDisk, Bound
  <2>5. CASE User \/ Watch \/ Populate \/ Restart
    BY <2>1, <2>5 DEF User, Watch, Populate, Restart
  <2>6. ASSUME NEW u \in UIDs, Reconcile(u) \/ CreateStep(u) \/ WaitTimesOut(u) \/ DeleteStep(u)
        PROVE  Keeps
    <3>1. UNCHANGED disks \/ Take(u) \/ DeleteDisk(u)
      BY <2>6
      DEF Reconcile, StartCreate, StartDelete, CreateStep, ListData, FindByTags, Stamp, PostData,
    bindandUpdate, GetData, WaitForSnapshot, WaitTimesOut, DeleteStep, GetDataToDelete,
          DeleteData, diskKept
    <3> QED
      BY <2>1, <2>3, <2>4, <3>1
  <2>7. CASE UNCHANGED vars
    BY <2>1, <2>7 DEF vars
  <2> QED
    BY <1>1, <2>2, <2>5, <2>6, <2>7 DEF Next
<1> QED
  BY SnapshotInvariant, <1>1, PTL DEF Spec, KeepsBoundDisks
=============================================================================
