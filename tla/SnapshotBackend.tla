--------------------------- MODULE SnapshotBackend ---------------------------
(***************************************************************************)
(* snapshot/pkg/volume and the cloud calls below it: what the five volume  *)
(* plugins do to the snapshots on disk.  A snapshot on disk is known by    *)
(* the attempt that took it: its name holds a fresh UUID or the time.      *)
(***************************************************************************)
EXTENDS Naturals

CONSTANT MaxAttempts   \* bound on the snapshots taken

Attempts == 1..MaxAttempts

VARIABLES
    plugin,   \* the plugin of the PV, constant
    disks     \* the snapshots on disk

Plugins == {"hostPath", "glusterfs", "aws_ebs", "gce-pd", "cinder"}

(***************************************************************************)
(* "failed": the disk is there and is no snapshot (half an archive, not    *)
(* activated, state error).  "none": it was never made.                    *)
(***************************************************************************)
DiskStates == {"none", "creating", "ready", "failed", "deleted"}
Conditions == {"new", "pending", "ready", "error"}

BackendTypeOK ==
    /\ plugin \in Plugins
    /\ disks \in [Attempts -> DiskStates]

BackendInit ==
    /\ plugin \in Plugins
    /\ disks = [n \in Attempts |-> "none"]

Exists(n) == disks[n] \notin {"none", "deleted"}

\* What a call did to the disk, and what it answered; fault: if a call failed.
Outcome(disk, answer, fault) == [disk |-> disk, answer |-> answer, fault |-> fault]

-----------------------------------------------------------------------------
\* tar: complete and so Ready at once, or an error, perhaps with half a file.
HostPathCreate ==
    {Outcome("ready", "ready", FALSE),
     Outcome("none", "err", TRUE), Outcome("failed", "err", TRUE)}

\* The error of "snapshot create" is dropped, that of "activate" is returned.
GlusterCreate ==
    {Outcome("ready", "ready", FALSE),
     Outcome("none", "err", TRUE), Outcome("failed", "err", TRUE)}

(***************************************************************************)
(* The cloud makes the snapshot while the caller goes on.  A lost answer   *)
(* leaves it behind; so does, for EBS, a tagging that failed, if deleting  *)
(* the snapshot then fails too.                                            *)
(***************************************************************************)
EC2CreateSnapshot ==
    {Outcome("creating", "pending", FALSE), Outcome("none", "err", TRUE),
     Outcome("deleted", "err", TRUE), Outcome("creating", "err", TRUE)}

GCECreateSnapshot ==
    {Outcome("creating", "CREATING", FALSE),
     Outcome("none", "err", TRUE), Outcome("creating", "err", TRUE)}

createSnapshot ==
    {Outcome("creating", "creating", FALSE),
     Outcome("none", "err", TRUE), Outcome("creating", "err", TRUE)}

\* The states of a cloud's snapshot as conditions of a VolumeSnapshot
convertAWSStatus(status) ==
    CASE status = "completed" -> "ready"
      [] status = "pending"   -> "pending"
      [] OTHER                -> "error"

convertGCEStatus(status) ==
    CASE status = "READY" -> "ready"
      [] status \in {"CREATING", "UPLOADING"} -> "pending"
      [] status = "FAILED" -> "error"

\* Variant: Cinder's word is taken as it is.
convertSnapshotStatus_Raw(status) == status

convertSnapshotStatus(status) ==
    CASE status = "available" -> "ready"
      [] status = "creating"  -> "pending"
      [] OTHER                -> "error"

Answered(o, convert(_)) == IF o.answer = "err" THEN o ELSE [o EXCEPT !.answer = convert(@)]

AWSCreate    == {Answered(o, convertAWSStatus) : o \in EC2CreateSnapshot}
GCECreate    == {Answered(o, convertGCEStatus) : o \in GCECreateSnapshot}
CinderCreate == {Answered(o, convertSnapshotStatus) : o \in createSnapshot}

\* Plugin.SnapshotCreate
SnapshotCreate ==
    CASE plugin = "hostPath"  -> HostPathCreate
      [] plugin = "glusterfs" -> GlusterCreate
      [] plugin = "aws_ebs"   -> AWSCreate
      [] plugin = "gce-pd"    -> GCECreate
      [] plugin = "cinder"    -> CinderCreate

-----------------------------------------------------------------------------
\* A removal of a disk that is there: done, refused, or done without an answer.
Removal(n) ==
    {Outcome("deleted", "ok", FALSE),
     Outcome(disks[n], "err", TRUE), Outcome("deleted", "err", TRUE)}

\* Variant: the file is not removed.
HostPathDelete_Kept(n) == {Outcome(disks[n], "ok", FALSE)}

\* os.Remove: an error if the file is missing.
HostPathDelete(n) ==
    IF Exists(n) THEN Removal(n) ELSE {Outcome(disks[n], "err", FALSE)}

GlusterDelete(n) ==
    IF Exists(n) THEN Removal(n) ELSE {Outcome(disks[n], "err", FALSE)}

AWSDelete(n) ==
    IF Exists(n) THEN Removal(n) ELSE {Outcome(disks[n], "err", FALSE)}

\* Looked up first: missing is success.
GCEDelete(n) ==
    IF Exists(n) THEN Removal(n) ELSE {Outcome(disks[n], "ok", FALSE)}

\* DeleteSnapshot logs the error of the API and returns nil.
CinderDelete(n) ==
    IF Exists(n) THEN {[o EXCEPT !.answer = "ok"] : o \in Removal(n)}
                 ELSE {Outcome(disks[n], "ok", FALSE)}

\* Plugin.SnapshotDelete
SnapshotDelete(n) ==
    CASE plugin = "hostPath"  -> HostPathDelete(n)
      [] plugin = "glusterfs" -> GlusterDelete(n)
      [] plugin = "aws_ebs"   -> AWSDelete(n)
      [] plugin = "gce-pd"    -> GCEDelete(n)
      [] plugin = "cinder"    -> CinderDelete(n)

-----------------------------------------------------------------------------
\* The file is there: the condition of the VolumeSnapshotData, which was Ready.
HostPathDescribe(n) == IF Exists(n) THEN "ready" ELSE "err"

\* The error of "snapshot info" is dropped.
GlusterDescribe(n) == "ready"

\* Variant: EBS snapshots are asked for by the state of creation.
EC2DescribeSnapshot_NoPending(n) == IF disks[n] = "creating" THEN "pending" ELSE "err"

\* The state of the snapshot in the cloud, "err" if the call fails: for EBS it
\* also fails for a snapshot in state error.
EC2DescribeSnapshot(n) ==
    CASE disks[n] = "ready"    -> "completed"
      [] disks[n] = "creating" -> "pending"
      [] OTHER                 -> "err"

getSnapshotByName(n) ==
    CASE disks[n] = "ready"    -> "READY"
      [] disks[n] = "creating" -> "UPLOADING"
      [] disks[n] = "failed"   -> "FAILED"
      [] OTHER                 -> "err"

getSnapshot(n) ==
    CASE disks[n] = "ready"    -> "available"
      [] disks[n] = "creating" -> "creating"
      [] disks[n] = "failed"   -> "error"
      [] OTHER                 -> "err"

Described(status, convert(_)) == IF status = "err" THEN "err" ELSE convert(status)

AWSDescribe(n)    == Described(EC2DescribeSnapshot(n), convertAWSStatus)
GCEDescribe(n)    == Described(getSnapshotByName(n), convertGCEStatus)
CinderDescribe(n) == Described(getSnapshot(n), convertSnapshotStatus)

\* Plugin.DescribeSnapshot: "err", or a condition.
DescribeSnapshot(n) ==
    CASE plugin = "hostPath"  -> HostPathDescribe(n)
      [] plugin = "glusterfs" -> GlusterDescribe(n)
      [] plugin = "aws_ebs"   -> AWSDescribe(n)
      [] plugin = "gce-pd"    -> GCEDescribe(n)
      [] plugin = "cinder"    -> CinderDescribe(n)

\* All tags match, the time stamp among them, or the others know no tags.
CinderFind(stamp) == stamp # 0 /\ Exists(stamp)

\* Plugin.FindSnapshot; the other plugins answer "Snapshot not found".
FindSnapshot(stamp) == plugin = "cinder" /\ CinderFind(stamp)

-----------------------------------------------------------------------------
\* The storage completes a snapshot, or fails to.
Completes(n) ==
    /\ disks[n] = "creating"
    /\ \E d \in {"ready", "failed"} : disks' = [disks EXCEPT ![n] = d]
    /\ UNCHANGED plugin
=============================================================================
