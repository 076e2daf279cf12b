---------------------------- MODULE LocalVolumes ----------------------------
(***************************************************************************)
(* The node's local volumes: the static configuration of the provisioner   *)
(* (the DiscoveryMap of storage classes to directories) and the disks      *)
(* below its discovery directories.  A disk is external to the program;    *)
(* its state is what pkg/util/volume_util.go and the mount list report.    *)
(***************************************************************************)
EXTENDS Naturals, Sequences

CONSTANTS
    Volumes,            \* the entries of the discovery directories
    Classes,            \* the storage classes of the DiscoveryMap
    ClassOf,            \* the class in whose directory a volume is
    ClassPolicy,        \* ReclaimPolicy of the StorageClass object
    ClassMode,          \* MountConfig.VolumeMode: mode of the PVs to create
    VolMode,            \* what the path is: "Filesystem" (dir) or "Block"
    UseJobForCleaning,  \* RuntimeConfig.UseJobForCleaning
    MaxEvents           \* bound on the watch reports of one object under way

Modes    == {"Filesystem", "Block"}
Policies == {"Delete", "Retain", "Recycle"}

ASSUME ConfigAssumption ==
    /\ ClassOf \in [Volumes -> Classes]
    /\ ClassPolicy \in [Classes -> Policies]
    /\ ClassMode \in [Classes -> Modes]
    /\ VolMode \in [Volumes -> Modes]
    /\ UseJobForCleaning \in BOOLEAN
    /\ MaxEvents \in Nat \ {0}

VARIABLES
    media,    \* "mounted", "unmounted" (the directory is left), "gone"
    dirty     \* the disk holds the data of a former or present claim

diskVars == <<media, dirty>>

DiskTypeOK ==
    /\ media \in [Volumes -> {"mounted", "unmounted", "gone"}]
    /\ dirty \in [Volumes -> BOOLEAN]

DiskInit ==
    /\ media = [v \in Volumes |-> "mounted"]
    /\ dirty = [v \in Volumes |-> FALSE]

\* common.GetVolumeMode succeeds: the path can be opened.  An unmounted
\* filesystem volume leaves a directory, which is of mode Filesystem too.
HasMode(v) == media[v] # "gone"

\* A filesystem is unmounted, a directory or a device link removed, or the
\* volume brought back.
Unmount(v) ==
    /\ media[v] = "mounted"
    /\ \E m \in {"unmounted", "gone"} :
         /\ VolMode[v] = "Block" => m = "gone"
         /\ media' = [media EXCEPT ![v] = m]
    /\ UNCHANGED dirty

Remount(v) ==
    /\ media[v] # "mounted"
    /\ media' = [media EXCEPT ![v] = "mounted"]
    /\ UNCHANGED dirty

\* Whatever empties the path reaches the disk only if the disk is mounted there.
Erased(v) == IF media[v] = "mounted" THEN [dirty EXCEPT ![v] = FALSE] ELSE dirty

\* A pod with the volume may write to it.
Written(v) == IF media[v] = "mounted" THEN [dirty EXCEPT ![v] = TRUE] ELSE dirty

\* deleter.shouldRunJob
shouldRunJob(v) == VolMode[v] = "Block" /\ UseJobForCleaning
=============================================================================
