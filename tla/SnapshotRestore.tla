--------------------------- MODULE SnapshotRestore ---------------------------
(***************************************************************************)
(* snapshot/cmd/snapshot-pv-provisioner with the plugins of                *)
(* snapshot/pkg/volume: a PV made from a bound VolumeSnapshot.  All claims *)
(* name one snapshot, which stays.                                         *)
(***************************************************************************)
EXTENDS ClaimProvisioner

Restores == {"restore-hostPath", "restore-glusterfs", "restore-aws",
             "restore-gce", "restore-cinder"}

\* The directory or disk that the plugin names; gluster's clone has the name
\* of the snapshot.
restored(c) ==
    CASE backend = "restore-gce"       -> OfPV(c)
      [] backend = "restore-glusterfs" -> OfSnapshot
      [] OTHER                         -> Fresh

\* The snapshot must be bound; whether it is ready is not asked.
RestoreProvision(c) ==
    /\ backend \in Restores /\ CanProvision(c)
    /\ StartProvision(c, restored(c), NoGID, "restore")
    /\ UNCHANGED <<gids, options>>

Restoring(c, plugin) == backend = plugin /\ At(c, "Provision", "restore")
Made(c)              == stored \cup {Volume(call[c].volume)}
Removed(c)           == stored \ {Volume(call[c].volume)}

\* A new directory, left behind if tar fails
HostPathRestore(c) == Restoring(c, "restore-hostPath") /\ Command(c, Made(c), "save")

\* "snapshot clone": an error if there is a volume of that name.
GlusterRestore(c) ==
    /\ Restoring(c, "restore-glusterfs")
    /\ IF Volume(call[c].volume) \in stored THEN Fail(c) ELSE Command(c, Made(c), "save")

AWSRestore(c) == Restoring(c, "restore-aws") /\ Command(c, Made(c), "tags")

\* CreateDisk deletes the volume that it cannot tag, and the volume stays if
\* that fails too.
TagDisk(c) ==
    \/ At(c, "Provision", "tags") /\ CommandOr(c, stored, "save", Go(c, "untagged"))
    \/ At(c, "Provision", "untagged") /\ Tried(Removed(c)) /\ Return(c)

\* Variant: a disk of that name is an error.
CreateDiskFromSnapshot_NoReuse(c) ==
    /\ Restoring(c, "restore-gce")
    /\ IF Volume(call[c].volume) \in stored THEN Fail(c) ELSE Command(c, Made(c), "save")

\* A disk of that name is used.
CreateDiskFromSnapshot(c) ==
    /\ Restoring(c, "restore-gce")
    /\ IF Volume(call[c].volume) \in stored
         THEN Proceed(c, "save")
         ELSE Command(c, Made(c), "save")

CinderRestore(c) == Restoring(c, "restore-cinder") /\ Command(c, Made(c), "save")

RestoreDelete(c) == backend \in Restores /\ StartDelete(c, "remove") /\ UNCHANGED gids

Removing(c, plugin) == backend = plugin /\ At(c, "Delete", "remove")

\* os.RemoveAll: a missing directory is no error.
HostPathVolumeDelete(c) == Removing(c, "restore-hostPath") /\ Command(c, Removed(c), "gone")

\* "TODO: Delete this volume"
GlusterVolumeDelete(c) == Removing(c, "restore-glusterfs") /\ Proceed(c, "gone")

\* A missing volume is no error; one in use is.
AWSVolumeDelete(c) == Removing(c, "restore-aws") /\ Command(c, Removed(c), "gone")
GCEVolumeDelete(c) == Removing(c, "restore-gce") /\ Command(c, Removed(c), "gone")

\* A missing volume is an error, and so is one in use; that of the deletion is
\* only logged.
CinderVolumeDelete(c) ==
    \/ /\ Removing(c, "restore-cinder")
       /\ IF Volume(call[c].volume) \notin stored THEN Fail(c) ELSE Command(c, stored, "cinder")
    \/ At(c, "Delete", "cinder") /\ BestEffort(c, Removed(c), "gone")

-----------------------------------------------------------------------------
RestoreStep(c) ==
    \/ RestoreProvision(c) \/ HostPathRestore(c) \/ GlusterRestore(c) \/ AWSRestore(c)
    \/ TagDisk(c) \/ CreateDiskFromSnapshot(c) \/ CinderRestore(c)
    \/ RestoreDelete(c) \/ HostPathVolumeDelete(c) \/ GlusterVolumeDelete(c)
    \/ AWSVolumeDelete(c) \/ GCEVolumeDelete(c) \/ CinderVolumeDelete(c)
=============================================================================
