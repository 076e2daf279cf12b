-------------------------- MODULE CephProvisioners --------------------------
(***************************************************************************)
(* ceph/rbd and ceph/cephfs: Provision and Delete.                         *)
(***************************************************************************)
EXTENDS ClaimProvisioner

RBD    == {"rbd", "rbd-pv-name"}
CephFS == {"cephfs", "cephfs-names"}

-----------------------------------------------------------------------------
\* A random image name, or that of the PV with -use-pv-name
image(c) == IF backend = "rbd-pv-name" THEN OfPV(c) ELSE Fresh

RBDProvision(c) ==
    /\ backend \in RBD /\ CanProvision(c)
    /\ StartProvision(c, image(c), NoGID, "image")
    /\ UNCHANGED <<gids, options>>

\* "rbd create" with a timeout: an error if the image exists.
CreateImage(c) ==
    /\ At(c, "Provision", "image")
    /\ IF Volume(call[c].volume) \in stored
         THEN Fail(c)
         ELSE Command(c, stored \cup {Volume(call[c].volume)}, "save")

RBDDelete(c) == backend \in RBD /\ StartDelete(c, "status") /\ UNCHANGED gids

\* "rbd status": an error if the image is missing; a watcher is a refusal.
rbdStatus(c) ==
    /\ At(c, "Delete", "status")
    /\ IF Volume(call[c].volume) \notin stored THEN Fail(c) ELSE Command(c, stored, "rm")

DeleteImage(c) ==
    /\ At(c, "Delete", "rm")
    /\ Command(c, stored \ {Volume(call[c].volume)}, "gone")

-----------------------------------------------------------------------------
\* Random share and user, or both named after the claim (deterministicNames)
share(c) == IF backend = "cephfs-names" THEN OfName(c) ELSE Fresh

CephFSProvision(c) ==
    /\ backend \in CephFS /\ CanProvision(c)
    /\ StartProvision(c, share(c), NoGID, "share")
    /\ UNCHANGED <<gids, options>>

\* The script makes the directory, if it is not there, then the Ceph user.
create_share(c) ==
    /\ At(c, "Provision", "share")
    /\ Command(c, stored \cup {Volume(call[c].volume)}, "authorize")

authorize_ceph(c) ==
    /\ At(c, "Provision", "authorize")
    /\ Command(c, stored \cup {User(call[c].volume)}, "user secret")

\* AlreadyExists is no error.
CreateUserSecret(c) ==
    /\ At(c, "Provision", "user secret")
    /\ Command(c, stored \cup {Secret(call[c].volume)}, "save")

\* Variant: Delete passes the volume group to the script too.
deletedShare_Grouped(c) == Volume(call[c].volume)

(***************************************************************************)
(* The share as Delete names it.  Provision puts a share of a              *)
(* deterministic name in the volume group of the namespace                 *)
(* (CEPH_VOLUME_GROUP), Delete looks in the group "kubernetes".  The       *)
(* namespace is another.                                                   *)
(***************************************************************************)
deletedShare(c) ==
    IF backend = "cephfs-names" THEN <<"kubernetes", call[c].volume>>
                                ELSE Volume(call[c].volume)

CephFSDelete(c) == backend \in CephFS /\ StartDelete(c, "deauthorize") /\ UNCHANGED gids

\* "The volume must still exist": getxattr raises otherwise.  An error of the
\* cluster is taken for a user that is gone already, any other ends the call.
deauthorize(c) ==
    /\ At(c, "Delete", "deauthorize")
    /\ IF deletedShare(c) \notin stored
         THEN Fail(c)
         ELSE \/ Command(c, stored \ {User(call[c].volume)}, "purge")
              \/ BestEffort(c, stored \ {User(call[c].volume)}, "purge")

delete_share(c) ==
    /\ At(c, "Delete", "purge")
    /\ Command(c, stored \ {deletedShare(c)}, "user secret")

\* NotFound is an error here.
DeleteUserSecret(c) ==
    /\ At(c, "Delete", "user secret")
    /\ IF Secret(call[c].volume) \notin stored
         THEN Fail(c)
         ELSE Command(c, stored \ {Secret(call[c].volume)}, "gone")

-----------------------------------------------------------------------------
CephStep(c) ==
    \/ RBDProvision(c) \/ CreateImage(c)
    \/ RBDDelete(c) \/ rbdStatus(c) \/ DeleteImage(c)
    \/ CephFSProvision(c) \/ create_share(c) \/ authorize_ceph(c) \/ CreateUserSecret(c)
    \/ CephFSDelete(c) \/ deauthorize(c) \/ delete_share(c) \/ DeleteUserSecret(c)
=============================================================================
