------------------------- MODULE GlusterProvisioners -------------------------
(***************************************************************************)
(* gluster/block, gluster/file and gluster/glusterfs ("simple"):           *)
(* Provision and Delete.                                                   *)
(***************************************************************************)
EXTENDS ClaimProvisioner

Block == {"block-heketi", "block-cli"}
File  == {"file", "file-clone"}

-----------------------------------------------------------------------------
(***************************************************************************)
(* gluster/block: through heketi, or with the gluster-block command.  CHAP *)
(* is on.                                                                  *)
(***************************************************************************)
BlockProvision(c) ==
    /\ backend \in Block /\ CanProvision(c)
    /\ StartProvision(c, Fresh, NoGID, "create")
    /\ UNCHANGED <<gids, options>>

\* The name or the id holds a UUID: there is no volume of that name.
heketiBlockVolCreate(c) ==
    /\ backend = "block-heketi" /\ At(c, "Provision", "create")
    /\ Command(c, stored \cup {Volume(call[c].volume)}, "chap secret")

\* "create", then "modify auth enable": the volume stays if that fails.
glusterBlockExecCreate(c) ==
    /\ backend = "block-cli"
    /\ \/ /\ At(c, "Provision", "create")
          /\ Command(c, stored \cup {Volume(call[c].volume)}, "modify")
       \/ /\ At(c, "Provision", "modify")
          /\ Command(c, stored, "chap secret")

createSecretRef(c) ==
    /\ At(c, "Provision", "chap secret")
    /\ Command(c, stored \cup {Secret(call[c].volume)}, "save")

BlockDelete(c) == backend \in Block /\ StartDelete(c, "delete") /\ UNCHANGED gids

\* Variant: every error of heketi is ignored.
DeleteBlockVolume_Ignoring(c) ==
    /\ backend \in Block /\ At(c, "Delete", "delete")
    /\ BestEffort(c, stored \ {Volume(call[c].volume)}, "chap secret")

\* A missing volume is an error of the command and is ignored with heketi.
DeleteBlockVolume(c) ==
    /\ backend \in Block /\ At(c, "Delete", "delete")
    /\ IF Volume(call[c].volume) \in stored
         THEN Command(c, stored \ {Volume(call[c].volume)}, "chap secret")
         ELSE IF backend = "block-cli" THEN Fail(c) ELSE Proceed(c, "chap secret")

\* Variant: NotFound is an error.
DeleteChapSecret_Strict(c) ==
    /\ At(c, "Delete", "chap secret")
    /\ IF Secret(call[c].volume) \in stored
         THEN Command(c, stored \ {Secret(call[c].volume)}, "gone")
         ELSE Fail(c)

\* NotFound is no error.
DeleteChapSecret(c) ==
    /\ At(c, "Delete", "chap secret")
    /\ IF Secret(call[c].volume) \in stored
         THEN Command(c, stored \ {Secret(call[c].volume)}, "gone")
         ELSE Proceed(c, "gone")

-----------------------------------------------------------------------------
(***************************************************************************)
(* gluster/file: every call sets p.options and reads it again later.  The  *)
(* GID is taken first, and kept when the call fails.                       *)
(***************************************************************************)
\* Variant: gidallocate is taken for false.
FileProvision_NoGID(c) ==
    /\ backend \in File /\ CanProvision(c)
    /\ options' = c
    /\ StartProvision(c, Fresh, NoGID, "volume")
    /\ UNCHANGED gids

\* Nothing but p.options changes when the range is used up.
FileProvision(c) ==
    /\ backend \in File /\ CanProvision(c)
    /\ options' = c
    /\ IF GIDs \subseteq gids
         THEN UNCHANGED <<backend, NameOf, claim, pv, call, stored, made, gids, faults>>
         ELSE /\ gids' = gids \cup {NextGID}
              /\ StartProvision(c, Fresh, NextGID, "volume")

CreateVolume(c) ==
    /\ backend = "file" /\ At(c, "Provision", "volume")
    /\ Command(c, stored \cup {Volume(call[c].volume)}, "nodes")

\* A clone of the volume of the claim that the annotation names
createVolumeClone(c) ==
    /\ backend = "file-clone" /\ At(c, "Provision", "volume")
    /\ Command(c, stored \cup {Volume(call[c].volume)}, "nodes")

\* The volume stays if the nodes of the cluster are not told.
getClusterNodes(c) ==
    /\ backend \in File /\ At(c, "Provision", "nodes")
    /\ Command(c, stored, "endpoint")

\* dynamicEpSvcPrefix + p.options.PVC.Name
dynamicEndpoint(c) == NameOf[options]

\* Endpoints and Service of one name; AlreadyExists is no error.  On an error
\* the volume is deleted again.
createVolumeSource(c) ==
    /\ backend \in File /\ At(c, "Provision", "endpoint")
    /\ OnlyCall
    /\ \/ /\ stored' = stored \cup {Service(dynamicEndpoint(c))}
          /\ call' = [call EXCEPT ![c].endpoint = dynamicEndpoint(c), ![c].at = "annotate"]
          /\ UNCHANGED faults
       \/ /\ stored' \in {stored, stored \cup {Service(dynamicEndpoint(c))}}
          /\ Fault /\ Go(c, "undo")

UndoVolume(c) ==
    /\ backend \in File /\ At(c, "Provision", "undo")
    /\ Tried(stored \ {Volume(call[c].volume)}) /\ Return(c)

(***************************************************************************)
(* The claim is read, and the process panics if that fails; the error of   *)
(* the update is logged, or returned for a clone.                          *)
(***************************************************************************)
annotatePVC(c) ==
    /\ backend \in File /\ At(c, "Provision", "annotate")
    /\ IF claim[c] = "deleted"
         THEN Crash /\ UNCHANGED faults
         ELSE \/ Proceed(c, "save")
              \/ Fault /\ Crash
              \/ /\ Fault /\ OnlyCall /\ UNCHANGED stored
                 /\ IF backend = "file-clone" THEN Return(c) ELSE Go(c, "save")

\* The GID is free from here on, and is freed again by every retry.
FileDelete(c) ==
    /\ backend \in File /\ StartDelete(c, "delete")
    /\ gids' = gids \ {pv[c].gid}

DeleteVolume(c) ==
    /\ backend \in File /\ At(c, "Delete", "delete")
    /\ IF Volume(call[c].volume) \notin stored
         THEN Fail(c)
         ELSE Command(c, stored \ {Volume(call[c].volume)}, "service")

\* An error is logged.
deleteEndpointService(c) ==
    /\ backend \in File /\ At(c, "Delete", "service")
    /\ BestEffort(c, stored \ {Service(call[c].endpoint)}, "gone")

-----------------------------------------------------------------------------
(***************************************************************************)
(* gluster/glusterfs: bricks made with commands in pods.  The volume and   *)
(* its bricks have the name of the PV.                                     *)
(***************************************************************************)
SimpleProvision(c) ==
    /\ backend = "simple" /\ CanProvision(c) /\ ~ (GIDs \subseteq gids)
    /\ gids' = gids \cup {NextGID}
    /\ StartProvision(c, OfPV(c), NextGID, "bricks")
    /\ UNCHANGED options

createBricks(c) ==
    /\ At(c, "Provision", "bricks")
    /\ CommandOr(c, stored \cup {Bricks(call[c].volume)}, "gluster", Go(c, "stop"))

\* "volume create", which a volume of that name refuses, and "volume start"
createGlusterVolume(c) ==
    /\ At(c, "Provision", "gluster")
    /\ IF Volume(call[c].volume) \in stored
         THEN Proceed(c, "stop")
         ELSE CommandOr(c, stored \cup {Volume(call[c].volume)}, "simple service", Go(c, "stop"))

createEndpointService(c) ==
    /\ At(c, "Provision", "simple service")
    /\ OnlyCall
    /\ \/ /\ stored' = stored \cup {Service(NameOf[c])}
          /\ call' = [call EXCEPT ![c].endpoint = NameOf[c], ![c].at = "save"]
          /\ UNCHANGED faults
       \/ /\ stored' \in {stored, stored \cup {Service(NameOf[c])}}
          /\ Fault /\ Go(c, "stop")

SimpleDelete(c) == backend = "simple" /\ StartDelete(c, "stop") /\ UNCHANGED gids

\* "volume stop" and "volume delete", then rm -rf: errors are logged.
deleteGlusterVolume(c) ==
    /\ call[c].at = "stop"
    /\ BestEffort(c, stored \ {Volume(call[c].volume)}, "rm bricks")

deleteBricks(c) ==
    /\ call[c].at = "rm bricks"
    /\ BestEffort(c, stored \ {Bricks(call[c].volume)}, "rm service")

\* The last step of deleteVolume.  Provision then returns its error, with the
\* GID kept; Delete goes on to Release.
deleteSimpleService(c) ==
    /\ call[c].at = "rm service"
    /\ Tried(stored \ {Service(NameOf[c])})
    /\ IF call[c].op = "Provision" THEN Return(c) ELSE Go(c, "release")

\* The error of Release is logged.
Release(c) ==
    /\ At(c, "Delete", "release")
    /\ Go(c, "gone")
    /\ \/ gids' = gids \ {call[c].gid} /\ UNCHANGED faults
       \/ Fault /\ UNCHANGED gids
    /\ UNCHANGED <<backend, NameOf, claim, pv, stored, made, options>>

-----------------------------------------------------------------------------
GlusterStep(c) ==
    \/ BlockProvision(c) \/ heketiBlockVolCreate(c) \/ glusterBlockExecCreate(c)
    \/ createSecretRef(c) \/ BlockDelete(c) \/ DeleteBlockVolume(c) \/ DeleteChapSecret(c)
    \/ FileProvision(c) \/ CreateVolume(c) \/ createVolumeClone(c) \/ getClusterNodes(c)
    \/ createVolumeSource(c) \/ UndoVolume(c) \/ annotatePVC(c)
    \/ FileDelete(c) \/ DeleteVolume(c) \/ deleteEndpointService(c)
    \/ SimpleProvision(c) \/ createBricks(c) \/ createGlusterVolume(c)
    \/ createEndpointService(c) \/ SimpleDelete(c) \/ deleteGlusterVolume(c)
    \/ deleteBricks(c) \/ deleteSimpleService(c) \/ Release(c)
=============================================================================
