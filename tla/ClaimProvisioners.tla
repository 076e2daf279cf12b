-------------------------- MODULE ClaimProvisioners --------------------------
(***************************************************************************)
(* The provisioners of claims with the library that calls them.            *)
(***************************************************************************)
EXTENDS CephProvisioners, GlusterProvisioners, SnapshotRestore

Init == BaseInit

Step(c) == CephStep(c) \/ GlusterStep(c) \/ RestoreStep(c) \/ SavePV(c) \/ RemovePV(c)

Next ==
    \/ \E c \in Claims : CreateClaim(c) \/ DeleteClaim(c) \/ Step(c)
    \/ Restart

Spec == Init /\ [][Next]_vars

(***************************************************************************)
(* The workers of the library go on with every call and call again after   *)
(* an error.  A call fails only within MaxFaults.                          *)
(***************************************************************************)
FairSpec == Spec /\ \A c \in Claims : WF_vars(Step(c))

TypeOK ==
    /\ BaseTypeOK
    /\ backend \in File \cup {"simple"} =>
         \A c \in Claims : pv[c].phase /= "none" => pv[c].gid \in GIDs

-----------------------------------------------------------------------------
\* What a PV of the backend needs to be mounted
Needed(c) ==
    {Volume(pv[c].volume)}
      \cup (IF backend \in CephFS THEN {User(pv[c].volume)} ELSE {})
      \cup (IF backend \in CephFS \cup Block THEN {Secret(pv[c].volume)} ELSE {})

(***************************************************************************)
(* A bound claim has its volume, its user and its Secret, whatever calls   *)
(* for other claims, old ones of its name among them, do meanwhile.        *)
(***************************************************************************)
BoundIsUsable == \A c \in Claims : claim[c] = "bound" => Needed(c) \subseteq stored

\* Delete of these ignores the errors of the commands that remove the volume.
Forgetful == {"simple", "restore-glusterfs", "restore-cinder"}

(***************************************************************************)
(* Delete returns nil only when the volume and the Secret are gone: with   *)
(* the PV object goes the last record of them.  The user of cephfs may     *)
(* stay (deauthorize).                                                     *)
(***************************************************************************)
RemovedWithPV ==
    backend \notin Forgetful =>
        \A c \in Claims : pv[c].phase = "removed" =>
            (Needed(c) \ {User(pv[c].volume)}) \cap stored = {}

-----------------------------------------------------------------------------
\* Every Provision of the claim fails: what it makes is there already, or the
\* range of GIDs is used up.
Blocked(c) ==
    /\ call[c] = NoCall
    /\ \/ backend = "rbd-pv-name" /\ Volume(OfPV(c)) \in stored
       \/ backend = "restore-glusterfs" /\ Volume(OfSnapshot) \in stored
       \/ backend \in File \cup {"simple"} /\ GIDs \subseteq gids

(***************************************************************************)
(* A pending claim is provisioned in the end, whatever an earlier call for *)
(* it left behind, or is blocked in one of the ways above.                 *)
(***************************************************************************)
ClaimIsServed ==
    \A c \in Claims : claim[c] = "pending" ~> (claim[c] /= "pending" \/ Blocked(c))

\* The volume is gone, and Delete takes that for an error.
GoneAlready(c) ==
    /\ backend \in RBD \cup File \cup {"cephfs", "block-cli", "restore-cinder"}
    /\ call[c] = NoCall
    /\ Volume(pv[c].volume) \notin stored

(***************************************************************************)
(* A released PV is removed in the end, unless the answer of the command   *)
(* that removed its volume was lost and the retry fails for that.  cephfs  *)
(* with deterministicNames looks for the share in the wrong group.         *)
(***************************************************************************)
ReleasedIsRemoved ==
    \A c \in Claims :
        (backend /= "cephfs-names" /\ Released(c)) ~> (pv[c].phase = "removed" \/ GoneAlready(c))
=============================================================================
