-------------------------- MODULE ClaimProvisioner --------------------------
(***************************************************************************)
(* What the provisioners of ceph/, gluster/ and snapshot/ share: the       *)
(* claims, the PVs saved for them, the calls of Provision and Delete that  *)
(* the provisioner library runs side by side, and what those calls leave   *)
(* outside: volumes, users, Secrets, Services.  One of the provisioners    *)
(* serves all claims of a behaviour (backend).                             *)
(***************************************************************************)
EXTENDS Naturals

CONSTANTS
    Claims,
    Namings,      \* the names that the claims may have: one may be used again
    Backends,     \* the provisioners, and the ways to set them up
    GIDs,         \* the range gidMin..gidMax
    MaxFaults     \* bound on the calls that fail and the restarts

ASSUME ClaimsAssumption ==
    /\ \A naming \in Namings : DOMAIN naming = Claims
    /\ GIDs \subseteq Nat \ {0}
    /\ MaxFaults \in Nat

VARIABLES
    backend,   \* constant
    NameOf,    \* the name of each claim, constant
    claim,     \* the life of each claim
    pv,        \* the PV of each claim
    call,      \* the call that runs for each claim
    stored,    \* what exists outside the provisioner
    made,      \* the UUIDs drawn
    gids,      \* the GID table of the allocator
    options,   \* p.options of the glusterfile provisioner
    faults

vars == <<backend, NameOf, claim, pv, call, stored, made, gids, options, faults>>

-----------------------------------------------------------------------------
\* What exists outside, by the name it has there
Volume(id)    == <<"volume", id>>
Bricks(id)    == <<"bricks", id>>
User(id)      == <<"user", id>>
Secret(id)    == <<"secret", id>>
Service(name) == <<"service", name>>

\* Names: a new UUID, that of the PV (the UID of the claim), of the claim, of the
\* snapshot.
Fresh     == <<"uuid", made + 1>>
OfPV(c)   == <<"pv", c>>
OfName(c) == <<"name", NameOf[c]>>
OfSnapshot == <<"snapshot", 1>>

None   == "none"
NoId   == <<>>
NoGID  == 0
NoCall == [op |-> None, at |-> None, volume |-> NoId, gid |-> NoGID, endpoint |-> None]
NoPV   == [phase |-> "none", volume |-> NoId, gid |-> NoGID, endpoint |-> None]

Names == {NameOf[c] : c \in Claims}
Ids   == {OfSnapshot}
           \cup {<<"uuid", n>> : n \in 1..made}
           \cup {OfPV(c) : c \in Claims} \cup {OfName(c) : c \in Claims}

BaseTypeOK ==
    /\ backend \in Backends
    /\ NameOf \in Namings
    /\ claim \in [Claims -> {"none", "pending", "bound", "deleted"}]
    /\ pv \in [Claims -> [phase : {"none", "saved", "removed"}, volume : Ids \cup {NoId},
                          gid : GIDs \cup {NoGID}, endpoint : Names \cup {None}]]
    /\ \A c \in Claims : pv[c].phase /= "none" => pv[c].volume \in Ids
    /\ \A c \in Claims : /\ call[c].op \in {None, "Provision", "Delete"}
                         /\ call[c].volume \in Ids \cup {NoId}
    /\ stored \subseteq {Volume(i) : i \in Ids} \cup {Bricks(i) : i \in Ids}
                          \cup {User(i) : i \in Ids} \cup {Secret(i) : i \in Ids}
                          \cup {Service(n) : n \in Names}
    /\ gids \subseteq GIDs
    /\ options \in Claims \cup {None}

BaseInit ==
    /\ backend \in Backends
    /\ NameOf \in Namings
    /\ claim = [c \in Claims |-> "none"]
    /\ pv = [c \in Claims |-> NoPV]
    /\ call = [c \in Claims |-> NoCall]
    /\ stored = {} /\ made = 0 /\ gids = {} /\ options = None
    /\ faults = 0

-----------------------------------------------------------------------------
(***************************************************************************)
(* The steps of a call                                                     *)
(***************************************************************************)
At(c, op, step) == call[c].op = op /\ call[c].at = step

Go(c, step) == call' = [call EXCEPT ![c].at = step]
Return(c)   == call' = [call EXCEPT ![c] = NoCall]

Fault == faults < MaxFaults /\ faults' = faults + 1

OnlyCall == UNCHANGED <<backend, NameOf, claim, pv, made, gids, options>>

\* The call goes on at a step, or ends with an error, for what it finds.
Proceed(c, step) == Go(c, step) /\ OnlyCall /\ UNCHANGED <<stored, faults>>
Fail(c)          == Return(c) /\ OnlyCall /\ UNCHANGED <<stored, faults>>

(***************************************************************************)
(* A command that makes of the stored things "things": it is done, or it   *)
(* is refused, or it is done and its answer is lost.                       *)
(***************************************************************************)
CommandOr(c, things, step, Otherwise) ==
    /\ OnlyCall
    /\ \/ stored' = things /\ Go(c, step) /\ UNCHANGED faults
       \/ stored' \in {stored, things} /\ Fault /\ Otherwise

Command(c, things, step) == CommandOr(c, things, step, Return(c))

\* An error of the command is only logged.
Tried(things)               == stored' \in {stored, things} /\ OnlyCall /\ UNCHANGED faults
BestEffort(c, things, step) == Tried(things) /\ Go(c, step)

-----------------------------------------------------------------------------
(***************************************************************************)
(* Users, the library and the allocator                                    *)
(***************************************************************************)
OnlyClaims == UNCHANGED <<backend, NameOf, call, stored, made, gids, options, faults>>

CreateClaim(c) ==
    /\ claim[c] = "none"
    /\ \A d \in Claims : NameOf[d] = NameOf[c] => claim[d] \notin {"pending", "bound"}
    /\ claim' = [claim EXCEPT ![c] = "pending"]
    /\ OnlyClaims /\ UNCHANGED pv

DeleteClaim(c) ==
    /\ claim[c] \in {"pending", "bound"}
    /\ claim' = [claim EXCEPT ![c] = "deleted"]
    /\ OnlyClaims /\ UNCHANGED pv

Released(c) == claim[c] = "deleted" /\ pv[c].phase = "saved"

\* Provision is called, and again after an error, while the claim has no PV.
CanProvision(c) == claim[c] = "pending" /\ call[c] = NoCall

StartProvision(c, id, gid, step) ==
    /\ call' = [call EXCEPT ![c] = [op |-> "Provision", at |-> step, volume |-> id,
                                    gid |-> gid, endpoint |-> None]]
    /\ made' = IF id = Fresh THEN made + 1 ELSE made
    /\ UNCHANGED <<backend, NameOf, claim, pv, stored, faults>>

\* The PV that Provision returned is saved, and bound if the claim is still there.
SavePV(c) ==
    /\ At(c, "Provision", "save")
    /\ pv' = [pv EXCEPT ![c] = [phase |-> "saved", volume |-> call[c].volume,
                                gid |-> call[c].gid, endpoint |-> call[c].endpoint]]
    /\ claim' = [claim EXCEPT ![c] = IF @ = "pending" THEN "bound" ELSE @]
    /\ Return(c)
    /\ UNCHANGED <<backend, NameOf, stored, made, gids, options, faults>>

CanDelete(c) == Released(c) /\ call[c] = NoCall

StartDelete(c, step) ==
    /\ CanDelete(c)
    /\ call' = [call EXCEPT ![c] = [op |-> "Delete", at |-> step, volume |-> pv[c].volume,
                                    gid |-> pv[c].gid, endpoint |-> pv[c].endpoint]]
    /\ UNCHANGED <<backend, NameOf, claim, pv, stored, made, options, faults>>

\* Delete returned nil: the PV object is deleted, or it stays and Delete is called again.
RemovePV(c) ==
    /\ At(c, "Delete", "gone")
    /\ \/ pv' = [pv EXCEPT ![c].phase = "removed"] /\ UNCHANGED faults
       \/ Fault /\ UNCHANGED pv
    /\ Return(c)
    /\ UNCHANGED <<backend, NameOf, claim, stored, made, gids, options>>

\* allocator.AllocateNext: the least GID of the range that is free
NextGID == CHOOSE g \in GIDs \ gids : \A h \in GIDs \ gids : g <= h

\* The calls are lost; the GID table is filled again from the PVs.
Crash ==
    /\ call' = [c \in Claims |-> NoCall]
    /\ gids' = {pv[c].gid : c \in {d \in Claims : pv[d].phase = "saved"}} \cap GIDs
    /\ options' = None
    /\ UNCHANGED <<backend, NameOf, claim, pv, stored, made>>

Restart == Fault /\ Crash
=============================================================================
