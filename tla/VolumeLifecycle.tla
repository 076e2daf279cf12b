--------------------------- MODULE VolumeLifecycle ---------------------------
(***************************************************************************)
(* What the local volume provisioner promises to the users of a volume,    *)
(* without cache, watch, table, jobs or main loop: a PV is published on a  *)
(* clean disk, claimed, released, its disk erased, and withdrawn once it   *)
(* is clean.  Nothing else happens to a PV, and no disk is erased at any   *)
(* other time.                                                             *)
(***************************************************************************)
CONSTANTS Volumes, Policies, NoPV

VARIABLES
    pv,       \* the PV of each volume, or NoPV
    soiled    \* volumes that may hold the data of a claim

AsPV(phase, policy) == [phase |-> phase, policy |-> policy]

Reclaimable(v) == pv[v] = AsPV("Released", "Delete")

Init ==
    /\ pv = [v \in Volumes |-> NoPV]
    /\ soiled = {}

Publish(v) ==
    /\ pv[v] = NoPV
    /\ v \notin soiled
    /\ \E p \in Policies : pv' = [pv EXCEPT ![v] = AsPV("Available", p)]
    /\ UNCHANGED soiled

Claim(v) ==
    /\ pv[v].phase = "Available"
    /\ pv' = [pv EXCEPT ![v].phase = "Bound"]
    /\ soiled' \in {soiled, soiled \cup {v}}

Release(v) ==
    /\ pv[v].phase = "Bound"
    /\ pv' = [pv EXCEPT ![v].phase = "Released"]
    /\ UNCHANGED soiled

SetPolicy(v) ==
    /\ pv[v].phase \in {"Available", "Bound"}
    /\ \E p \in Policies : pv' = [pv EXCEPT ![v].policy = p]
    /\ UNCHANGED soiled

Erase(v) ==
    /\ Reclaimable(v)
    /\ soiled' = soiled \ {v}
    /\ UNCHANGED pv

Withdraw(v) ==
    /\ Reclaimable(v)
    /\ v \notin soiled
    /\ pv' = [pv EXCEPT ![v] = NoPV]
    /\ UNCHANGED soiled

Next == \E v \in Volumes :
    Publish(v) \/ Claim(v) \/ Release(v) \/ SetPolicy(v) \/ Erase(v) \/ Withdraw(v)

Spec == Init /\ [][Next]_<<pv, soiled>>
=============================================================================
