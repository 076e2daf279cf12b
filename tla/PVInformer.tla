----------------------------- MODULE PVInformer -----------------------------
(***************************************************************************)
(* The provisioner's view of its PersistentVolumes: the PV objects in the  *)
(* API server, the watch that reports their changes, the Populator         *)
(* (pkg/populator) that handles the reports and the VolumeCache            *)
(* (pkg/cache) that it fills.  The Deleter and the Discoverer decide from  *)
(* pvCache, never from apiPV, so everything between the two matters.       *)
(*                                                                         *)
(* The API server and client-go's informer are external; they are modelled *)
(* from what the handlers in populator.go are called with.                 *)
(***************************************************************************)
EXTENDS LocalVolumes

VARIABLES
    apiPV,      \* the PV object of each volume in the API server, or NoPV
    pvEvents,   \* the reports on it the Populator has not handled yet
    pvCache     \* VolumeCache.pvs

pvVars == <<apiPV, pvEvents, pvCache>>

-----------------------------------------------------------------------------
Phases == {"Available", "Bound", "Released"}

\* What the provisioner reads of a PV: Status.Phase and the reclaim policy.
PV == [phase : Phases, policy : Policies]

\* No object; as a report, the deletion of the object.
NoPV == [phase |-> "None", policy |-> "None"]

\* The report of a deletion the watch missed: the informer's relist finds the
\* object gone and calls DeleteFunc with a cache.DeletedFinalStateUnknown.
Tombstone == [phase |-> "Unknown", policy |-> "None"]

PVTypeOK ==
    /\ apiPV \in [Volumes -> PV \cup {NoPV}]
    /\ pvCache \in [Volumes -> PV \cup {NoPV}]
    /\ pvEvents \in [Volumes -> Seq(PV \cup {NoPV, Tombstone})]

\* A PV that some claim may bind or has bound.
Claimable(pv) == pv.phase \in {"Available", "Bound"}

\* A PV whose volume nobody may count on any more: released with policy
\* Delete, or no PV at all.
Disposable(pv) == pv = [phase |-> "Released", policy |-> "Delete"] \/ pv = NoPV

-----------------------------------------------------------------------------
(***************************************************************************)
(* The API server: every change of an object is reported once, in order.   *)
(***************************************************************************)
WritePV(v, pv) ==
    /\ Len(pvEvents[v]) < MaxEvents
    /\ apiPV' = [apiPV EXCEPT ![v] = pv]
    /\ pvEvents' = [pvEvents EXCEPT ![v] = Append(@, pv)]

\* Kubernetes moves an object on and, before its release, an administrator
\* may change its reclaim policy.
SetPhase(v, from, to) ==
    /\ apiPV[v].phase = from
    /\ WritePV(v, [phase |-> to, policy |-> apiPV[v].policy])

SetPolicy(v, policy) ==
    /\ Claimable(apiPV[v])
    /\ apiPV[v].policy # policy
    /\ WritePV(v, [phase |-> apiPV[v].phase, policy |-> policy])

-----------------------------------------------------------------------------
(***************************************************************************)
(* The Populator's handlers.  Every PV of the model carries the annotation *)
(* AnnProvisionedBy of this provisioner (CreateLocalPVSpec sets it), so    *)
(* handlePVUpdate stores the object whether the cache had it or not.       *)
(***************************************************************************)
handlePVUpdate(v, pv) == pvCache' = [pvCache EXCEPT ![v] = pv]

handlePVDelete_Ignored(v) == UNCHANGED pvCache
handlePVDelete(v) == pvCache' = [pvCache EXCEPT ![v] = NoPV]

\* DeleteFunc returns early on an object that is not a *v1.PersistentVolume.
handleTombstone(v) == UNCHANGED pvCache

Populate(v) ==
    /\ pvEvents[v] # <<>>
    /\ LET e == Head(pvEvents[v])
       IN  \/ e \in PV      /\ handlePVUpdate(v, e)
           \/ e = NoPV      /\ handlePVDelete(v)
           \/ e = Tombstone /\ handleTombstone(v)
    /\ pvEvents' = [pvEvents EXCEPT ![v] = Tail(@)]
    /\ UNCHANGED apiPV

(***************************************************************************)
(* The watch breaks: reports not yet received are lost and the informer    *)
(* lists all the objects again.  What still exists is reported as it is    *)
(* now; what the informer knew and is gone is reported as a Tombstone.     *)
(***************************************************************************)
RelistPVs ==
    /\ pvEvents' = [v \in Volumes |->
                      IF apiPV[v] # NoPV THEN <<apiPV[v]>>
                      ELSE IF pvCache[v] # NoPV THEN <<Tombstone>>
                      ELSE <<>>]
    /\ UNCHANGED <<apiPV, pvCache>>

\* A new provisioner process: an empty cache, and one report per object.
RestartInformer ==
    /\ pvCache' = [v \in Volumes |-> NoPV]
    /\ pvEvents' = [v \in Volumes |-> IF apiPV[v] # NoPV THEN <<apiPV[v]>> ELSE <<>>]
    /\ UNCHANGED apiPV

PVInit ==
    /\ apiPV = [v \in Volumes |-> NoPV]
    /\ pvEvents = [v \in Volumes |-> <<>>]
    /\ pvCache = [v \in Volumes |-> NoPV]

-----------------------------------------------------------------------------
(***************************************************************************)
(* Once every report on a PV has been handled the cache holds what the API *)
(* server holds: the Populator never loses, reorders or invents a PV       *)
(* (handlePVUpdate, handlePVDelete; while no relist hides a deletion).     *)
(***************************************************************************)
CacheCatchesUp == \A v \in Volumes : pvEvents[v] = <<>> => pvCache[v] = apiPV[v]
=============================================================================
