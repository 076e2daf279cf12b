----------------------------- MODULE Discoverer -----------------------------
(***************************************************************************)
(* pkg/discovery/discovery.go: the second half of a pass of the main loop. *)
(* For each class it reads the directory and the mount list once, then     *)
(* decides for each entry, from the cache and the cleanup status tracker   *)
(* (package deleter), whether to create a PV.                              *)
(***************************************************************************)
EXTENDS Deleter

VARIABLES
    classes,    \* classes DiscoverLocalVolumes is still to visit in this pass
    files,      \* entries of the ReadDir result still to look at
    mounts      \* mountPointMap: entries that were mount points when listed

discoverVars == <<classes, files, mounts>>

DiscovererTypeOK ==
    /\ classes \subseteq Classes
    /\ files \subseteq Volumes
    /\ mounts \subseteq Volumes

DiscovererInit == classes = {} /\ files = {} /\ mounts = {}

-----------------------------------------------------------------------------
\* The policy of the class must be one the provisioner supports.
Supported(c) == ClassPolicy[c] \in {"Delete", "Retain"}

\* discoverVolumesAtPath up to its loop: the policy is checked, the directory
\* read and the mounts listed.
ReadClass(c) ==
    /\ pc = "discover"
    /\ files = {}
    /\ c \in classes
    /\ Supported(c)
    /\ classes' = classes \ {c}
    /\ files' = {v \in Volumes : ClassOf[v] = c /\ media[v] # "gone"}
    /\ mounts' = {v \in files' : media[v] = "mounted"}

\* The early returns: unsupported policy, or an error of the class lister,
\* of ReadDir or of the mount list.
SkipClass(c) ==
    /\ pc = "discover"
    /\ files = {}
    /\ c \in classes
    /\ classes' = classes \ {c}
    /\ mounts' = {}
    /\ UNCHANGED files

\* A path of the mode its class asks for, and a mount point if a directory.
RightMode(v) ==
    \/ VolMode[v] = "Block"
    \/ ClassMode[ClassOf[v]] # "Block" /\ v \in mounts

Wanted_InProgressToo(v) == HasMode(v) /\ pvCache[v] = NoPV /\ RightMode(v)
Wanted(v) ==
    /\ HasMode(v)
    /\ pvCache[v] = NoPV
    /\ ~InProgress(v)
    /\ RightMode(v)

\* The loop body up to createPV.
VisitFile(v) ==
    /\ pc = "discover"
    /\ v \in files
    /\ files' = files \ {v}
    /\ Wanted(v)
    /\ Call("CreatePV", v)
    /\ UNCHANGED <<classes, mounts>>

\* The continue statements: not wanted, or an error of the class lister or
\* of the capacity calls.
SkipFile(v) ==
    /\ pc = "discover"
    /\ v \in files
    /\ files' = files \ {v}
    /\ UNCHANGED <<pc, cur, classes, mounts>>

NewPV_NoPolicy(v) == [phase |-> "Available", policy |-> "None"]
NewPV(v) == [phase |-> "Available", policy |-> ClassPolicy[ClassOf[v]]]

\* createPV: the server refuses a name that is taken.  Success and a lost
\* answer leave the same state.
CreatePVDone(v) ==
    /\ pc = "CreatePV" /\ v \in cur
    /\ apiPV[v] = NoPV
    /\ WritePV(v, NewPV(v))
    /\ pc' = "discover"
    /\ cur' = {}

CreatePVFails(v) ==
    /\ pc = "CreatePV" /\ v \in cur
    /\ pc' = "discover"
    /\ cur' = {}
    /\ UNCHANGED pvVars

EndDiscover ==
    /\ pc = "discover"
    /\ files = {}
    /\ classes = {}
    /\ pc' = "sleep"
    /\ mounts' = {}
    /\ UNCHANGED <<files, classes>>
=============================================================================
