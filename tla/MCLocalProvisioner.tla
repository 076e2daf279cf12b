------------------------- MODULE MCLocalProvisioner -------------------------
(***************************************************************************)
(* Instances of LocalProvisioner for TLC: one or two volumes, and how many *)
(* faults of which kind.                                                   *)
(***************************************************************************)
EXTENDS LocalProvisioner, TLC

CONSTANTS v1, v2, c1, c2    \* model values

NoFaults == [k \in FaultKinds |-> 0]
OneOf(kinds) == [k \in FaultKinds |-> IF k \in kinds THEN 1 ELSE 0]

LagFaults     == OneOf({"restart", "relistPVs", "unmount"})
PromptFaults  == OneOf({"restart", "relistJobs", "jobFail"})
AdminFaults   == [OneOf({"restart"}) EXCEPT !["adminDelete"] = 2]
RestartFault  == OneOf({"restart"})
AdminFault    == OneOf({"adminDelete"})

\* v1 is a directory of class c1, v2 a block device of class c2.
MCClassOf      == v1 :> c1 @@ v2 :> c2
MCClassMode    == c1 :> "Filesystem" @@ c2 :> "Block"
MCVolMode      == v1 :> "Filesystem" @@ v2 :> "Block"
AllDelete      == c1 :> "Delete" @@ c2 :> "Delete"

\* The directory alone and the block device alone.
FileClassOf    == v1 :> c1
FileVolMode    == v1 :> "Filesystem"
FileClassMode  == c1 :> "Filesystem"
FilePolicy     == c1 :> "Delete"
BlockClassOf   == v2 :> c2
BlockVolMode   == v2 :> "Block"
BlockClassMode == c2 :> "Block"
BlockPolicy    == c2 :> "Delete"
=============================================================================
