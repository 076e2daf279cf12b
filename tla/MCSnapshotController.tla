------------------------ MODULE MCSnapshotController ------------------------
(***************************************************************************)
(* Instances of SnapshotController for TLC.                                *)
(***************************************************************************)
EXTENDS SnapshotController, TLC
=============================================================================
