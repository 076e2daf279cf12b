-------------------------- MODULE MCNFSProvisioner --------------------------
(***************************************************************************)
(* Instances of NFSProvisioner for TLC.  Volumes are interchangeable.      *)
(***************************************************************************)
EXTENDS NFSProvisioner, TLC

Interchangeable == Permutations(Volumes)
=============================================================================
