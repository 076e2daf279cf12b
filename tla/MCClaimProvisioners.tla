------------------------ MODULE MCClaimProvisioners ------------------------
(***************************************************************************)
(* Small instances of ClaimProvisioners.                                   *)
(***************************************************************************)
EXTENDS ClaimProvisioners

CONSTANTS c1, c2

\* Two claims side by side, or of one name and one after the other
MCNamings == {[c \in Claims |-> "a"], [c \in Claims |-> IF c = c1 THEN "a" ELSE "b"]}
=============================================================================
