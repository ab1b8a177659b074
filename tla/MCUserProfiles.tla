--------------------------- MODULE MCUserProfiles ---------------------------
(***************************************************************************)
(* UserProfiles for TLC: one account, with or without a profile at the     *)
(* start; two columns and two contents, so that a save can touch a column  *)
(* nobody asked it to.                                                     *)
(***************************************************************************)
EXTENDS UserProfiles, TLC

CONSTANTS u1, r1, r2, r3, v0, v1

InitialFields == [f \in Field |-> v0]
NoSeed == [r \in {} |-> u1]
OneSeed == r1 :> u1

RequestSymmetry == Permutations(Call)
=============================================================================
