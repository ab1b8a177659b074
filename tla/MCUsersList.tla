---------------------------- MODULE MCUsersList ----------------------------
(***************************************************************************)
(* UsersList for TLC: two profiles on two pages; profiles and clients      *)
(* are interchangeable.                                                    *)
(***************************************************************************)
EXTENDS UsersList, TLC

Symmetry == Permutations(Row) \cup Permutations(Client)
=============================================================================
