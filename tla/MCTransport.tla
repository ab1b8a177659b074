---------------------------- MODULE MCTransport ----------------------------
(***************************************************************************)
(* Transport for TLC: three calls through a window of two deliveries, so   *)
(* that the window fills; calls are interchangeable.                       *)
(***************************************************************************)
EXTENDS Transport, TLC

CallSymmetry == Permutations(Call)
=============================================================================
