--------------------------- MODULE MCAuthService ---------------------------
(***************************************************************************)
(* AuthService for TLC: the accounts that exist at the start, and the      *)
(* symmetries used (requests among themselves, unused keys among           *)
(* themselves; both only in runs without a liveness property).             *)
(***************************************************************************)
EXTENDS AuthService, TLC

CONSTANTS u1, u2, u3, e1, e2, p1, p2

OneSeed == {u1}
OneSeedEmail == u1 :> e1
OneSeedPassword == u1 :> p1

TwoSeeds == {u1, u2}
TwoSeedsEmail == u1 :> e1 @@ u2 :> e2
TwoSeedsPassword == u1 :> p1 @@ u2 :> p2

OneSecond == [amount |-> 1, unit |-> "s"]
TwoSeconds == [amount |-> 2, unit |-> "s"]

RequestSymmetry == Permutations(Call)
KeySymmetry == Permutations(Call) \cup Permutations({u2, u3})
=============================================================================
