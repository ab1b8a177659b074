----------------------------- MODULE MCGateway -----------------------------
(***************************************************************************)
(* Instances of Gateway: an admin, who has an account but no profile (what *)
(* ensureAdmin creates), and a user with both; or one account with both,   *)
(* which ensureAdmin promoted.  The other accounts are still to come.      *)
(***************************************************************************)
EXTENDS Gateway, TLC

CONSTANTS admin, u1, u2, u3, ea, e1, e2

Seeds == admin :> ea @@ u1 :> e1
SeedWithProfile == {u1}
OnlyAdmin == {admin}
OneSeed == u1 :> e1
OneAdmin == {u1}
TwoSeconds == [amount |-> 2, unit |-> "s"]

RequestSymmetry == Permutations(Call)
KeySymmetry == Permutations(Call) \cup Permutations({u2, u3})
=============================================================================
