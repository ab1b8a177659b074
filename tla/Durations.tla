----------------------------- MODULE Durations -----------------------------
(***************************************************************************)
(* Lifetimes of tokens as the environment gives them ("15m", "1d"), read   *)
(* twice: by jsonwebtoken when a token is signed, and by duration.util.ts  *)
(* when the row or the blacklist entry that goes with it is stamped.       *)
(***************************************************************************)
EXTENDS Integers

(* A setting that parseAmount matches, /^(\d+)([smhd])$/, has an amount    *)
(* and a unit.  Any other, "2w" or "3600", is the seconds jsonwebtoken     *)
(* makes of it; duration.util.ts falls back.  What is not here is zero,    *)
(* negative or unreadable for jsonwebtoken: then no token is ever valid.   *)
Unit == {"s", "m", "h", "d"}
Setting == [amount : Nat \ {0}, unit : Unit \cup {"other"}]

SECONDS == [s |-> 1, m |-> 60, h |-> 3600, d |-> 86400]
MS == [s |-> 1000, m |-> 60000, h |-> 3600000, d |-> 86400000]

FallbackSeconds == 24 * 60 * 60
FallbackMs == 7 * 86400000

ParseDurationSeconds(e) ==
  IF e.unit \in Unit THEN e.amount * SECONDS[e.unit] ELSE FallbackSeconds
ParseDurationMs(e) ==
  IF e.unit \in Unit THEN e.amount * MS[e.unit] ELSE FallbackMs

(* jsonwebtoken: the setting in milliseconds, as package ms has it, over a *)
(* thousand.                                                               *)
JwtSeconds(e) ==
  IF e.unit \in Unit THEN (e.amount * MS[e.unit]) \div 1000 ELSE e.amount
=============================================================================
