--------------------------- MODULE SessionLedger ---------------------------
(***************************************************************************)
(* What the auth worker promises about refresh tokens, without requests,   *)
(* rows, locks or time: a session is opened by a login or a registration,  *)
(* holds exactly one usable token while it is open, passes from one token  *)
(* to a new one, and is closed for good.  A token that was usable once and *)
(* no longer is stays so.                                                  *)
(***************************************************************************)
CONSTANTS Token, NoToken

VARIABLES
  current,   \* the usable token of a session, named by its first token
  spent      \* tokens that were usable and are not any more

ledger == <<current, spent>>

Unused(t) == t \notin spent /\ \A s \in Token : current[s] # t

Init ==
  /\ current \in [Token -> Token \cup {NoToken}]
  /\ \A s \in Token : current[s] \in {s, NoToken}
  /\ spent = {}

Open(s) ==
  /\ Unused(s)
  /\ current[s] = NoToken
  /\ current' = [current EXCEPT ![s] = s]
  /\ UNCHANGED spent

Rotate(s, t) ==
  /\ current[s] # NoToken
  /\ Unused(t)
  /\ current' = [current EXCEPT ![s] = t]
  /\ spent' = spent \cup {current[s]}

Close(S) ==
  /\ \A s \in S : current[s] # NoToken
  /\ current' = [s \in Token |-> IF s \in S THEN NoToken ELSE current[s]]
  /\ spent' = spent \cup {current[s] : s \in S}

Next ==
  \/ \E s \in Token : Open(s)
  \/ \E s, t \in Token : Rotate(s, t)
  \/ \E S \in SUBSET Token : Close(S)

Spec == Init /\ [][Next]_ledger

=============================================================================
