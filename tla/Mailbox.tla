------------------------------ MODULE Mailbox ------------------------------
(***************************************************************************)
(* What a caller may expect of a queue to a worker, whatever broker,       *)
(* window, connection and restart lie in between: an accepted request is   *)
(* never lost; it runs, late or never, and may run again only after it     *)
(* ran; its caller hears of it at most once, and only after it ran.        *)
(* Module Gateway takes its workers to be behind such a mailbox.           *)
(***************************************************************************)
CONSTANT Call

VARIABLES
  queue,    \* requests that are to run
  ran,      \* requests that ran at least once
  outcome   \* what the caller knows

vars == <<queue, ran, outcome>>

Init ==
  /\ queue = {} /\ ran = {}
  /\ outcome = [c \in Call |-> "idle"]

Publish(c) ==
  /\ outcome[c] = "idle"
  /\ outcome' = [outcome EXCEPT ![c] = "waiting"]
  /\ queue' = queue \cup {c}
  /\ UNCHANGED ran

Refuse(c) ==
  /\ outcome[c] = "idle"
  /\ outcome' = [outcome EXCEPT ![c] = "gaveUp"]
  /\ UNCHANGED <<queue, ran>>

Run(c) ==
  /\ c \in queue
  /\ queue' = queue \ {c}
  /\ ran' = ran \cup {c}
  /\ UNCHANGED outcome

RunAgain(S) ==
  /\ S \subseteq ran
  /\ queue' = queue \cup S
  /\ UNCHANGED <<ran, outcome>>

Answer(c) ==
  /\ outcome[c] = "waiting" /\ c \in ran
  /\ outcome' = [outcome EXCEPT ![c] = "answered"]
  /\ UNCHANGED <<queue, ran>>

(* Callers stop waiting; their requests stay.                              *)
GiveUp(S) ==
  /\ \A c \in S : outcome[c] = "waiting"
  /\ outcome' = [c \in Call |-> IF c \in S THEN "gaveUp" ELSE outcome[c]]
  /\ UNCHANGED <<queue, ran>>

Next ==
  \/ \E c \in Call : Publish(c) \/ Refuse(c) \/ Run(c) \/ Answer(c)
  \/ \E S \in SUBSET Call : RunAgain(S) \/ GiveUp(S)

Spec == Init /\ [][Next]_vars
=============================================================================
