----------------------------- MODULE Transport -----------------------------
(***************************************************************************)
(* One request queue of RabbitMQ (auth_queue or user_queue) between the    *)
(* gateway's MicroserviceProxy and a worker.                               *)
(*                                                                         *)
(* The worker consumes with noAck = false and at most Prefetch deliveries  *)
(* outstanding (createRmqServerOptions), and no handler acknowledges: a    *)
(* delivered message stays outstanding, answered or not, until the         *)
(* worker's connection goes; then the broker puts every outstanding        *)
(* message back at the head of the durable queue, in order.                *)
(*                                                                         *)
(* The gateway waits for the reply on the direct reply-to queue, with      *)
(* noAck, for eight seconds; a reply that comes later is dropped, and the  *)
(* request is not withdrawn from the queue.  Time is abstracted: a timeout *)
(* may fire whenever the gateway waits.                                    *)
(***************************************************************************)
EXTENDS Integers, Sequences, FiniteSets

CONSTANTS
  Call,        \* requests, each sent once
  Prefetch,    \* prefetchCount of the consumer
  MaxRestart   \* bound on restarts of the worker

ASSUME PrefetchAssumption == Prefetch \in Nat \ {0}
ASSUME RestartAssumption == MaxRestart \in Nat

VARIABLES
  ready,       \* messages the broker has not delivered, oldest first
  unacked,     \* messages delivered to the worker, oldest first
  handler,     \* what the worker does with a message
  replies,     \* calls with a reply under way to the gateway
  client,      \* the promise of MicroserviceProxy.send
  executions,  \* history: times the handler of a call ran to its end
  restarts

vars == <<ready, unacked, handler, replies, client, executions, restarts>>

Elements(s) == {s[i] : i \in 1 .. Len(s)}

(* The messages the broker has, in the order in which they were published. *)
Line == unacked \o ready
Published(c) == c \in Elements(Line)

Init ==
  /\ ready = <<>>
  /\ unacked = <<>>
  /\ handler = [c \in Call |-> "none"]
  /\ replies = {}
  /\ client = [c \in Call |-> "idle"]
  /\ executions = [c \in Call |-> 0]
  /\ restarts = 0

(* ClientProxy.send: publish to the queue and wait, or fail to publish.    *)
Send(c) ==
  /\ client[c] = "idle"
  /\ client' = [client EXCEPT ![c] = "waiting"]
  /\ ready' = Append(ready, c)
  /\ UNCHANGED <<unacked, handler, replies, executions, restarts>>

SendFails(c) ==
  /\ client[c] = "idle"
  /\ client' = [client EXCEPT ![c] = "failed"]
  /\ UNCHANGED <<ready, unacked, handler, replies, executions, restarts>>

(* The broker pushes the oldest message while the window is open.          *)
DeliverOneLess ==                                                  \* mutant
  /\ ready # <<>>
  /\ Len(unacked) < Prefetch - 1
  /\ handler' = [handler EXCEPT ![Head(ready)] = "running"]
  /\ unacked' = Append(unacked, Head(ready))
  /\ ready' = Tail(ready)
  /\ UNCHANGED <<replies, client, executions, restarts>>

DeliverKeepingReady ==                                             \* mutant
  /\ ready # <<>>
  /\ Len(unacked) < Prefetch
  /\ handler' = [handler EXCEPT ![Head(ready)] = "running"]
  /\ unacked' = Append(unacked, Head(ready))
  /\ UNCHANGED <<ready, replies, client, executions, restarts>>

Deliver ==
  /\ ready # <<>>
  /\ Len(unacked) < Prefetch
  /\ handler' = [handler EXCEPT ![Head(ready)] = "running"]
  /\ unacked' = Append(unacked, Head(ready))
  /\ ready' = Tail(ready)
  /\ UNCHANGED <<replies, client, executions, restarts>>

(* The handler returns or throws; either is a reply, neither is an ack.    *)
Finish(c) ==
  /\ handler[c] = "running"
  /\ handler' = [handler EXCEPT ![c] = "finished"]
  /\ executions' = [executions EXCEPT ![c] = @ + 1]
  /\ replies' = replies \cup {c}
  /\ UNCHANGED <<ready, unacked, client, restarts>>

(* A reply settles the promise that still waits for it.                    *)
ReceiveLate(c) ==                                                  \* mutant
  /\ c \in replies
  /\ replies' = replies \ {c}
  /\ client' = [client EXCEPT ![c] = "answered"]
  /\ UNCHANGED <<ready, unacked, handler, executions, restarts>>

Receive(c) ==
  /\ c \in replies
  /\ replies' = replies \ {c}
  /\ client' = [client EXCEPT ![c] = IF @ = "waiting" THEN "answered" ELSE @]
  /\ UNCHANGED <<ready, unacked, handler, executions, restarts>>

(* rxjs timeout(8_000): the caller gets 503, the message stays.            *)
NoTimeout(c) == FALSE /\ UNCHANGED vars                            \* mutant
Timeout(c) ==
  /\ client[c] = "waiting"
  /\ client' = [client EXCEPT ![c] = "timedOut"]
  /\ UNCHANGED <<ready, unacked, handler, replies, executions, restarts>>

(* The worker dies; compose starts it again.                               *)
RequeuedWhole == IF unacked = <<>> THEN <<>> ELSE <<unacked>>      \* mutant
RequeuedFirst == IF unacked = <<>> THEN <<>> ELSE <<Head(unacked)>> \* mutant
Requeued == unacked
WorkerRestart ==
  /\ restarts < MaxRestart
  /\ restarts' = restarts + 1
  /\ ready' = Requeued \o ready
  /\ unacked' = <<>>
  /\ handler' = [c \in Call |-> "none"]
  /\ UNCHANGED <<replies, client, executions>>

(* The gateway dies: its callers and its reply queue go, the requests stay.*)
GatewayRestart ==
  /\ replies' = {}
  /\ client' = [c \in Call |-> IF client[c] = "waiting" THEN "failed" ELSE client[c]]
  /\ UNCHANGED <<ready, unacked, handler, executions, restarts>>

Next ==
  \/ \E c \in Call : Send(c) \/ SendFails(c) \/ Finish(c) \/ Receive(c) \/ Timeout(c)
  \/ Deliver
  \/ WorkerRestart
  \/ GatewayRestart

Spec == Init /\ [][Next]_vars

(* The broker pushes what the window admits, the event loop runs handlers, *)
(* replies are consumed, timers fire.                                      *)
Fairness ==
  /\ WF_vars(Deliver)
  /\ \A c \in Call : WF_vars(Finish(c)) /\ WF_vars(Receive(c)) /\ WF_vars(Timeout(c))
FairSpec == Spec /\ Fairness

-----------------------------------------------------------------------------
(* Properties                                                              *)

TypeOK ==
  /\ ready \in Seq(Call)
  /\ unacked \in Seq(Call)
  /\ handler \in [Call -> {"none", "running", "finished"}]
  /\ replies \in SUBSET Call
  /\ client \in [Call -> {"idle", "waiting", "answered", "timedOut", "failed"}]
  /\ executions \in [Call -> Nat]
  /\ restarts \in 0 .. MaxRestart

(* A request that was accepted is in the broker, once, for good: restarts  *)
(* of the worker lose none and copy none, and no answer takes one out.     *)
RequestsStayInBroker ==
  /\ \A c \in Call : client[c] \in {"waiting", "answered", "timedOut"} => Published(c)
  /\ \A i, j \in 1 .. Len(Line) : Line[i] = Line[j] => i = j

(* A call runs no more often than the worker had lives, so its effects are *)
(* repeated only by redelivery after a restart of the worker.              *)
RunsOncePerWorkerLife ==
  \A c \in Call : executions[c] <= 1 + restarts

(* The promise of a call settles once: a reply after the timeout changes   *)
(* nothing for the caller.                                                 *)
SettlesOnce ==
  [][\A c \in Call :
       client[c] \in {"answered", "timedOut", "failed"} => client'[c] = client[c]]_vars

(* Every caller gets an answer or an error, also when the window is full.  *)
EveryCallSettles ==
  \A c \in Call : (client[c] = "waiting") ~> (client[c] # "waiting")

(* The oldest Prefetch messages of the queue are executed.                 *)
OldestAreExecuted ==
  \A c \in Call :
    (\E i \in 1 .. Prefetch : i <= Len(Line) /\ Line[i] = c)
      ~> (executions[c] > 0)

(* A caller sees a mailbox: whatever window, redelivery and restarts do,   *)
(* no request is lost, none runs a second time unless it ran a first, and  *)
(* a caller that is answered is answered by a run of its own request.      *)
ToRun == {c \in Call : Published(c) /\ handler[c] # "finished"}
Ran == {c \in Call : executions[c] > 0}
Known(c) == IF client[c] \in {"timedOut", "failed"} THEN "gaveUp" ELSE client[c]
Box == INSTANCE Mailbox
         WITH queue <- ToRun, ran <- Ran, outcome <- [c \in Call |-> Known(c)]
KeepsMailbox == Box!Spec

(* What the broker is for (README.md:70, "Gateway <-> microservice         *)
(* messages"; main.ts:60 of the gateway, "Inter-service traffic is         *)
(* brokered through RabbitMQ"): a request sent to a running worker is      *)
(* handled.  The ones behind the first Prefetch never are.                 *)
EveryRequestIsHandled ==
  \A c \in Call : (client[c] = "waiting") ~> (executions[c] > 0)

-----------------------------------------------------------------------------
(* What makes the safety properties inductive                              *)

(* A call with a handler is outstanding, one nobody made is not in line.   *)
HandlersOutstanding == \A c \in Call : handler[c] # "none" => c \in Elements(unacked)
IdleUnpublished == \A c \in Call : client[c] = "idle" => ~Published(c)

(* What ran was counted, once in each life of the worker.                  *)
Runs(c) == IF handler[c] = "finished" THEN restarts + 1 ELSE restarts
RunsCounted ==
  \A c \in Call :
    /\ executions[c] <= Runs(c)
    /\ handler[c] = "finished" \/ c \in replies => executions[c] > 0

TransportInvariant ==
  TypeOK /\ RequestsStayInBroker /\ HandlersOutstanding /\ IdleUnpublished /\ RunsCounted

=============================================================================
