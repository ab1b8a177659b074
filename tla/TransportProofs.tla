-------------------------- MODULE TransportProofs --------------------------
(***************************************************************************)
(* Transport for any calls, window and number of restarts: typing, that    *)
(* the broker keeps every accepted request once, that a call runs at most  *)
(* once in each life of the worker, that promises settle once, and that    *)
(* callers see a Mailbox.                                                  *)
(***************************************************************************)
EXTENDS Transport, SequenceTheorems, TLAPS

-----------------------------------------------------------------------------
(* Sequences                                                               *)

(* Moving the head of one sequence to the end of another leaves their      *)
(* concatenation alone.                                                    *)
LEMMA MoveHead ==
  ASSUME NEW S, NEW s \in Seq(S), NEW t \in Seq(S), t # <<>>
  PROVE  /\ Append(s, Head(t)) \o Tail(t) = s \o t
         /\ Append(s, Head(t)) \in Seq(S) /\ Tail(t) \in Seq(S)
  <1> DEFINE u == Append(s, Head(t)) \o Tail(t)
  <1>1. Head(t) \in S /\ Tail(t) \in Seq(S) /\ Len(Tail(t)) = Len(t) - 1
        /\ (\A i \in 1 .. Len(Tail(t)) : Tail(t)[i] = t[i + 1])
        /\ Head(t) = t[1]
    BY HeadTailProperties
  <1>2. Append(s, Head(t)) \in Seq(S) /\ Len(Append(s, Head(t))) = Len(s) + 1
        /\ (\A i \in 1 .. Len(s) + 1 :
              Append(s, Head(t))[i] = IF i <= Len(s) THEN s[i] ELSE Head(t))
    BY <1>1, AppendProperties, LenProperties
  <1>3. Len(s) \in Nat /\ Len(t) \in Nat \ {0}
    BY LenProperties, EmptySeq
  <1>4. u \in Seq(S) /\ s \o t \in Seq(S) /\ Len(u) = Len(s \o t)
        /\ Len(s \o t) = Len(s) + Len(t)
    BY <1>1, <1>2, <1>3, ConcatProperties
  <1>5. ASSUME NEW i \in 1 .. Len(s) + Len(t) PROVE u[i] = (s \o t)[i]
    <2>1. (s \o t)[i] = IF i <= Len(s) THEN s[i] ELSE t[i - Len(s)]
      BY ConcatProperties
    <2>2. u[i] = IF i <= Len(s) + 1 THEN Append(s, Head(t))[i] ELSE Tail(t)[i - (Len(s) + 1)]
      BY <1>1, <1>2, <1>3, ConcatProperties
    <2>3. CASE i <= Len(s)
      BY <2>1, <2>2, <2>3, <1>2, <1>3
    <2>4. CASE i = Len(s) + 1
      BY <2>1, <2>2, <2>4, <1>1, <1>2, <1>3
    <2>5. CASE i > Len(s) + 1
      <3>1. i - (Len(s) + 1) \in 1 .. Len(Tail(t))
        BY <2>5, <1>1, <1>3
      <3>2. Tail(t)[i - (Len(s) + 1)] = t[(i - (Len(s) + 1)) + 1]
        BY <3>1, <1>1
      <3>3. (i - (Len(s) + 1)) + 1 = i - Len(s)
        BY <1>3
      <3> QED BY <2>1, <2>2, <2>5, <3>2, <3>3, <1>3
    <2> QED BY <2>3, <2>4, <2>5, <1>3
  <1> QED BY <1>1, <1>2, <1>4, <1>5, SeqEqual

(* Appending adds one element, at the end.                                 *)
LEMMA AppendElements ==
  ASSUME NEW S, NEW s \in Seq(S), NEW e \in S
  PROVE  /\ Append(s, e) \in Seq(S)
         /\ Elements(Append(s, e)) = Elements(s) \cup {e}
  <1>1. Append(s, e) \in Seq(S) /\ Len(Append(s, e)) = Len(s) + 1 /\ Len(s) \in Nat
        /\ (\A i \in 1 .. Len(s) + 1 : Append(s, e)[i] = IF i <= Len(s) THEN s[i] ELSE e)
    BY AppendProperties, LenProperties
  <1>2. ASSUME NEW f \in Elements(Append(s, e)) PROVE f \in Elements(s) \cup {e}
    BY <1>1, <1>2 DEF Elements
  <1>3. ASSUME NEW f \in Elements(s) PROVE f \in Elements(Append(s, e))
    BY <1>1, <1>3 DEF Elements
  <1>4. e \in Elements(Append(s, e))
    <2>1. Append(s, e)[Len(s) + 1] = e
      BY <1>1
    <2> QED BY <2>1, <1>1 DEF Elements
  <1> QED BY <1>1, <1>2, <1>3, <1>4

(* The elements of a concatenation are those of its parts.                 *)
LEMMA ConcatElements ==
  ASSUME NEW S, NEW s \in Seq(S), NEW t \in Seq(S)
  PROVE  Elements(s \o t) = Elements(s) \cup Elements(t)
  <1>1. Len(s \o t) = Len(s) + Len(t) /\ Len(s) \in Nat /\ Len(t) \in Nat
        /\ (\A i \in 1 .. Len(s) + Len(t) :
              (s \o t)[i] = IF i <= Len(s) THEN s[i] ELSE t[i - Len(s)])
    BY ConcatProperties, LenProperties
  <1>2. ASSUME NEW e \in Elements(s \o t) PROVE e \in Elements(s) \cup Elements(t)
    <2>1. PICK i \in 1 .. Len(s) + Len(t) : (s \o t)[i] = e
      BY <1>1, <1>2 DEF Elements
    <2>2. CASE i <= Len(s)
      BY <2>1, <2>2, <1>1 DEF Elements
    <2>3. CASE i > Len(s)
      <3>1. i - Len(s) \in 1 .. Len(t)
        BY <2>3, <1>1
      <3> QED BY <3>1, <2>1, <2>3, <1>1 DEF Elements
    <2> QED BY <2>2, <2>3, <1>1
  <1>3. ASSUME NEW e \in Elements(s) PROVE e \in Elements(s \o t)
    <2>1. PICK i \in 1 .. Len(s) : s[i] = e
      BY <1>3 DEF Elements
    <2>2. i \in 1 .. Len(s) + Len(t) /\ (s \o t)[i] = e
      BY <2>1, <1>1
    <2> QED BY <2>2, <1>1 DEF Elements
  <1>4. ASSUME NEW e \in Elements(t) PROVE e \in Elements(s \o t)
    <2>1. PICK i \in 1 .. Len(t) : t[i] = e
      BY <1>4 DEF Elements
    <2> DEFINE k == Len(s) + i
    <2>2. k \in 1 .. Len(s) + Len(t) /\ ~(k <= Len(s)) /\ k - Len(s) = i
      BY <1>1
    <2>3. (s \o t)[k] = e
      BY <2>1, <2>2, <1>1
    <2> QED BY <2>2, <2>3, <1>1 DEF Elements
  <1> QED BY <1>2, <1>3, <1>4

LEMMA ConcatAppend ==
  ASSUME NEW S, NEW s \in Seq(S), NEW t \in Seq(S), NEW e \in S
  PROVE  s \o Append(t, e) = Append(s \o t, e)
  <1>1. Append(t, e) \in Seq(S) /\ Len(Append(t, e)) = Len(t) + 1
        /\ (\A i \in 1 .. Len(t) + 1 : Append(t, e)[i] = IF i <= Len(t) THEN t[i] ELSE e)
    BY AppendProperties, LenProperties
  <1>2. s \o t \in Seq(S) /\ Len(s \o t) = Len(s) + Len(t)
        /\ Len(s) \in Nat /\ Len(t) \in Nat
        /\ (\A i \in 1 .. Len(s) + Len(t) :
              (s \o t)[i] = IF i <= Len(s) THEN s[i] ELSE t[i - Len(s)])
    BY ConcatProperties, LenProperties
  <1> DEFINE u == s \o Append(t, e)
             v == Append(s \o t, e)
             n == Len(s) + Len(t) + 1
  <1>3. u \in Seq(S) /\ Len(u) = n
        /\ (\A i \in 1 .. n : u[i] = IF i <= Len(s) THEN s[i] ELSE Append(t, e)[i - Len(s)])
    <2>1. Len(s) + Len(Append(t, e)) = n
      BY <1>1, <1>2
    <2> QED BY <1>1, <2>1, ConcatProperties
  <1>4. v \in Seq(S) /\ Len(v) = n
        /\ (\A i \in 1 .. n : v[i] = IF i <= Len(s) + Len(t) THEN (s \o t)[i] ELSE e)
    BY <1>2, AppendProperties
  <1>5. ASSUME NEW i \in 1 .. n PROVE u[i] = v[i]
    <2>1. CASE i <= Len(s)
      BY <2>1, <1>2, <1>3, <1>4
    <2>2. CASE i > Len(s)
      <3>1. i - Len(s) \in 1 .. Len(t) + 1
        BY <2>2, <1>2
      <3>2. u[i] = Append(t, e)[i - Len(s)]
        BY <2>2, <1>2, <1>3
      <3>3. Append(t, e)[i - Len(s)] = IF i - Len(s) <= Len(t) THEN t[i - Len(s)] ELSE e
        BY <3>1, <1>1
      <3> QED BY <2>2, <3>2, <3>3, <1>2, <1>4
    <2> QED BY <2>1, <2>2, <1>2
  <1>6. \A i \in 1 .. Len(u) : u[i] = v[i]
    BY <1>3, <1>5
  <1> HIDE DEF u, v
  <1>7. u = v
    BY <1>3, <1>4, <1>6, SeqEqual
  <1> QED BY <1>7 DEF u, v

-----------------------------------------------------------------------------
(* The line of messages                                                    *)

(* A message joins at the end ...                                          *)
LEMMA LineGrows ==
  ASSUME TypeOK, NEW c \in Call, ready' = Append(ready, c), UNCHANGED unacked
  PROVE  Line' = Append(Line, c)
  BY ConcatAppend DEF TypeOK, Line

(* ... and neither delivery nor a restart changes who is in it, or where.  *)
LEMMA DeliverKeepsLine ==
  ASSUME TypeOK, Deliver
  PROVE  /\ Line' = Line
         /\ Head(ready) \in Call
         /\ Elements(unacked') = Elements(unacked) \cup {Head(ready)}
         /\ ready' \in Seq(Call) /\ unacked' \in Seq(Call)
  <1>1. Head(ready) \in Call
    BY HeadTailProperties DEF TypeOK, Deliver
  <1> QED BY <1>1, MoveHead, AppendElements DEF TypeOK, Deliver, Line

LEMMA RestartKeepsLine ==
  ASSUME TypeOK, WorkerRestart
  PROVE  Line' = Line /\ ready' \in Seq(Call) /\ unacked' = <<>>
  BY ConcatEmptySeq, ConcatProperties DEF TypeOK, WorkerRestart, Requeued, Line

LEMMA LineType ==
  ASSUME TypeOK
  PROVE  /\ Line \in Seq(Call)
         /\ Elements(Line) = Elements(unacked) \cup Elements(ready)
         /\ Elements(Line) \subseteq Call
  <1>1. Line \in Seq(Call)
    BY ConcatProperties DEF TypeOK, Line
  <1>2. Elements(Line) = Elements(unacked) \cup Elements(ready)
    BY ConcatElements DEF TypeOK, Line
  <1>3. Elements(Line) \subseteq Call
    <2> SUFFICES ASSUME NEW i \in 1 .. Len(Line) PROVE Line[i] \in Call
      BY DEF Elements
    <2> QED BY <1>1, ElementOfSeq
  <1> QED BY <1>1, <1>2, <1>3

(* What is delivered was not outstanding before: the line holds it once.   *)
LEMMA HeadIsNew ==
  ASSUME TypeOK, RequestsStayInBroker, ready # <<>>
  PROVE  Head(ready) \notin Elements(unacked)
  <1> SUFFICES ASSUME NEW i \in 1 .. Len(unacked), unacked[i] = Head(ready)
               PROVE  FALSE
    BY DEF Elements
  <1>1. Len(unacked) \in Nat /\ Len(ready) \in Nat \ {0} /\ Head(ready) = ready[1]
    BY LenProperties, EmptySeq, HeadTailProperties DEF TypeOK
  <1>2. Len(Line) = Len(unacked) + Len(ready)
        /\ (\A k \in 1 .. Len(unacked) + Len(ready) :
              Line[k] = IF k <= Len(unacked) THEN unacked[k] ELSE ready[k - Len(unacked)])
    BY ConcatProperties DEF TypeOK, Line
  <1> DEFINE j == Len(unacked) + 1
  <1>3. i \in 1 .. Len(Line) /\ j \in 1 .. Len(Line) /\ i # j /\ j - Len(unacked) = 1
    BY <1>1, <1>2
  <1>4. Line[i] = Line[j]
    BY <1>1, <1>2, <1>3
  <1> QED BY <1>3, <1>4 DEF RequestsStayInBroker

-----------------------------------------------------------------------------
(* The invariant, one operation at a time                                  *)

LEMMA InvariantInit == Init => TransportInvariant
  <1> SUFFICES ASSUME Init PROVE TransportInvariant
    OBVIOUS
  <1>1. <<>> \in Seq(Call)
    BY EmptySeq
  <1>2. Line = <<>>
    BY <1>1, ConcatEmptySeq DEF Init, Line
  <1>3. Len(Line) = 0 /\ Elements(Line) = {}
    BY <1>2, EmptySeq DEF Elements
  <1>4. TypeOK
    BY <1>1, RestartAssumption DEF Init, TypeOK
  <1>5. RequestsStayInBroker
    BY <1>3 DEF Init, RequestsStayInBroker
  <1>6. HandlersOutstanding /\ IdleUnpublished /\ RunsCounted
    BY <1>3 DEF Init, HandlersOutstanding, IdleUnpublished, RunsCounted, Runs, Published
  <1> QED BY <1>4, <1>5, <1>6 DEF TransportInvariant

LEMMA SendInvariant ==
  ASSUME TransportInvariant, NEW c \in Call, Send(c)
  PROVE  TransportInvariant'
  <1> USE DEF TransportInvariant
  <1>1. ready' = Append(ready, c) /\ UNCHANGED <<unacked, handler, replies, executions, restarts>>
        /\ client[c] = "idle" /\ client' = [client EXCEPT ![c] = "waiting"]
    BY DEF Send
  <1>2. Line \in Seq(Call) /\ Line' = Append(Line, c)
    BY <1>1, LineType, LineGrows
  <1>3. Elements(Line') = Elements(Line) \cup {c} /\ c \notin Elements(Line)
    BY <1>1, <1>2, AppendElements DEF IdleUnpublished, Published
  <1>4. TypeOK'
    BY <1>1, AppendElements DEF TypeOK
  <1>5. RequestsStayInBroker'
    <2>1. \A d \in Call : client'[d] \in {"waiting", "answered", "timedOut"}
                            => d \in Elements(Line')
      BY <1>1, <1>3 DEF RequestsStayInBroker, Published, TypeOK
    <2>2. Len(Line') = Len(Line) + 1 /\ Len(Line) \in Nat
          /\ (\A i \in 1 .. Len(Line) + 1 : Line'[i] = IF i <= Len(Line) THEN Line[i] ELSE c)
      BY <1>2, AppendProperties, LenProperties
    <2>3. ASSUME NEW i \in 1 .. Len(Line), Line[i] = c PROVE FALSE
      BY <2>3, <1>3 DEF Elements
    <2>4. ASSUME NEW i \in 1 .. Len(Line'), NEW j \in 1 .. Len(Line'), Line'[i] = Line'[j]
          PROVE  i = j
      <3>1. CASE i <= Len(Line) /\ j <= Len(Line)
        <4>1. i \in 1 .. Len(Line) /\ j \in 1 .. Len(Line) /\ Line[i] = Line[j]
          BY <3>1, <2>2, <2>4
        <4> QED BY <4>1 DEF RequestsStayInBroker
      <3>2. CASE i <= Len(Line) /\ j > Len(Line)
        BY <3>2, <2>2, <2>3, <2>4
      <3>3. CASE i > Len(Line) /\ j <= Len(Line)
        BY <3>3, <2>2, <2>3, <2>4
      <3>4. CASE i > Len(Line) /\ j > Len(Line)
        BY <3>4, <2>2
      <3> QED BY <3>1, <3>2, <3>3, <3>4, <2>2
    <2> QED BY <2>1, <2>4 DEF RequestsStayInBroker, Published
  <1>6. HandlersOutstanding' /\ RunsCounted'
    BY <1>1 DEF HandlersOutstanding, RunsCounted, Runs
  <1>7. IdleUnpublished'
    BY <1>1, <1>3 DEF IdleUnpublished, Published, TypeOK
  <1> QED BY <1>4, <1>5, <1>6, <1>7

(* Operations that leave the broker, handlers and counts alone, and make   *)
(* no call idle again or waiting.                                          *)
LEMMA ClientInvariant ==
  ASSUME TransportInvariant, UNCHANGED <<ready, unacked, handler, executions>>,
         TypeOK', replies' \subseteq replies,
         restarts' \in {restarts, restarts + 1},
         \A c \in Call : \/ client'[c] = client[c]
                         \/ client'[c] = "failed"
                         \/ client[c] = "waiting" /\ client'[c] \in {"answered", "timedOut"}
  PROVE  TransportInvariant'
  <1> USE DEF TransportInvariant
  <1>1. Line' = Line
    BY DEF Line
  <1>2. RequestsStayInBroker' /\ IdleUnpublished'
    BY <1>1 DEF RequestsStayInBroker, IdleUnpublished, Published
  <1>3. HandlersOutstanding'
    BY DEF HandlersOutstanding
  <1>4. ASSUME NEW c \in Call
        PROVE  executions'[c] <= Runs(c)' /\ (handler'[c] = "finished" \/ c \in replies' => executions'[c] > 0)
    <2>0. /\ restarts \in Nat /\ restarts' \in Nat /\ restarts <= restarts'
          /\ executions[c] \in Nat /\ executions' = executions /\ handler' = handler
      BY DEF TypeOK
    <2>1. executions[c] <= Runs(c) /\ (handler[c] = "finished" \/ c \in replies => executions[c] > 0)
      BY DEF RunsCounted
    <2>2. executions'[c] <= Runs(c)'
      <3>1. CASE handler[c] = "finished"
        <4>1. executions[c] <= restarts + 1
          BY <3>1, <2>1 DEF Runs
        <4>2. executions[c] <= restarts' + 1
          BY <4>1, <2>0
        <4> QED BY <3>1, <4>2, <2>0 DEF Runs
      <3>2. CASE handler[c] # "finished"
        <4>1. executions[c] <= restarts
          BY <3>2, <2>1 DEF Runs
        <4>2. executions[c] <= restarts'
          BY <4>1, <2>0
        <4> QED BY <3>2, <4>2, <2>0 DEF Runs
      <3> QED BY <3>1, <3>2
    <2> QED BY <2>0, <2>1, <2>2
  <1> QED BY <1>2, <1>3, <1>4 DEF RunsCounted

LEMMA SendFailsInvariant ==
  ASSUME TransportInvariant, NEW c \in Call, SendFails(c)
  PROVE  TransportInvariant'
  <1>1. TypeOK'
    BY DEF TransportInvariant, TypeOK, SendFails
  <1> QED BY <1>1, ClientInvariant DEF TransportInvariant, TypeOK, SendFails

LEMMA ReceiveInvariant ==
  ASSUME TransportInvariant, NEW c \in Call, Receive(c)
  PROVE  TransportInvariant'
  <1>1. TypeOK'
    BY DEF TransportInvariant, TypeOK, Receive
  <1> QED BY <1>1, ClientInvariant DEF TransportInvariant, TypeOK, Receive

LEMMA TimeoutInvariant ==
  ASSUME TransportInvariant, NEW c \in Call, Timeout(c)
  PROVE  TransportInvariant'
  <1>1. TypeOK'
    BY DEF TransportInvariant, TypeOK, Timeout
  <1> QED BY <1>1, ClientInvariant DEF TransportInvariant, TypeOK, Timeout

LEMMA GatewayRestartInvariant ==
  ASSUME TransportInvariant, GatewayRestart
  PROVE  TransportInvariant'
  <1>1. TypeOK'
    BY RestartAssumption DEF TransportInvariant, TypeOK, GatewayRestart
  <1> QED BY <1>1, ClientInvariant DEF TransportInvariant, TypeOK, GatewayRestart

LEMMA DeliverInvariant ==
  ASSUME TransportInvariant, Deliver
  PROVE  TransportInvariant'
  <1> USE DEF TransportInvariant
  <1> DEFINE h == Head(ready)
  <1>1. /\ Line' = Line /\ h \in Call
        /\ Elements(unacked') = Elements(unacked) \cup {h}
        /\ ready' \in Seq(Call) /\ unacked' \in Seq(Call)
    BY DeliverKeepsLine
  <1>2. h \notin Elements(unacked)
    BY HeadIsNew DEF Deliver
  <1>3. handler' = [handler EXCEPT ![h] = "running"]
        /\ UNCHANGED <<replies, client, executions, restarts>>
    BY DEF Deliver
  <1> HIDE DEF h
  <1>4. TypeOK'
    BY <1>1, <1>3 DEF TypeOK
  <1>5. RequestsStayInBroker' /\ IdleUnpublished'
    BY <1>1, <1>3 DEF RequestsStayInBroker, IdleUnpublished, Published
  <1>6. HandlersOutstanding'
    BY <1>1, <1>3 DEF HandlersOutstanding, TypeOK
  <1>7. handler[h] = "none" /\ handler'[h] = "running"
    BY <1>1, <1>2, <1>3 DEF HandlersOutstanding, TypeOK
  <1>8. ASSUME NEW c \in Call
        PROVE  /\ executions'[c] <= Runs(c)'
               /\ handler'[c] = "finished" \/ c \in replies' => executions'[c] > 0
    <2>1. executions' = executions /\ restarts' = restarts /\ replies' = replies
          /\ (handler'[c] = "finished" <=> handler[c] = "finished")
      BY <1>1, <1>3, <1>7 DEF TypeOK
    <2>2. Runs(c)' = Runs(c)
      BY <2>1 DEF Runs
    <2> QED BY <2>1, <2>2 DEF RunsCounted
  <1> QED BY <1>4, <1>5, <1>6, <1>8 DEF RunsCounted

LEMMA FinishInvariant ==
  ASSUME TransportInvariant, NEW c \in Call, Finish(c)
  PROVE  TransportInvariant'
  <1> USE DEF TransportInvariant
  <1>1. /\ handler[c] = "running" /\ handler' = [handler EXCEPT ![c] = "finished"]
        /\ executions' = [executions EXCEPT ![c] = @ + 1]
        /\ replies' = replies \cup {c}
        /\ ready' = ready /\ unacked' = unacked /\ client' = client /\ restarts' = restarts
    BY DEF Finish
  <1>2. TypeOK'
    BY <1>1 DEF TypeOK
  <1>3. RequestsStayInBroker' /\ IdleUnpublished'
    <2>1. Line' = Line
      BY <1>1 DEF Line
    <2> QED BY <1>1, <2>1 DEF RequestsStayInBroker, IdleUnpublished, Published
  <1>4. HandlersOutstanding'
    BY <1>1 DEF HandlersOutstanding, TypeOK
  <1>5. ASSUME NEW d \in Call
        PROVE  /\ executions'[d] <= Runs(d)'
               /\ handler'[d] = "finished" \/ d \in replies' => executions'[d] > 0
    <2>1. restarts \in Nat /\ executions[d] \in Nat /\ executions[d] <= Runs(d)
          /\ (handler[d] = "finished" \/ d \in replies => executions[d] > 0)
      BY DEF TypeOK, RunsCounted
    <2>2. CASE d = c
      <3>1. executions'[d] = executions[d] + 1 /\ handler'[d] = "finished" /\ handler[d] = "running"
        BY <2>2, <1>1 DEF TypeOK
      <3>2. Runs(d) = restarts /\ Runs(d)' = restarts + 1
        BY <3>1, <1>1 DEF Runs
      <3> QED BY <3>1, <3>2, <2>1
    <2>3. CASE d # c
      <3>1. executions'[d] = executions[d] /\ handler'[d] = handler[d]
            /\ (d \in replies' <=> d \in replies)
        BY <2>3, <1>1 DEF TypeOK
      <3>2. Runs(d)' = Runs(d)
        BY <3>1, <1>1 DEF Runs
      <3> QED BY <3>1, <3>2, <2>1
    <2> QED BY <2>2, <2>3
  <1> QED BY <1>2, <1>3, <1>4, <1>5 DEF RunsCounted

LEMMA WorkerRestartInvariant ==
  ASSUME TransportInvariant, WorkerRestart
  PROVE  TransportInvariant'
  <1> USE DEF TransportInvariant
  <1>1. Line' = Line /\ ready' \in Seq(Call) /\ unacked' = <<>>
    BY RestartKeepsLine
  <1>2. /\ handler' = [c \in Call |-> "none"] /\ restarts' = restarts + 1 /\ restarts < MaxRestart
        /\ replies' = replies /\ client' = client /\ executions' = executions
    BY DEF WorkerRestart
  <1>3. TypeOK'
    <2>1. unacked' \in Seq(Call)
      BY <1>1, EmptySeq
    <2> QED BY <1>1, <1>2, <2>1, RestartAssumption DEF TypeOK
  <1>4. RequestsStayInBroker' /\ IdleUnpublished'
    BY <1>1, <1>2 DEF RequestsStayInBroker, IdleUnpublished, Published
  <1>5. HandlersOutstanding'
    BY <1>2 DEF HandlersOutstanding
  <1>6. ASSUME NEW c \in Call
        PROVE  /\ executions'[c] <= Runs(c)'
               /\ handler'[c] = "finished" \/ c \in replies' => executions'[c] > 0
    <2>1. restarts \in Nat /\ executions[c] \in Nat /\ executions[c] <= Runs(c)
          /\ (c \in replies => executions[c] > 0)
      BY DEF TypeOK, RunsCounted
    <2>2. Runs(c) <= restarts + 1 /\ Runs(c) \in Nat
      BY <2>1 DEF Runs
    <2>3. Runs(c)' = restarts + 1
      BY <1>2 DEF Runs
    <2> QED BY <1>2, <2>1, <2>2, <2>3
  <1> QED BY <1>3, <1>4, <1>5, <1>6 DEF RunsCounted

LEMMA InvariantNext ==
  ASSUME TransportInvariant, [Next]_vars
  PROVE  TransportInvariant'
  <1>1. CASE Next
    <2>1. CASE \E c \in Call : Send(c) \/ SendFails(c) \/ Finish(c) \/ Receive(c) \/ Timeout(c)
      BY <2>1, SendInvariant, SendFailsInvariant, FinishInvariant, ReceiveInvariant,
         TimeoutInvariant
    <2>2. CASE Deliver
      BY <2>2, DeliverInvariant
    <2>3. CASE WorkerRestart
      BY <2>3, WorkerRestartInvariant
    <2>4. CASE GatewayRestart
      BY <2>4, GatewayRestartInvariant
    <2> QED BY <1>1, <2>1, <2>2, <2>3, <2>4 DEF Next
  <1>2. CASE UNCHANGED vars
    <2>1. TypeOK'
      BY <1>2 DEF vars, TransportInvariant, TypeOK
    <2>2. /\ UNCHANGED <<ready, unacked, handler, executions>>
          /\ replies' = replies /\ restarts' = restarts /\ client' = client
      BY <1>2 DEF vars
    <2> QED BY <2>1, <2>2, ClientInvariant
  <1> QED BY <1>1, <1>2

-----------------------------------------------------------------------------
(* Every variable keeps its type, for any number of calls, any window and  *)
(* any number of restarts.                                                 *)
THEOREM TransportTypeCorrect == Spec => []TypeOK
  <1>1. Spec => []TransportInvariant
    BY InvariantInit, InvariantNext, PTL DEF Spec
  <1>2. TransportInvariant => TypeOK
    BY DEF TransportInvariant
  <1> QED BY <1>1, <1>2, PTL

(* An accepted request is in the broker, once, for good: no delivery,      *)
(* answer or restart loses it or copies it.                                *)
THEOREM NothingIsLostOrCopied == Spec => []RequestsStayInBroker
  <1>1. Spec => []TransportInvariant
    BY InvariantInit, InvariantNext, PTL DEF Spec
  <1>2. TransportInvariant => RequestsStayInBroker
    BY DEF TransportInvariant
  <1> QED BY <1>1, <1>2, PTL

(* A call runs at most once in each life of the worker: what is outstanding *)
(* is not delivered again before a restart.                                *)
THEOREM RunsOncePerLife == Spec => []RunsOncePerWorkerLife
  <1>1. Spec => []TransportInvariant
    BY InvariantInit, InvariantNext, PTL DEF Spec
  <1>2. TransportInvariant => RunsOncePerWorkerLife
    <2> SUFFICES ASSUME TransportInvariant, NEW c \in Call PROVE executions[c] <= 1 + restarts
      BY DEF RunsOncePerWorkerLife
    <2>1. restarts \in Nat /\ executions[c] \in Nat /\ executions[c] <= Runs(c)
      BY DEF TransportInvariant, TypeOK, RunsCounted
    <2> QED BY <2>1 DEF Runs
  <1> QED BY <1>1, <1>2, PTL

(* The promise of a call settles once.                                     *)
THEOREM PromisesSettleOnce == Spec => SettlesOnce
  <1>1. ASSUME TypeOK, [Next]_vars
        PROVE  [\A c \in Call : client[c] \in {"answered", "timedOut", "failed"}
                                  => client'[c] = client[c]]_vars
    <2> SUFFICES ASSUME Next, NEW c \in Call, client[c] \in {"answered", "timedOut", "failed"}
                 PROVE  client'[c] = client[c]
      BY <1>1
    <2>1. CASE \E d \in Call : Send(d) \/ SendFails(d) \/ Receive(d) \/ Timeout(d)
      BY <2>1, <1>1 DEF TypeOK, Send, SendFails, Receive, Timeout
    <2>2. CASE (\E d \in Call : Finish(d)) \/ Deliver \/ WorkerRestart
      BY <2>2 DEF Finish, Deliver, WorkerRestart
    <2>3. CASE GatewayRestart
      BY <2>3, <1>1 DEF TypeOK, GatewayRestart
    <2> QED BY <2>1, <2>2, <2>3 DEF Next
  <1> QED BY <1>1, TransportTypeCorrect, PTL DEF Spec, SettlesOnce

-----------------------------------------------------------------------------
(* Callers see a mailbox: every operation is one of its, or invisible      *)

LEMMA SendPublishes ==
  ASSUME TransportInvariant, NEW c \in Call, Send(c)
  PROVE  Box!Publish(c)
  <1> USE DEF TransportInvariant
  <1>1. /\ client[c] = "idle" /\ client' = [client EXCEPT ![c] = "waiting"]
        /\ ready' = Append(ready, c) /\ unacked' = unacked
        /\ handler' = handler /\ executions' = executions
    BY DEF Send
  <1>2. Line \in Seq(Call) /\ Line' = Append(Line, c)
    BY <1>1, LineType, LineGrows
  <1>3. Elements(Line') = Elements(Line) \cup {c}
    BY <1>2, AppendElements
  <1>4. handler[c] # "finished"
    BY <1>1, LineType DEF HandlersOutstanding, IdleUnpublished, Published
  <1>5. ToRun' = ToRun \cup {c} /\ Ran' = Ran
    BY <1>1, <1>3, <1>4 DEF ToRun, Ran, Published
  <1>6. Known(c) = "idle"
    BY <1>1 DEF Known
  <1>7. [d \in Call |-> Known(d)]' = [[d \in Call |-> Known(d)] EXCEPT ![c] = "waiting"]
    BY <1>1 DEF Known, TypeOK
  <1> QED BY <1>5, <1>6, <1>7 DEF Box!Publish

LEMMA SendFailsRefuses ==
  ASSUME TransportInvariant, NEW c \in Call, SendFails(c)
  PROVE  Box!Refuse(c)
  <1> USE DEF TransportInvariant
  <1>1. /\ client[c] = "idle" /\ client' = [client EXCEPT ![c] = "failed"]
        /\ ready' = ready /\ unacked' = unacked
        /\ handler' = handler /\ executions' = executions
    BY DEF SendFails
  <1>2. ToRun' = ToRun /\ Ran' = Ran
    BY <1>1 DEF ToRun, Ran, Published, Line
  <1>3. Known(c) = "idle"
    BY <1>1 DEF Known
  <1>4. [d \in Call |-> Known(d)]' = [[d \in Call |-> Known(d)] EXCEPT ![c] = "gaveUp"]
    BY <1>1 DEF Known, TypeOK
  <1> QED BY <1>2, <1>3, <1>4 DEF Box!Refuse

LEMMA FinishRuns ==
  ASSUME TransportInvariant, NEW c \in Call, Finish(c)
  PROVE  Box!Run(c)
  <1> USE DEF TransportInvariant
  <1>1. /\ handler[c] = "running" /\ handler' = [handler EXCEPT ![c] = "finished"]
        /\ executions' = [executions EXCEPT ![c] = @ + 1]
        /\ ready' = ready /\ unacked' = unacked /\ client' = client
    BY DEF Finish
  <1>2. Line' = Line /\ c \in Elements(Line)
    BY <1>1, LineType DEF Line, HandlersOutstanding
  <1>3. c \in ToRun /\ ToRun' = ToRun \ {c}
    BY <1>1, <1>2 DEF ToRun, Published, TypeOK
  <1>4. Ran' = Ran \cup {c}
    <2>1. executions[c] \in Nat /\ executions'[c] = executions[c] + 1
          /\ (\A d \in Call \ {c} : executions'[d] = executions[d])
      BY <1>1 DEF TypeOK
    <2> QED BY <2>1 DEF Ran
  <1>5. [d \in Call |-> Known(d)]' = [d \in Call |-> Known(d)]
    BY <1>1 DEF Known
  <1> QED BY <1>3, <1>4, <1>5 DEF Box!Run

(* A reply answers the caller that waits, and no one else hears of it.     *)
LEMMA ReceiveAnswers ==
  ASSUME TransportInvariant, NEW c \in Call, Receive(c)
  PROVE  Box!Answer(c) \/ UNCHANGED Box!vars
  <1> USE DEF TransportInvariant
  <1>1. /\ c \in replies
        /\ client' = [client EXCEPT ![c] = IF client[c] = "waiting" THEN "answered" ELSE client[c]]
        /\ ready' = ready /\ unacked' = unacked
        /\ handler' = handler /\ executions' = executions
    BY DEF Receive
  <1>2. ToRun' = ToRun /\ Ran' = Ran
    BY <1>1 DEF ToRun, Ran, Published, Line
  <1>3. c \in Ran
    BY <1>1 DEF RunsCounted, Ran
  <1>4. CASE client[c] = "waiting"
    <2>1. Known(c) = "waiting"
      BY <1>4 DEF Known
    <2>2. [d \in Call |-> Known(d)]' = [[d \in Call |-> Known(d)] EXCEPT ![c] = "answered"]
      BY <1>1, <1>4 DEF Known, TypeOK
    <2> QED BY <1>2, <1>3, <2>1, <2>2 DEF Box!Answer
  <1>5. CASE client[c] # "waiting"
    <2>1. client' = client
      BY <1>1, <1>5 DEF TypeOK
    <2>2. [d \in Call |-> Known(d)]' = [d \in Call |-> Known(d)]
      BY <2>1 DEF Known
    <2> QED BY <1>2, <2>2 DEF Box!vars
  <1> QED BY <1>4, <1>5

LEMMA TimeoutGivesUp ==
  ASSUME TransportInvariant, NEW c \in Call, Timeout(c)
  PROVE  Box!GiveUp({c})
  <1> USE DEF TransportInvariant
  <1>1. /\ client[c] = "waiting" /\ client' = [client EXCEPT ![c] = "timedOut"]
        /\ ready' = ready /\ unacked' = unacked
        /\ handler' = handler /\ executions' = executions
    BY DEF Timeout
  <1>2. ToRun' = ToRun /\ Ran' = Ran
    BY <1>1 DEF ToRun, Ran, Published, Line
  <1>3. Known(c) = "waiting"
    BY <1>1 DEF Known
  <1>4. [d \in Call |-> Known(d)]'
          = [d \in Call |-> IF d \in {c} THEN "gaveUp" ELSE [e \in Call |-> Known(e)][d]]
    BY <1>1 DEF Known, TypeOK
  <1> QED BY <1>2, <1>3, <1>4 DEF Box!GiveUp

LEMMA DeliverIsInvisible ==
  ASSUME TransportInvariant, Deliver
  PROVE  UNCHANGED Box!vars
  <1> USE DEF TransportInvariant
  <1> DEFINE h == Head(ready)
  <1>1. Line' = Line /\ h \in Call /\ h \notin Elements(unacked)
    BY DeliverKeepsLine, HeadIsNew DEF Deliver
  <1>2. handler' = [handler EXCEPT ![h] = "running"] /\ client' = client /\ executions' = executions
    BY DEF Deliver
  <1> HIDE DEF h
  <1>3. handler[h] = "none"
    BY <1>1 DEF HandlersOutstanding
  <1>4. ToRun' = ToRun /\ Ran' = Ran
    BY <1>1, <1>2, <1>3 DEF ToRun, Ran, Published, TypeOK
  <1>5. [d \in Call |-> Known(d)]' = [d \in Call |-> Known(d)]
    BY <1>2 DEF Known
  <1> QED BY <1>4, <1>5 DEF Box!vars

(* Redelivery runs again only what ran before.                             *)
LEMMA WorkerRestartRunsAgain ==
  ASSUME TransportInvariant, WorkerRestart
  PROVE  Box!RunAgain({c \in Call : Published(c) /\ handler[c] = "finished"})
  <1> USE DEF TransportInvariant
  <1> DEFINE S == {c \in Call : Published(c) /\ handler[c] = "finished"}
  <1>1. Line' = Line /\ handler' = [c \in Call |-> "none"]
        /\ client' = client /\ executions' = executions
    BY RestartKeepsLine DEF WorkerRestart
  <1>2. S \subseteq Ran
    BY DEF RunsCounted, Ran
  <1>3. ToRun' = ToRun \cup S /\ Ran' = Ran
    BY <1>1 DEF ToRun, Ran, Published
  <1>4. [d \in Call |-> Known(d)]' = [d \in Call |-> Known(d)]
    BY <1>1 DEF Known
  <1> QED BY <1>2, <1>3, <1>4 DEF Box!RunAgain

LEMMA GatewayRestartGivesUp ==
  ASSUME TransportInvariant, GatewayRestart
  PROVE  Box!GiveUp({c \in Call : client[c] = "waiting"})
  <1> USE DEF TransportInvariant
  <1> DEFINE S == {c \in Call : client[c] = "waiting"}
  <1>1. /\ client' = [c \in Call |-> IF client[c] = "waiting" THEN "failed" ELSE client[c]]
        /\ ready' = ready /\ unacked' = unacked
        /\ handler' = handler /\ executions' = executions
    BY DEF GatewayRestart
  <1>2. ToRun' = ToRun /\ Ran' = Ran
    BY <1>1 DEF ToRun, Ran, Published, Line
  <1>3. \A c \in S : [d \in Call |-> Known(d)][c] = "waiting"
    BY DEF Known
  <1>4. [d \in Call |-> Known(d)]'
          = [d \in Call |-> IF d \in S THEN "gaveUp" ELSE [e \in Call |-> Known(e)][d]]
    BY <1>1 DEF Known, TypeOK
  <1> QED BY <1>2, <1>3, <1>4 DEF Box!GiveUp

(* Behind any window and any number of restarts, callers see a mailbox: no *)
(* request is lost, none runs again before it ran, and an answer is one of *)
(* a run of the call's own request.                                        *)
THEOREM CallersSeeAMailbox == Spec => KeepsMailbox
  <1>1. Init => Box!Init
    <2> SUFFICES ASSUME Init PROVE Box!Init
      OBVIOUS
    <2>1. \A c \in Call : ~Published(c)
      BY InvariantInit DEF Init, TransportInvariant, IdleUnpublished
    <2>2. ToRun = {} /\ Ran = {}
      BY <2>1 DEF Init, ToRun, Ran
    <2>3. [c \in Call |-> Known(c)] = [c \in Call |-> "idle"]
      BY DEF Init, Known
    <2> QED BY <2>2, <2>3 DEF Box!Init
  <1>2. ASSUME TransportInvariant, [Next]_vars
        PROVE  [Box!Next]_(Box!vars)
    <2>1. CASE \E c \in Call : Send(c) \/ SendFails(c) \/ Finish(c) \/ Receive(c)
      BY <2>1, <1>2, SendPublishes, SendFailsRefuses, FinishRuns, ReceiveAnswers DEF Box!Next
    <2>2. CASE \E c \in Call : Timeout(c)
      BY <2>2, <1>2, TimeoutGivesUp DEF Box!Next
    <2>3. CASE Deliver
      BY <2>3, <1>2, DeliverIsInvisible
    <2>4. CASE WorkerRestart
      BY <2>4, <1>2, WorkerRestartRunsAgain DEF Box!Next
    <2>5. CASE GatewayRestart
      BY <2>5, <1>2, GatewayRestartGivesUp DEF Box!Next
    <2>6. CASE UNCHANGED vars
      <3>1. UNCHANGED <<ready, unacked, handler, client, executions>>
        BY <2>6 DEF vars
      <3>2. ToRun' = ToRun /\ Ran' = Ran
        BY <3>1 DEF ToRun, Ran, Published, Line
      <3>3. [d \in Call |-> Known(d)]' = [d \in Call |-> Known(d)]
        BY <3>1 DEF Known
      <3> QED BY <3>2, <3>3 DEF Box!vars
    <2> QED BY <1>2, <2>1, <2>2, <2>3, <2>4, <2>5, <2>6 DEF Next
  <1> QED BY <1>1, <1>2, InvariantInit, InvariantNext, PTL DEF Spec, Box!Spec, KeepsMailbox

=============================================================================
