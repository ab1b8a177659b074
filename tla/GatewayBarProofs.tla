-------------------------- MODULE GatewayBarProofs --------------------------
(***************************************************************************)
(* What the guard keeps outside: a request that arrives with a blacklisted *)
(* token, while the entry lives, and one for a deleted account, unless a   *)
(* late save brings it back.  For any setting of the lifetimes, any number *)
(* of requests and any interleaving of late, lost and repeated calls and   *)
(* restarts.                                                               *)
(*                                                                         *)
(* The argument for tokens: none outlives one signed now, and no entry one *)
(* written now (TokensYoung), so the entry of a revocation is replaced     *)
(* only by one that lives as long (RevocationHolds), and is shorter than   *)
(* the token by no more than BlacklistTtl is shorter than JwtTtl           *)
(* (KeptOut); whoever arrives later meets the entry or the expiry          *)
(* (BarredAtDoor).  For accounts: VALIDATE asks about the account of the   *)
(* token (ValidatesBearer) and finds it deleted (OrphanAtDoor).            *)
(***************************************************************************)
EXTENDS GatewayProofs

USE DEF Public, AdminOnly, Route, AuthPattern, UserPattern, Pattern

-----------------------------------------------------------------------------
(* Tokens and entries                                                      *)

LEMMA TokenType ==
  ASSUME NEW t \in Token
  PROVE  t.user \in User /\ t.exp \in Nat /\ t # NoToken
BY NullAssumption DEF Token

LEMMA TimeType ==
  ASSUME TypeOK
  PROVE  /\ now \in Nat /\ JwtTtl \in Nat /\ BlacklistTtl \in Nat \ {0}
         /\ blacklist \in SUBSET [token : Token, header : Header, until : Nat]
         /\ closed \in [Call -> Nat] /\ barred \in [Call -> Nat]
BY Lifetimes, BoundAssumption DEF TypeOK, WorldOK, RequestsOK, Time

(* What handlers do in Redis: nothing, or an entry for their own request;  *)
(* only Blacklist counts as the end of a revocation.                       *)
LEMMA HandleWrites ==
  ASSUME TypeOK, PayloadsOK, NEW c \in Call, Handle(c)
  PROVE  /\ \/ blacklist' = blacklist
            \/ req[c].token \in Token /\ blacklist' = WithEntry(req[c])
         /\ \/ closed' = closed
            \/ /\ Blacklist(c) /\ req[c].token \in Token /\ blacklist' = WithEntry(req[c])
               /\ closed' = [closed EXCEPT ![c] = now + BlacklistTtl]
<1>1. CASE Blacklist(c) \/ BlacklistFails(c)
  <2>1. req[c].token \in Token
    BY <1>1 DEF Blacklist, BlacklistFails, PayloadsOK, PayloadOK
  <2> QED BY <1>1, <2>1 DEF Blacklist, BlacklistFails
<1>2. CASE ~Blacklist(c) /\ ~BlacklistFails(c)
  BY <1>2
  DEF Handle, TurnedAway, Guard, Enter, Throws, HandlerTimeout, Registered, ProfileCreated,
      Compensate, Compensated, LoggedIn, Served, PasswordChanged, ProfileFound, Deactivated, redis
<1> QED BY <1>1, <1>2

(* Every step either keeps the entries, or drops those whose time has come *)
(* as the clock moves, or writes one for a request's token.                *)
LEMMA BlacklistStep ==
  ASSUME TypeOK, PayloadsOK, [Next]_vars
  PROVE  \/ blacklist' = blacklist /\ now' = now
         \/ Tick
         \/ /\ now' = now
            /\ \E c \in Call : req[c].token \in Token /\ blacklist' = WithEntry(req[c])
<1>1. ASSUME NEW c \in Call, Handle(c)
      PROVE  /\ now' = now
             /\ \/ blacklist' = blacklist
                \/ req[c].token \in Token /\ blacklist' = WithEntry(req[c])
  BY <1>1, HandleWrites, HandleKeeps DEF Frame
<1>2. ASSUME NEW c \in Call, Arrive(c)  PROVE blacklist' = blacklist /\ now' = now
  BY <1>2, ArriveOthers
<1>3. ASSUME NEW m \in Sent, Works(m)  PROVE blacklist' = blacklist /\ now' = now
  BY <1>3, WorkKeeps
<1>4. CASE WorkerRestart \/ GatewayRestart \/ UNCHANGED vars
  BY <1>4 DEF WorkerRestart, GatewayRestart, vars, redis, world
<1> QED BY <1>1, <1>2, <1>3, <1>4, StepKinds

LEMMA TickEffect ==
  ASSUME TypeOK, Tick
  PROVE  /\ now' \in Nat /\ now' > now
         /\ blacklist' = {e \in blacklist : e.until > now'}
         /\ UNCHANGED <<closed, pc, req, reply, result, answer, held, barred, orphan, account,
                        revived, queue, running, done>>
BY BoundAssumption DEF Tick, workers, rows

LEMMA NewEntry ==
  ASSUME TypeOK, NEW r \in Request, r.token \in Token
  PROVE  /\ \E e \in WithEntry(r) :
              e.token = r.token /\ e.header = r.header /\ e.until = now + BlacklistTtl
         /\ \A e \in blacklist :
              ~(e.token = r.token /\ e.header = r.header) => e \in WithEntry(r)
<1> DEFINE n == [token |-> r.token, header |-> r.header, until |-> now + BlacklistTtl]
<1>1. n \in WithEntry(r) /\ n.token = r.token /\ n.header = r.header
      /\ n.until = now + BlacklistTtl
  BY DEF WithEntry
<1>2. \A e \in blacklist : ~(e.token = r.token /\ e.header = r.header) => e \in WithEntry(r)
  BY DEF WithEntry, OtherEntries
<1> HIDE DEF n
<1> QED BY <1>1, <1>2

(* What keeps a token out stays until its time has come: an entry is only  *)
(* replaced by one that lives as long.                                     *)
LEMMA EntryStays ==
  ASSUME TypeOK, PayloadsOK, [Next]_vars, NEW t \in Token, NEW h, NEW until \in Nat,
         until <= now + BlacklistTtl,
         now >= until \/ \E e \in blacklist : e.token = t /\ e.header = h /\ e.until >= until
  PROVE  now' >= until \/ \E e \in blacklist' : e.token = t /\ e.header = h /\ e.until >= until
<1>0. /\ now \in Nat /\ BlacklistTtl \in Nat
      /\ blacklist \in SUBSET [token : Token, header : Header, until : Nat]
  BY TimeType
<1>1. CASE blacklist' = blacklist /\ now' = now
  BY <1>1
<1>2. CASE Tick
  <2>1. now' \in Nat /\ now' > now /\ blacklist' = {e \in blacklist : e.until > now'}
    BY <1>2, TickEffect
  <2>2. CASE now >= until
    BY <1>0, <2>1, <2>2
  <2>3. CASE \E e \in blacklist : e.token = t /\ e.header = h /\ e.until >= until
    <3>1. PICK e \in blacklist : e.token = t /\ e.header = h /\ e.until >= until
      BY <2>3
    <3>2. e.until \in Nat
      BY <1>0
    <3>3. CASE e.until > now'
      BY <2>1, <3>1, <3>3
    <3>4. CASE ~(e.until > now')
      BY <1>0, <2>1, <3>1, <3>2, <3>4
    <3> QED BY <3>3, <3>4
  <2> QED BY <2>2, <2>3
<1>3. ASSUME now' = now, NEW c \in Call, req[c].token \in Token, blacklist' = WithEntry(req[c])
      PROVE  \/ now' >= until
             \/ \E e \in blacklist' : e.token = t /\ e.header = h /\ e.until >= until
  <2>1. req[c] \in Request
    BY DEF TypeOK, RequestsOK
  <2>2. CASE now >= until
    BY <1>3, <2>2
  <2>3. CASE t = req[c].token /\ h = req[c].header
    <3>1. PICK e \in blacklist' :
            e.token = t /\ e.header = h /\ e.until = now + BlacklistTtl
      BY <1>3, <2>1, <2>3, NewEntry
    <3> QED BY <3>1
  <2>4. CASE /\ ~(t = req[c].token /\ h = req[c].header)
             /\ \E e \in blacklist : e.token = t /\ e.header = h /\ e.until >= until
    BY <1>3, <2>1, <2>4, NewEntry
  <2> QED BY <2>2, <2>3, <2>4
<1> QED BY <1>1, <1>2, <1>3, BlacklistStep

(* The same for the request that is kept out.                              *)
LEMMA KeptStays ==
  ASSUME TypeOK, PayloadsOK, [Next]_vars, NEW c \in Call, NEW until \in Nat,
         until <= now + BlacklistTtl, KeptOut(c, until), req'[c] = req[c]
  PROVE  KeptOut(c, until)'
<1>1. PICK t \in Token : t = req[c].token
  BY DEF KeptOut
<1>2. PICK h : h = req[c].header
  OBVIOUS
<1>3. t.exp + BlacklistTtl <= until + JwtTtl
  BY <1>1 DEF KeptOut
<1>4. now >= until \/ \E e \in blacklist : e.token = t /\ e.header = h /\ e.until >= until
  BY <1>1, <1>2 DEF KeptOut
<1>5. now' >= until \/ \E e \in blacklist' : e.token = t /\ e.header = h /\ e.until >= until
  BY <1>4, EntryStays
<1>6. req'[c].token = t /\ req'[c].header = h
  BY <1>1, <1>2
<1> QED BY <1>3, <1>5, <1>6 DEF KeptOut

-----------------------------------------------------------------------------
(* No token outlives one signed now                                        *)

LEMMA YoungStep ==
  ASSUME TypeOK, PayloadsOK, TokensYoung, \A c \in Call : RouteStage(c), [Next]_vars
  PROVE  TokensYoung'
<1>0. /\ now \in Nat /\ JwtTtl \in Nat /\ BlacklistTtl \in Nat
      /\ closed \in [Call -> Nat] /\ barred \in [Call -> Nat]
  BY TimeType
<1>1. /\ \A t \in held : Young(t)
      /\ \A d \in Call : /\ Young(req[d].token) /\ Young(reply[d].token) /\ Young(result[d])
                         /\ closed[d] <= now + BlacklistTtl /\ barred[d] <= now + BlacklistTtl
  BY DEF TokensYoung
<1>2. ASSUME now' = now,
             \A t \in held' : Young(t),
             \A d \in Call : Young(req'[d].token) /\ Young(reply'[d].token) /\ Young(result'[d]),
             \A d \in Call : /\ closed'[d] <= now + BlacklistTtl
                             /\ barred'[d] <= now + BlacklistTtl
      PROVE  TokensYoung'
  BY <1>2 DEF TokensYoung, Young
<1>3. Young(NoToken) /\ NoReply.token = NoToken
  BY NullAssumption DEF Young, NoReply
<1>4. ASSUME NEW c \in Call, Arrive(c)  PROVE TokensYoung'
  <2>1. /\ now' = now /\ held' = held /\ result' = result /\ closed' = closed
        /\ \A d \in Call \ {c} : req'[d] = req[d] /\ reply'[d] = reply[d] /\ barred'[d] = barred[d]
        /\ reply'[c] \in {reply[c], NoReply}
        /\ req'[c].token = NoToken \/ req'[c].token \in held
        /\ barred'[c] \in {barred[c], 0} \/ \E e \in Call : barred'[c] = closed[e]
    BY <1>4, ArriveOthers DEF Revocations
  <2>2. ASSUME NEW d \in Call
        PROVE  Young(req'[d].token) /\ Young(reply'[d].token) /\ Young(result'[d])
    <3>1. Young(req'[d].token)
      <4>1. CASE d = c
        BY <1>1, <1>3, <2>1, <4>1
      <4>2. CASE d # c
        BY <1>1, <2>1, <4>2
      <4> QED BY <4>1, <4>2
    <3>2. Young(reply'[d].token)
      <4>1. CASE d = c
        BY <1>1, <1>3, <2>1, <4>1
      <4>2. CASE d # c
        BY <1>1, <2>1, <4>2
      <4> QED BY <4>1, <4>2
    <3> QED BY <1>1, <2>1, <3>1, <3>2
  <2>3. \A d \in Call : closed'[d] <= now + BlacklistTtl /\ barred'[d] <= now + BlacklistTtl
    BY <1>0, <1>1, <2>1
  <2> QED BY <1>1, <1>2, <2>1, <2>2, <2>3
<1>5. ASSUME NEW c \in Call, Handle(c)  PROVE TokensYoung'
  <2>1. now' = now /\ req' = req /\ barred' = barred
    BY <1>5, HandleKeeps DEF Frame
  <2>2. \/ held' = held
        \/ ProfileCreated(c) /\ HandOver(c, result[c])
        \/ LoggedIn(c) /\ HandOver(c, reply[c].token)
    BY <1>5 DEF Handle, TurnedAway, Guard, Enter, Throws, HandlerTimeout, Registered,
                ProfileCreated, Compensate, Compensated, LoggedIn, Served, PasswordChanged,
                Blacklist, BlacklistFails, ProfileFound, Deactivated
  <2>3. \A t \in held' : Young(t)
    BY <1>1, <2>2 DEF HandOver
  <2>4. \A d \in Call : result'[d] \in {result[d], reply[d].token}
    BY <1>5 DEF TypeOK, RequestsOK, Handle, TurnedAway, Guard, Enter, Throws, HandlerTimeout,
                Registered, ProfileCreated, Compensate, Compensated, LoggedIn, Served,
                PasswordChanged, Blacklist, BlacklistFails, ProfileFound, Deactivated
  <2>5. \A d \in Call : reply'[d] \in {reply[d], NoReply}
    <3>1. \/ \E s : End(c, s)
          \/ \E p, u : Await(c, p, u)
          \/ reply' = [reply EXCEPT ![c] = NoReply]
          \/ UNCHANGED reply
      BY <1>5 DEF Handle, TurnedAway, Guard, Enter, Throws, HandlerTimeout, Registered,
                  ProfileCreated, Compensate, Compensated, LoggedIn, Served, PasswordChanged,
                  Blacklist, BlacklistFails, ProfileFound, Deactivated
    <3> QED BY <3>1 DEF End, Await, TypeOK, RequestsOK
  <2>6. ASSUME NEW d \in Call
        PROVE  Young(req'[d].token) /\ Young(reply'[d].token) /\ Young(result'[d])
    <3>1. Young(req'[d].token)
      BY <1>1, <2>1
    <3>2. Young(reply'[d].token)
      BY <1>1, <1>3, <2>5
    <3>3. Young(result'[d])
      BY <1>1, <2>4
    <3> QED BY <3>1, <3>2, <3>3
  <2>7. \A d \in Call : closed'[d] <= now + BlacklistTtl
    <3>1. \A d \in Call : closed'[d] \in {closed[d], now + BlacklistTtl}
      BY <1>0, <1>5, HandleWrites
    <3> QED BY <1>0, <1>1, <3>1
  <2> QED BY <1>1, <1>2, <2>1, <2>3, <2>6, <2>7
<1>6. ASSUME NEW m \in Sent, Works(m)  PROVE TokensYoung'
  <2>1. UNCHANGED <<now, req, result, held, closed, barred>>
    BY <1>6, WorkKeeps
  <2>2. ASSUME NEW d \in Call  PROVE Young(reply'[d].token)
    <3>1. CASE reply'[d] = reply[d]
      BY <1>1, <3>1
    <3>2. CASE reply'[d].token = NoToken
      BY <1>3, <3>2
    <3>3. CASE \E u \in User : reply'[d].token = AccessToken(u)
      <4>1. reply'[d].token.exp = now + JwtTtl
        BY <3>3 DEF AccessToken
      <4> QED BY <1>0, <4>1 DEF Young
    <3> QED BY <1>6, <3>1, <3>2, <3>3, WorkAnswers
  <2> QED BY <1>1, <1>2, <2>1, <2>2
<1>7. CASE Tick
  <2>1. now' \in Nat /\ now' > now /\ UNCHANGED <<req, reply, result, held, closed, barred>>
    BY <1>7, TickEffect
  <2>2. ASSUME NEW t, Young(t)  PROVE t \in Token => t.exp <= now' + JwtTtl
    <3>1. t \in Token => t.exp \in Nat
      BY TokenType
    <3> QED BY <1>0, <2>1, <2>2, <3>1 DEF Young
  <2>3. \A d \in Call : closed[d] <= now' + BlacklistTtl /\ barred[d] <= now' + BlacklistTtl
    BY <1>0, <1>1, <2>1
  <2> QED BY <1>1, <2>1, <2>2, <2>3 DEF TokensYoung, Young
<1>8. CASE WorkerRestart \/ UNCHANGED vars
  BY <1>8 DEF WorkerRestart, vars, redis, world, TokensYoung, Young
<1>9. CASE GatewayRestart
  <2>1. /\ UNCHANGED <<now, req, result, held, closed, barred>>
        /\ \A d \in Call : reply'[d] = NoReply
    BY <1>9 DEF GatewayRestart, redis
  <2> QED BY <1>1, <1>2, <1>3, <2>1
<1> QED BY <1>4, <1>5, <1>6, <1>7, <1>8, <1>9, StepKinds

-----------------------------------------------------------------------------
(* Where a request can be                                                  *)

LEMMA HandleRoute ==
  ASSUME TypeOK, PayloadsOK, NEW c \in Call, RouteStage(c), Handle(c)
  PROVE  RouteStage(c)'
<1>1. req'[c] = req[c] /\ pc'[c] # "idle"
  BY HandleKeeps, HandleMoves DEF Frame
<1>2. ASSUME pc'[c] = "done" \/ pc'[c] = pc[c]  PROVE RouteStage(c)'
  BY <1>1, <1>2 DEF RouteStage
<1>3. ASSUME NEW s, End(c, s)  PROVE RouteStage(c)'
  BY <1>2, <1>3 DEF End, TypeOK, RequestsOK
<1>4. ASSUME NEW p, NEW u, Await(c, p, u)  PROVE pc'[c] = p
  BY <1>4 DEF Await, TypeOK, RequestsOK
<1>5. ASSUME pc' = [pc EXCEPT ![c] = "blacklist"]  PROVE RouteStage(c)'
  <2>1. pc'[c] = "blacklist"
    BY <1>5 DEF TypeOK, RequestsOK
  <2> QED BY <1>1, <2>1 DEF RouteStage
<1>6. CASE Guard(c)
  BY <1>1, <1>3, <1>4, <1>6 DEF Guard, RouteStage
<1>7. CASE Enter(c)
  BY <1>1, <1>3, <1>4, <1>5, <1>7 DEF Enter, RouteStage
<1>8. CASE Throws(c)
  BY <1>3, <1>8 DEF Throws
<1>9. CASE HandlerTimeout(c)
  BY <1>2, <1>9 DEF HandlerTimeout
<1>10. CASE Registered(c)
  <2>1. pc'[c] = "CREATE_PROFILE" /\ pc[c] = "REGISTER"
    BY <1>4, <1>10 DEF Registered, Replied
  <2> QED BY <1>1, <2>1 DEF RouteStage
<1>11. CASE \/ TurnedAway(c) \/ ProfileCreated(c) \/ Compensated(c) \/ LoggedIn(c) \/ Served(c)
            \/ BlacklistFails(c)
  BY <1>3, <1>11 DEF TurnedAway, ProfileCreated, Compensated, LoggedIn, Served, BlacklistFails
<1>12. CASE Compensate(c)
  <2>1. pc'[c] = "DEACTIVATE" /\ pc[c] = "CREATE_PROFILE"
    BY <1>4, <1>12 DEF Compensate
  <2> QED BY <1>1, <2>1 DEF RouteStage
<1>13. CASE PasswordChanged(c)
  BY <1>5, <1>13 DEF PasswordChanged
<1>14. CASE Blacklist(c)
  BY <1>1, <1>3, <1>4, <1>14 DEF Blacklist, RouteStage
<1>15. CASE ProfileFound(c) \/ Deactivated(c)
  <2>1. pc[c] \in {"FIND_ONE", "DEACTIVATE"} /\ pc'[c] \in {"DEACTIVATE", "UPDATE", "REMOVE"}
    BY <1>4, <1>15 DEF ProfileFound, Deactivated, Replied
  <2> QED BY <1>1, <2>1 DEF RouteStage
<1> QED
  BY <1>6, <1>7, <1>8, <1>9, <1>10, <1>11, <1>12, <1>13, <1>14, <1>15 DEF Handle

LEMMA RouteStep ==
  ASSUME TypeOK, PayloadsOK, \A c \in Call : RouteStage(c), [Next]_vars, NEW d \in Call
  PROVE  RouteStage(d)'
<1>1. ASSUME pc'[d] = pc[d], req'[d] = req[d], answer'[d] = answer[d], closed'[d] = closed[d],
             barred'[d] = barred[d], orphan'[d] = orphan[d]
      PROVE  RouteStage(d)'
  BY <1>1 DEF RouteStage
<1>2. ASSUME NEW c \in Call, Arrive(c)  PROVE RouteStage(d)'
  <2>1. CASE d # c
    <3>1. /\ pc'[d] = pc[d] /\ req'[d] = req[d] /\ barred'[d] = barred[d] /\ orphan'[d] = orphan[d]
          /\ answer' = answer /\ closed' = closed
      BY <1>2, <2>1, ArriveOthers
    <3> QED BY <1>1, <3>1
  <2>2. CASE d = c
    <3>1. /\ pc'[c] \in {"REGISTER", "LOGIN", "guard"}
          /\ pc'[c] # "guard" => req'[c].op \in Public
      BY <1>2, ArriveOthers
    <3> QED BY <2>2, <3>1 DEF RouteStage
  <2> QED BY <2>1, <2>2
<1>3. ASSUME NEW c \in Call, Handle(c)  PROVE RouteStage(d)'
  <2>1. CASE d # c
    <3>1. UNCHANGED <<barred, orphan>>
      BY <1>3, HandleKeeps DEF Frame
    <3>2. closed'[d] = closed[d]
      BY <1>3, <2>1, HandleWrites DEF TypeOK, WorldOK
    <3> QED BY <1>1, <1>3, <2>1, <3>1, <3>2, HandleOthers, HandleAnswers
  <2> QED BY <1>3, <2>1, HandleRoute
<1>4. ASSUME NEW m \in Sent, Works(m)  PROVE RouteStage(d)'
  BY <1>1, <1>4, WorkKeeps
<1>5. CASE WorkerRestart \/ Tick \/ UNCHANGED vars
  BY <1>1, <1>5 DEF WorkerRestart, Tick, vars, redis, world
<1>6. CASE GatewayRestart
  BY <1>6 DEF GatewayRestart, RouteStage, redis
<1> QED BY <1>2, <1>3, <1>4, <1>5, <1>6, StepKinds

-----------------------------------------------------------------------------
(* Revocations hold                                                        *)

(* The only step that completes a revocation writes its entry.             *)
LEMMA HandleRevokes ==
  ASSUME TypeOK, PayloadsOK, NEW c \in Call, RouteStage(c), Handle(c),
         req[c].op \in {"logout", "changePassword"},
         answer'[c] = "ok" \/ pc'[c] = "LOGOUT"
  PROVE  answer[c] = "ok" \/ pc[c] = "LOGOUT" \/ Blacklist(c)
<1>1. ASSUME NEW s, End(c, s), s # "ok"  PROVE answer[c] = "ok"
  BY <1>1 DEF End, TypeOK, RequestsOK
<1>2. ASSUME NEW p, NEW u, Await(c, p, u), p # "LOGOUT"  PROVE answer[c] = "ok"
  BY <1>2 DEF Await, TypeOK, RequestsOK
<1>3. ASSUME pc' = [pc EXCEPT ![c] = "blacklist"], UNCHANGED answer  PROVE answer[c] = "ok"
  BY <1>3 DEF TypeOK, RequestsOK
<1>4. CASE Guard(c)
  BY <1>1, <1>2, <1>4 DEF Guard
<1>5. CASE Enter(c)
  BY <1>1, <1>2, <1>3, <1>5 DEF Enter
<1>6. CASE Throws(c)
  BY <1>1, <1>6 DEF Throws, Errors
<1>7. CASE HandlerTimeout(c)
  BY <1>7 DEF HandlerTimeout, TypeOK, RequestsOK
<1>8. CASE Registered(c) \/ ProfileCreated(c) \/ Compensate(c) \/ LoggedIn(c)
  BY <1>8 DEF Registered, ProfileCreated, Compensate, LoggedIn, Replied, RouteStage
<1>9. CASE TurnedAway(c) \/ Compensated(c) \/ BlacklistFails(c)
  BY <1>1, <1>9 DEF TurnedAway, Compensated, BlacklistFails
<1>10. CASE Served(c)
  BY <1>10 DEF Served, Replied, RouteStage
<1>11. CASE PasswordChanged(c)
  BY <1>3, <1>11 DEF PasswordChanged
<1>12. CASE ProfileFound(c) \/ Deactivated(c)
  BY <1>12 DEF ProfileFound, Deactivated, Replied, RouteStage
<1> QED BY <1>4, <1>5, <1>6, <1>7, <1>8, <1>9, <1>10, <1>11, <1>12 DEF Handle

(* The entry a revocation writes keeps its token out.                      *)
LEMMA EntryKeepsOut ==
  ASSUME TypeOK, TokensYoung, NEW c \in Call, req[c].token \in Token, UNCHANGED <<now, req>>,
         blacklist' = WithEntry(req[c]), closed' = [closed EXCEPT ![c] = now + BlacklistTtl]
  PROVE  closed'[c] > 0 /\ KeptOut(c, closed[c])'
<1>1. /\ now \in Nat /\ JwtTtl \in Nat /\ BlacklistTtl \in Nat \ {0} /\ req[c].token.exp \in Nat
      /\ req[c].token.exp <= now + JwtTtl
  BY TimeType, TokenType DEF TokensYoung, Young
<1>2. closed'[c] = now + BlacklistTtl
  BY DEF TypeOK, WorldOK
<1>3. req[c] \in Request
  BY DEF TypeOK, RequestsOK
<1>4. PICK e \in blacklist' :
        e.token = req[c].token /\ e.header = req[c].header /\ e.until = now + BlacklistTtl
  BY <1>3, NewEntry
<1>5. e.until >= closed'[c] /\ closed'[c] > 0
  BY <1>1, <1>2, <1>4
<1>6. req'[c].token.exp + BlacklistTtl <= closed'[c] + JwtTtl
  BY <1>1, <1>2
<1> QED BY <1>4, <1>5, <1>6 DEF KeptOut

LEMMA RevocationStep ==
  ASSUME BarInvariant, [Next]_vars, NEW d \in Call
  PROVE  RevocationHolds(d)'
<1>0. /\ TypeOK /\ PayloadsOK /\ TokensYoung /\ RouteStage(d) /\ RevocationHolds(d)
      /\ closed[d] \in Nat /\ closed[d] <= now + BlacklistTtl
  BY TimeType DEF BarInvariant, RemovalInvariant, TokensYoung
<1>1. ASSUME req'[d] = req[d], closed'[d] = closed[d], closed[d] > 0
      PROVE  KeptOut(d, closed[d])'
  <2>1. PICK until \in Nat : until = closed[d]
    BY <1>0
  <2>2. KeptOut(d, until)
    BY <1>0, <1>1, <2>1 DEF RevocationHolds
  <2>3. KeptOut(d, until)'
    BY <1>0, <1>1, <2>1, <2>2, KeptStays
  <2> QED BY <1>1, <2>1, <2>3 DEF KeptOut
<1>2. ASSUME req'[d] = req[d], closed'[d] = closed[d],
             answer'[d] = "ok" => answer[d] = "ok",
             pc'[d] = "LOGOUT" => pc[d] = "LOGOUT"
      PROVE  RevocationHolds(d)'
  BY <1>0, <1>1, <1>2 DEF RevocationHolds
<1>3. ASSUME NEW c \in Call, Arrive(c)  PROVE RevocationHolds(d)'
  <2>1. CASE d # c
    BY <1>0, <1>2, <1>3, <2>1, ArriveOthers
  <2>2. CASE d = c
    <3>1. /\ pc[d] = "idle" /\ pc'[d] \in {"REGISTER", "LOGIN", "guard"}
          /\ closed' = closed /\ answer' = answer
      BY <1>0, <1>3, <2>2, ArriveOthers
    <3>2. closed'[d] = 0 /\ answer'[d] # "ok" /\ pc'[d] # "LOGOUT"
      BY <1>0, <3>1 DEF RouteStage
    <3> QED BY <3>2 DEF RevocationHolds
  <2> QED BY <2>1, <2>2
<1>4. ASSUME NEW c \in Call, Handle(c)  PROVE RevocationHolds(d)'
  <2>1. now' = now /\ req' = req
    BY <1>4, HandleKeeps DEF Frame
  <2>2. CASE d # c
    <3>1. closed'[d] = closed[d]
      BY <1>0, <1>4, <2>2, HandleWrites DEF TypeOK, WorldOK
    <3> QED BY <1>0, <1>2, <1>4, <2>1, <2>2, <3>1, HandleOthers, HandleAnswers
  <2>3. CASE d = c /\ closed' = closed /\ ~Blacklist(c)
    <3>1. req[d].op \in {"logout", "changePassword"} /\ (answer'[d] = "ok" \/ pc'[d] = "LOGOUT")
            => closed[d] > 0
      BY <1>0, <1>4, <2>3, HandleRevokes DEF RevocationHolds
    <3> QED BY <1>1, <2>1, <2>3, <3>1 DEF RevocationHolds
  <2>4. CASE d = c /\ Blacklist(c)
    <3>1. /\ req[c].token \in Token /\ blacklist' = WithEntry(req[c])
          /\ closed' = [closed EXCEPT ![c] = now + BlacklistTtl]
      BY <1>0, <2>4 DEF Blacklist, PayloadsOK, PayloadOK
    <3>2. closed'[d] > 0 /\ KeptOut(d, closed[d])'
      BY <1>0, <2>1, <2>4, <3>1, EntryKeepsOut
    <3> QED BY <3>2 DEF RevocationHolds
  <2> QED BY <1>0, <1>4, <2>2, <2>3, <2>4, HandleWrites
<1>5. ASSUME NEW m \in Sent, Works(m)  PROVE RevocationHolds(d)'
  BY <1>0, <1>2, <1>5, WorkKeeps
<1>6. CASE WorkerRestart \/ Tick \/ UNCHANGED vars
  BY <1>2, <1>6 DEF WorkerRestart, Tick, vars, redis
<1>7. CASE GatewayRestart
  BY <1>2, <1>7 DEF GatewayRestart, redis
<1> QED BY <1>0, <1>3, <1>4, <1>5, <1>6, <1>7, StepKinds

-----------------------------------------------------------------------------
(* Barred requests, and those of deleted accounts, stay at the door        *)

(* VALIDATE asks about the account of the token that was brought.          *)
LEMMA ValidateStep ==
  ASSUME BarInvariant, [Next]_vars, NEW m \in Sent'
  PROVE  ValidatesBearer(m)'
<1>0. /\ TypeOK /\ PayloadsOK /\ RemovalOrder
      /\ \A n \in Sent : ValidatesBearer(n)
  BY DEF BarInvariant, RemovalInvariant
<1>1. ASSUME m \in Sent, req'[m.by] = req[m.by]  PROVE ValidatesBearer(m)'
  BY <1>0, <1>1 DEF ValidatesBearer
<1>2. ASSUME NEW c \in Call, Arrive(c)  PROVE ValidatesBearer(m)'
  <2>1. CASE m \in Sent
    <3>1. m.by \in Call \ {c}
      BY <1>0, <1>2, <2>1, ArriveOthers, SentType DEF RemovalOrder, MessageInOrder
    <3>2. req'[m.by] = req[m.by]
      BY <1>0, <1>2, <3>1, ArriveOthers
    <3> QED BY <1>1, <2>1, <3>2
  <2>2. CASE m \in queue' \ queue
    <3>1. m.pattern # "VALIDATE"
      BY <1>0, <1>2, <2>2, ArriveOthers
    <3> QED BY <3>1 DEF ValidatesBearer
  <2>3. UNCHANGED <<running, done>>
    BY <1>0, <1>2, ArriveOthers
  <2> QED BY <2>1, <2>2, <2>3 DEF Sent
<1>3. ASSUME NEW c \in Call, Handle(c)  PROVE ValidatesBearer(m)'
  <2>1. UNCHANGED <<req, running, done>>
    BY <1>3, HandleKeeps DEF Frame
  <2>2. CASE m \in queue' \ queue
    BY <1>0, <1>3, <2>1, <2>2, HandleSends DEF ValidatesBearer
  <2> QED BY <1>1, <2>1, <2>2 DEF Sent
<1>4. ASSUME NEW n \in Sent, Works(n)  PROVE ValidatesBearer(m)'
  BY <1>0, <1>1, <1>4, WorkKeeps
<1>5. CASE WorkerRestart \/ GatewayRestart \/ Tick \/ UNCHANGED vars
  BY <1>1, <1>5, EnvironmentSent
<1> QED BY <1>0, <1>2, <1>3, <1>4, <1>5, StepKinds

(* At the door a handler turns the request away or asks VALIDATE, and an   *)
(* answer other than that of a served request stays one.                   *)
LEMMA HandleAtDoor ==
  ASSUME TypeOK, NEW c \in Call, Handle(c), pc[c] \in {"guard", "VALIDATE", "done"},
         ~Replied(c, "VALIDATE", "ok"), Unserved(c)
  PROVE  \/ pc'[c] = "done" /\ Unserved(c)'
         \/ /\ Guard(c) /\ Await(c, "VALIDATE", req[c].token.user) /\ now < req[c].token.exp
            /\ ~(Extracts(req[c].header) /\ Listed(req[c].token, req[c].header))
            /\ pc'[c] = "VALIDATE" /\ ~Replied(c, "VALIDATE", "ok")' /\ Unserved(c)'
<1>1. ASSUME NEW s \in {"refused", "failed"}, End(c, s)
      PROVE  pc'[c] = "done" /\ Unserved(c)'
  BY <1>1 DEF End, TypeOK, RequestsOK, Unserved
<1>2. CASE Guard(c)
  <2>1. ASSUME Await(c, "VALIDATE", req[c].token.user)
        PROVE  pc'[c] = "VALIDATE" /\ ~Replied(c, "VALIDATE", "ok")' /\ Unserved(c)'
    BY <2>1 DEF Await, NoReply, Replied, Unserved, TypeOK, RequestsOK
  <2> QED BY <1>1, <1>2, <2>1 DEF Guard
<1>3. CASE Throws(c)
  <2>1. pc[c] = "VALIDATE"
    BY <1>3 DEF Throws
  <2>2. \E s \in {"refused", "failed"} : End(c, s)
    BY <1>3, <2>1 DEF Throws, Errors
  <2> QED BY <1>1, <2>2
<1>4. CASE ~Guard(c) /\ ~Throws(c)
  BY <1>4
  DEF Handle, TurnedAway, Enter, HandlerTimeout, Registered, ProfileCreated, Compensate,
      Compensated, LoggedIn, Served, PasswordChanged, Blacklist, BlacklistFails, ProfileFound,
      Deactivated, Replied
<1> QED BY <1>2, <1>3, <1>4

(* The guard lets a token through only when its entry is over, which is    *)
(* before the token's own expiry only if entries are shorter than tokens.  *)
LEMMA BarredStep ==
  ASSUME BarInvariant, [Next]_vars, NEW d \in Call
  PROVE  BarredAtDoor(d)'
<1> DEFINE Over(until) == now >= until /\ BlacklistTtl < JwtTtl
<1>0. /\ TypeOK /\ PayloadsOK /\ TokensYoung /\ RouteStage(d) /\ BarredAtDoor(d)
      /\ \A c \in Call : RevocationHolds(c)
      /\ now \in Nat /\ JwtTtl \in Nat /\ BlacklistTtl \in Nat
      /\ barred[d] \in Nat /\ barred[d] <= now + BlacklistTtl
      /\ \A c \in Call : closed[c] \in Nat /\ closed[c] <= now + BlacklistTtl
  BY TimeType DEF BarInvariant, RemovalInvariant, TokensYoung
<1>1. now' \in Nat /\ now' >= now
  BY <1>0, BlacklistStep, TickEffect
<1>2. ASSUME req'[d] = req[d], barred'[d] = barred[d],
             barred[d] > 0 =>
               \/ Over(barred[d])
               \/ pc'[d] \in {"guard", "done"} /\ Unserved(d)'
      PROVE  BarredAtDoor(d)'
  <2> SUFFICES ASSUME barred[d] > 0  PROVE BarredAtDoor(d)'
    BY <1>2 DEF BarredAtDoor
  <2>1. CASE Over(barred[d])
    BY <1>0, <1>1, <1>2, <2>1 DEF BarredAtDoor
  <2>2. CASE ~Over(barred[d])
    <3>1. PICK until \in Nat : until = barred[d]
      BY <1>0
    <3>2. Extracts(req[d].header) /\ KeptOut(d, until)
      BY <1>0, <2>2, <3>1 DEF BarredAtDoor
    <3>3. KeptOut(d, until)'
      BY <1>0, <1>2, <3>1, <3>2, KeptStays
    <3>4. Extracts(req'[d].header) /\ until = barred'[d]
      BY <1>2, <3>1, <3>2
    <3> QED BY <1>2, <2>2, <3>3, <3>4 DEF BarredAtDoor, KeptOut, Extracts
  <2> QED BY <2>1, <2>2
<1>3. ASSUME NEW c \in Call, Arrive(c)  PROVE BarredAtDoor(d)'
  <2>1. CASE d # c
    <3>1. /\ req'[d] = req[d] /\ pc'[d] = pc[d] /\ barred'[d] = barred[d] /\ answer' = answer
      BY <1>0, <1>3, <2>1, ArriveOthers
    <3> QED BY <1>0, <1>2, <3>1 DEF BarredAtDoor, Unserved
  <2>2. CASE d = c
    <3>1. /\ pc[d] = "idle" /\ answer' = answer /\ blacklist' = blacklist /\ now' = now
          /\ \A e \in Call \ {c} : req'[e] = req[e]
      BY <1>0, <1>3, <2>2, ArriveOthers
    <3>2. answer[d] = "none" /\ barred[d] = 0
      BY <1>0, <3>1 DEF RouteStage
    <3> SUFFICES ASSUME barred'[d] > 0  PROVE BarredAtDoor(d)'
      BY DEF BarredAtDoor
    <3>3. /\ pc'[d] = "guard"
          /\ \E e \in Revocations(req'[d].token, req'[d].header) : barred'[d] = closed[e]
      BY <1>0, <1>3, <2>2, <3>2, ArriveOthers
    <3>4. PICK e \in Revocations(req'[d].token, req'[d].header) : barred'[d] = closed[e]
      BY <3>3
    <3>5. /\ e \in Call /\ Revoking(e) /\ Extracts(req'[d].header)
          /\ req[e].token = req'[d].token /\ req[e].header = req'[d].header
      BY DEF Revocations
    <3>6. PICK until \in Nat : until = closed[e]
      BY <1>0, <3>5
    <3>7. KeptOut(e, until)
      BY <1>0, <3>5, <3>6 DEF RevocationHolds, Revoking
    <3>8. KeptOut(d, until)'
      BY <3>1, <3>5, <3>7 DEF KeptOut
    <3> QED BY <3>1, <3>2, <3>3, <3>4, <3>5, <3>6, <3>8
         DEF BarredAtDoor, KeptOut, Extracts, Unserved
  <2> QED BY <2>1, <2>2
<1>4. ASSUME NEW c \in Call, Handle(c)  PROVE BarredAtDoor(d)'
  <2>1. UNCHANGED <<req, barred>>
    BY <1>4, HandleKeeps DEF Frame
  <2>2. CASE d # c
    <3>1. pc'[d] = pc[d] /\ answer'[d] = answer[d]
      BY <1>0, <1>4, <2>2, HandleOthers, HandleAnswers
    <3> QED BY <1>0, <1>2, <2>1, <3>1 DEF BarredAtDoor, Unserved
  <2>3. CASE d = c
    <3>1. ASSUME barred[d] > 0, ~Over(barred[d])
          PROVE  pc'[d] \in {"guard", "done"} /\ Unserved(d)'
      <4>1. /\ pc[d] \in {"guard", "done"} /\ Unserved(d)
            /\ Extracts(req[d].header) /\ KeptOut(d, barred[d])
        BY <1>0, <3>1 DEF BarredAtDoor
      <4>2. ASSUME now < req[d].token.exp, ~Listed(req[d].token, req[d].header)  PROVE FALSE
        <5>1. /\ now >= barred[d] /\ req[d].token.exp \in Nat
              /\ req[d].token.exp + BlacklistTtl <= barred[d] + JwtTtl
          BY <4>1, <4>2, TokenType DEF KeptOut, Listed
        <5>2. BlacklistTtl < JwtTtl
          BY <1>0, <4>2, <5>1
        <5> QED BY <3>1, <5>1, <5>2
      <4> QED BY <1>0, <1>4, <2>3, <4>1, <4>2, HandleAtDoor DEF Replied
    <3> QED BY <1>2, <2>1, <3>1
  <2> QED BY <2>2, <2>3
<1>5. ASSUME NEW m \in Sent, Works(m)  PROVE BarredAtDoor(d)'
  <2>1. UNCHANGED <<pc, req, answer, barred>>
    BY <1>0, <1>5, WorkKeeps
  <2> QED BY <1>0, <1>2, <2>1 DEF BarredAtDoor, Unserved
<1>6. CASE WorkerRestart \/ Tick \/ UNCHANGED vars
  <2>1. UNCHANGED <<pc, req, answer, barred>>
    BY <1>6 DEF WorkerRestart, Tick, vars, world
  <2> QED BY <1>0, <1>2, <2>1 DEF BarredAtDoor, Unserved
<1>7. CASE GatewayRestart
  <2>1. /\ UNCHANGED <<req, barred>>
        /\ pc[d] \in {"guard", "done"} => pc'[d] = "done"
        /\ answer'[d] \in {answer[d], "lost"}
    BY <1>7 DEF GatewayRestart
  <2> QED BY <1>0, <1>2, <2>1 DEF BarredAtDoor, Unserved
<1> QED BY <1>0, <1>3, <1>4, <1>5, <1>6, <1>7, StepKinds

(* A deleted account stays deleted, or is one of the revived; as long as   *)
(* it is deleted VALIDATE says no.                                         *)
LEMMA OrphanStep ==
  ASSUME BarInvariant, [Next]_vars, NEW d \in Call
  PROVE  OrphanAtDoor(d)'
<1>0. /\ TypeOK /\ PayloadsOK /\ RemovalOrder /\ RouteStage(d) /\ OrphanAtDoor(d)
      /\ \A m \in Sent : ValidatesBearer(m)
      /\ orphan \in [Call -> BOOLEAN]
  BY DEF BarInvariant, RemovalInvariant, TypeOK, RequestsOK
<1>1. ASSUME NEW u \in User, account[u].deleted \/ u \in revived
      PROVE  account'[u].deleted \/ u \in revived'
  BY <1>0, <1>1, AccountStays DEF Gone
<1>2. ASSUME req'[d] = req[d], orphan'[d] = orphan[d],
             orphan[d] /\ account[req[d].token.user].deleted /\ req[d].token.user \notin revived =>
               /\ pc'[d] \in {"guard", "VALIDATE", "done"} /\ Unserved(d)'
               /\ ~Replied(d, "VALIDATE", "ok")'
      PROVE  OrphanAtDoor(d)'
  <2> SUFFICES ASSUME orphan[d]  PROVE OrphanAtDoor(d)'
    BY <1>2 DEF OrphanAtDoor
  <2>1. PICK t \in Token : t = req[d].token
    BY <1>0 DEF OrphanAtDoor
  <2>2. t.user \in User /\ revived \subseteq revived'
    BY <1>0, TokenType, AccountStays
  <2>3. t.user \in revived \/ account[t.user].deleted
    BY <1>0, <2>1 DEF OrphanAtDoor
  <2> QED BY <1>1, <1>2, <2>1, <2>2, <2>3 DEF OrphanAtDoor
<1>3. ASSUME orphan[d], account[req[d].token.user].deleted, req[d].token.user \notin revived
      PROVE  /\ pc[d] \in {"guard", "VALIDATE", "done"} /\ Unserved(d)
             /\ ~Replied(d, "VALIDATE", "ok")
  BY <1>0, <1>3 DEF OrphanAtDoor
<1>4. ASSUME NEW c \in Call, Arrive(c)  PROVE OrphanAtDoor(d)'
  <2>1. CASE d # c
    <3>1. /\ req'[d] = req[d] /\ pc'[d] = pc[d] /\ orphan'[d] = orphan[d] /\ answer' = answer
          /\ reply'[d] = reply[d]
      BY <1>0, <1>4, <2>1, ArriveOthers
    <3> QED BY <1>2, <1>3, <3>1 DEF Unserved, Replied
  <2>2. CASE d = c
    <3>1. pc[d] = "idle" /\ UNCHANGED <<answer, account, revived>>
      BY <1>0, <1>4, <2>2, ArriveOthers
    <3>2. answer[d] = "none" /\ ~orphan[d]
      BY <1>0, <3>1 DEF RouteStage
    <3> SUFFICES ASSUME orphan'[d]  PROVE OrphanAtDoor(d)'
      BY DEF OrphanAtDoor
    <3>3. /\ pc'[d] = "guard" /\ req'[d].token \in held
          /\ orphan'[d] = account[req'[d].token.user].deleted
      BY <1>0, <1>4, <2>2, <3>2, ArriveOthers
    <3>4. req'[d].token \in Token
      BY <1>0, <3>3 DEF TypeOK, WorldOK
    <3> QED BY <3>1, <3>2, <3>3, <3>4 DEF OrphanAtDoor, Unserved, Replied
  <2> QED BY <2>1, <2>2
<1>5. ASSUME NEW c \in Call, Handle(c)  PROVE OrphanAtDoor(d)'
  <2>1. UNCHANGED <<req, orphan>>
    BY <1>5, HandleKeeps DEF Frame
  <2>2. CASE d # c
    <3>1. pc'[d] = pc[d] /\ answer'[d] = answer[d] /\ reply'[d] = reply[d]
      BY <1>0, <1>5, <2>2, HandleOthers, HandleAnswers
    <3> QED BY <1>2, <1>3, <2>1, <3>1 DEF Unserved, Replied
  <2>3. CASE d = c
    <3>1. ASSUME pc[d] \in {"guard", "VALIDATE", "done"}, Unserved(d),
                 ~Replied(d, "VALIDATE", "ok")
          PROVE  /\ pc'[d] \in {"guard", "VALIDATE", "done"} /\ Unserved(d)'
                 /\ ~Replied(d, "VALIDATE", "ok")'
      BY <1>0, <1>5, <2>3, <3>1, HandleAtDoor DEF Replied
    <3> QED BY <1>2, <1>3, <2>1, <3>1
  <2> QED BY <2>2, <2>3
<1>6. ASSUME NEW m \in Sent, Works(m)  PROVE OrphanAtDoor(d)'
  <2>1. UNCHANGED <<pc, req, answer, orphan>>
    BY <1>0, <1>6, WorkKeeps
  <2>2. ASSUME account[req[d].token.user].deleted, reply'[d] # reply[d], pc[d] = "VALIDATE"
        PROVE  reply'[d].status # "ok"
    <3>1. m.by = d /\ m.pattern = "VALIDATE"
      BY <1>0, <1>6, <2>2, WorkAnswers
    <3>2. m.user = req[d].token.user
      BY <1>0, <3>1 DEF ValidatesBearer
    <3>3. ~Usable(m.user)
      BY <2>2, <3>2 DEF Usable, Visible
    <3> QED BY <1>0, <1>6, <2>2, <3>1, <3>3, WorkAnswers
  <2> QED BY <1>2, <1>3, <2>1, <2>2 DEF Unserved, Replied
<1>7. CASE WorkerRestart \/ Tick \/ UNCHANGED vars
  <2>1. UNCHANGED <<pc, req, reply, answer, orphan>>
    BY <1>7 DEF WorkerRestart, Tick, vars, world
  <2> QED BY <1>2, <1>3, <2>1 DEF Unserved, Replied
<1>8. CASE GatewayRestart
  <2>1. /\ UNCHANGED <<req, orphan>>
        /\ pc[d] # "idle" => pc'[d] = "done"
        /\ answer'[d] \in {answer[d], "lost"}
    BY <1>8 DEF GatewayRestart
  <2> QED BY <1>2, <1>3, <2>1 DEF Unserved, Replied
<1> QED BY <1>0, <1>4, <1>5, <1>6, <1>7, <1>8, StepKinds

LEMMA BarInit ==
  ASSUME Init
  PROVE  BarInvariant
<1>1. RemovalInvariant
  BY RemovalInit
<1>2. TokensYoung
  BY NullAssumption, Lifetimes DEF Init, TokensYoung, Young, NoRequest, NoReply
<1>3. \A c \in Call : RouteStage(c) /\ RevocationHolds(c) /\ BarredAtDoor(c) /\ OrphanAtDoor(c)
  BY DEF Init, RouteStage, RevocationHolds, BarredAtDoor, OrphanAtDoor, NoRequest
<1>4. Sent = {}
  BY DEF Init, Sent
<1> QED BY <1>1, <1>2, <1>3, <1>4 DEF BarInvariant

LEMMA BarStep ==
  ASSUME BarInvariant, [Next]_vars
  PROVE  BarInvariant'
<1>0. TypeOK /\ PayloadsOK /\ RemovalInvariant /\ TokensYoung /\ \A c \in Call : RouteStage(c)
  BY DEF BarInvariant, RemovalInvariant
<1>1. RemovalInvariant' /\ TokensYoung'
  BY <1>0, RemovalStep, YoungStep
<1>2. ASSUME NEW c \in Call
      PROVE  RouteStage(c)' /\ RevocationHolds(c)' /\ BarredAtDoor(c)' /\ OrphanAtDoor(c)'
  BY <1>0, RouteStep, RevocationStep, BarredStep, OrphanStep
<1>3. ASSUME NEW m \in Sent'  PROVE ValidatesBearer(m)'
  BY ValidateStep
<1> QED BY <1>1, <1>2, <1>3 DEF BarInvariant

-----------------------------------------------------------------------------
(* A request that arrives after an answered logout or change of password   *)
(* with the same token, its header written alike, gets past the guard only *)
(* when the entry is over, and not even then unless entries are shorter    *)
(* than tokens: for every setting the gateway starts with, whatever        *)
(* restarts, is repeated or comes late.                                    *)
THEOREM RevokedTokensStayOut == Spec => []BarredStaysOutside
<1>1. Init => BarInvariant
  BY BarInit
<1>2. BarInvariant /\ [Next]_vars => BarInvariant'
  BY BarStep
<1>3. BarInvariant => BarredStaysOutside
  BY DEF BarInvariant, BarredAtDoor, BarredStaysOutside, Admitted, Inside, Unserved
<1> QED BY <1>1, <1>2, <1>3, PTL DEF Spec

(* Such a request never gets past the guard, before the token's expiry or  *)
(* after.                                                                  *)
BarredForGood == \A c \in Call : barred[c] > 0 => pc[c] # "VALIDATE" /\ ~Admitted(c)

(* It never does with a setting that duration.util.ts reads: then an entry *)
(* lives as long as a token, and TokenBlacklistService keeps out every     *)
(* revoked token for good.                                                 *)
THEOREM RevokedForGood ==
  ASSUME AccessExpiresIn.unit \in Unit
  PROVE  Spec => []BarredForGood
<1>1. BarredStaysOutside => BarredForGood
  BY Lifetimes DEF BarredStaysOutside, BarredForGood
<1> QED BY <1>1, RevokedTokensStayOut, PTL

(* A request that arrives for a deleted account reaches no handler, unless *)
(* the save of a handler that had loaded the account before its deletion   *)
(* writes it back.                                                         *)
THEOREM DeletedAccountsStayOut == Spec => []DeletedStaysOutside
<1>1. Init => BarInvariant
  BY BarInit
<1>2. BarInvariant /\ [Next]_vars => BarInvariant'
  BY BarStep
<1>3. BarInvariant => DeletedStaysOutside
  BY DEF BarInvariant, OrphanAtDoor, DeletedStaysOutside, Admitted, Inside, Unserved
<1> QED BY <1>1, <1>2, <1>3, PTL DEF Spec

=============================================================================
