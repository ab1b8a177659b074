--------------------------- MODULE GatewayProofs ---------------------------
(***************************************************************************)
(* What Gateway guarantees for any number of requests, accounts, seconds   *)
(* and restarts: typing, and that a removal takes the account away before  *)
(* the profile.  Typing needs the order of the messages: what a worker     *)
(* loads is there because the message names an account.                    *)
(***************************************************************************)
EXTENDS Gateway, TLAPS

USE DEF Public, AdminOnly, Route, AuthPattern, UserPattern, Pattern

-----------------------------------------------------------------------------
(* Lifetimes                                                               *)

(* Both readers agree on every setting that duration.util.ts knows.        *)
LEMMA ReadersAgree ==
  ASSUME NEW e \in Setting, e.unit \in Unit
  PROVE  JwtSeconds(e) = ParseDurationSeconds(e) /\ JwtSeconds(e) \in Nat \ {0}
<1>1. e.amount \in Nat \ {0}
  BY DEF Setting
<1>2. CASE e.unit = "s"
  BY <1>1, <1>2 DEF Unit, JwtSeconds, ParseDurationSeconds, SECONDS, MS
<1>3. CASE e.unit = "m"
  BY <1>1, <1>3 DEF Unit, JwtSeconds, ParseDurationSeconds, SECONDS, MS
<1>4. CASE e.unit = "h"
  BY <1>1, <1>4 DEF Unit, JwtSeconds, ParseDurationSeconds, SECONDS, MS
<1>5. CASE e.unit = "d"
  BY <1>1, <1>5 DEF Unit, JwtSeconds, ParseDurationSeconds, SECONDS, MS
<1> QED BY <1>2, <1>3, <1>4, <1>5 DEF Unit

(* Every entry of the blacklist is there for a while, and where the unit   *)
(* is known as long as a token signed with it.                             *)
LEMMA Lifetimes ==
  /\ JwtTtl \in Nat /\ BlacklistTtl \in Nat \ {0}
  /\ AccessExpiresIn.unit \in Unit => BlacklistTtl = JwtTtl
<1>1. CASE AccessExpiresIn.unit \in Unit
  BY <1>1, TtlAssumption, ReadersAgree DEF JwtTtl, BlacklistTtl
<1>2. CASE AccessExpiresIn.unit \notin Unit
  BY <1>2, TtlAssumption
  DEF JwtTtl, BlacklistTtl, JwtSeconds, ParseDurationSeconds, FallbackSeconds, Setting
<1> QED BY <1>1, <1>2

-----------------------------------------------------------------------------
(* The control operators                                                   *)

LEMMA NullTypes ==
  /\ NoReply \in Reply
  /\ NoRequest \in Request
  /\ NoProfile \in ProfileId
BY DEF NoReply, Reply, Status, NoRequest, Request, Header, NoProfile, ProfileId

LEMMA AwaitType ==
  ASSUME TypeOK, NEW c \in Call, NEW p \in Pattern, NEW u \in User \cup {NoUser},
         Await(c, p, u), UNCHANGED <<running, done>>
  PROVE  /\ MessagesOK'
         /\ pc' \in [Call -> Pattern \cup {"idle", "guard", "blacklist", "done"}]
         /\ reply' \in [Call -> Reply]
         /\ answer' \in [Call -> Status]
<1>1. MessagesOK'
  BY DEF TypeOK, MessagesOK, Await, Message
<1> QED BY <1>1, NullTypes DEF TypeOK, RequestsOK, Await

LEMMA EndType ==
  ASSUME TypeOK, NEW c \in Call, NEW s \in Status, End(c, s), UNCHANGED <<running, done>>
  PROVE  /\ MessagesOK'
         /\ pc' \in [Call -> Pattern \cup {"idle", "guard", "blacklist", "done"}]
         /\ reply' \in [Call -> Reply]
         /\ answer' \in [Call -> Status]
BY NullTypes DEF TypeOK, RequestsOK, MessagesOK, End

LEMMA PayloadType ==
  ASSUME RequestsOK, NEW c \in Call
  PROVE  /\ req[c].token \in Token \cup {NoToken}
         /\ req[c].op \in Route \cup {"none"}
         /\ req[c].id.user \in User \cup {NoUser}
         /\ req[c].id.n \in Nat
         /\ reply[c].status \in Status
         /\ reply[c].token \in Token \cup {NoToken}
         /\ \A t \in Token : t.user \in User /\ t.exp \in Nat
BY DEF RequestsOK, Request, Reply, ProfileId, Token

(* Redis, and what it held.                                                *)
RedisOK ==
  /\ blacklist \in SUBSET [token : Token, header : Header, until : Nat]
  /\ closed \in [Call -> Nat]

LEMMA EntryType ==
  ASSUME TypeOK, NEW c \in Call, req[c].token \in Token
  PROVE  /\ now + BlacklistTtl \in Nat
         /\ WithEntry(req[c]) \in SUBSET [token : Token, header : Header, until : Nat]
<1>1. now + BlacklistTtl \in Nat /\ req[c].header \in Header
  BY Lifetimes, BoundAssumption DEF TypeOK, WorldOK, RequestsOK, Request, Time
<1> QED BY <1>1 DEF TypeOK, WorldOK, WithEntry, OtherEntries

-----------------------------------------------------------------------------
(* Typing of the steps                                                     *)

LEMMA InitType ==
  ASSUME Init
  PROVE  TypeOK
<1>1. WorldOK
  BY SeedAssumption, BoundAssumption, Lifetimes DEF Init, WorldOK, Token, Time
<1>2. MessagesOK
  BY DEF Init, MessagesOK
<1>3. RequestsOK
  BY NullTypes DEF Init, RequestsOK, Status
<1> QED BY <1>1, <1>2, <1>3 DEF TypeOK

LEMMA KnownType ==
  ASSUME WorldOK, NEW op, NEW id \in Known(op)
  PROVE  id \in ProfileId /\ (op \in AdminOnly => id.user \in User)
<1>1. CASE op \in AdminOnly
  <2>1. PICK u \in User : id \in {[user |-> u, n |-> n] : n \in 1 .. profile[u].n}
    BY <1>1 DEF Known
  <2>2. profile[u].n \in Nat
    BY DEF WorldOK
  <2> QED BY <2>1, <2>2 DEF ProfileId
<1>2. CASE op \notin AdminOnly
  BY <1>2, NullTypes DEF Known
<1> QED BY <1>1, <1>2

LEMMA ArriveType ==
  ASSUME TypeOK, NEW c \in Call, Arrive(c)
  PROVE  TypeOK'
<1>0. UNCHANGED <<account, profile, revived, running, done, blacklist, closed, now, result, held,
                  restarts>>
  BY DEF Arrive, workers, rows, redis
<1>1. WorldOK'
  BY <1>0 DEF TypeOK, WorldOK
<1>2. CASE OpenRoute(c)
  <2>1. PICK op \in Ops \cap Public, e \in Email, p \in Pattern :
             /\ req' = [req EXCEPT ![c] = [NoRequest EXCEPT !.op = op, !.email = e]]
             /\ Await(c, p, NoUser)
             /\ UNCHANGED <<barred, orphan>>
    BY <1>2 DEF OpenRoute
  <2>2. [NoRequest EXCEPT !.op = op, !.email = e] \in Request
    BY NullTypes DEF NoRequest, Request
  <2>3. MessagesOK' /\ RequestsOK'
    BY <1>0, <2>1, <2>2, AwaitType DEF TypeOK, RequestsOK
  <2> QED BY <1>1, <2>3 DEF TypeOK
<1>3. CASE GuardedRoute(c)
  <2>0. PICK op \in Ops \ Public, t \in held, h \in Headers : \E id \in Known(op) :
             /\ req' = [req EXCEPT ![c] = [op |-> op, email |-> NoEmail, token |-> t,
                                           header |-> h, id |-> id]]
             /\ barred' \in {[barred EXCEPT ![c] = until] :
                              until \in IF Revocations(t, h) = {} THEN {0}
                                        ELSE {closed[d] : d \in Revocations(t, h)}}
             /\ orphan' = [orphan EXCEPT ![c] = account[t.user].deleted]
    BY <1>3 DEF GuardedRoute
  <2>1. PICK id \in Known(op) :
             /\ req' = [req EXCEPT ![c] = [op |-> op, email |-> NoEmail, token |-> t,
                                           header |-> h, id |-> id]]
             /\ barred' \in {[barred EXCEPT ![c] = until] :
                              until \in IF Revocations(t, h) = {} THEN {0}
                                        ELSE {closed[d] : d \in Revocations(t, h)}}
             /\ orphan' = [orphan EXCEPT ![c] = account[t.user].deleted]
    BY <2>0
  <2>2. [op |-> op, email |-> NoEmail, token |-> t, header |-> h, id |-> id] \in Request
    BY KnownType, OpsAssumption DEF Request, TypeOK, WorldOK
  <2>3. req' \in [Call -> Request]
    BY <2>1, <2>2 DEF TypeOK, RequestsOK
  <2>4. barred' \in [Call -> Nat]
    <3>1. PICK until \in IF Revocations(t, h) = {} THEN {0}
                         ELSE {closed[d] : d \in Revocations(t, h)} :
            barred' = [barred EXCEPT ![c] = until]
      BY <2>1
    <3>2. until \in Nat
      BY DEF Revocations, TypeOK, WorldOK
    <3> QED BY <3>1, <3>2 DEF TypeOK, RequestsOK
  <2>5. orphan' \in [Call -> BOOLEAN]
    <3>1. t.user \in User
      BY DEF TypeOK, WorldOK, Token
    <3>2. account[t.user].deleted \in BOOLEAN
      BY <3>1 DEF TypeOK, WorldOK
    <3> HIDE DEF TypeOK
    <3>3. orphan \in [Call -> BOOLEAN]
      BY DEF TypeOK, RequestsOK
    <3> QED BY <2>1, <3>2, <3>3
  <2>6. pc' = [pc EXCEPT ![c] = "guard"] /\ UNCHANGED <<queue, reply, answer>>
    BY <1>3 DEF GuardedRoute
  <2>7. RequestsOK'
    BY <1>0, <2>3, <2>4, <2>5, <2>6 DEF TypeOK, RequestsOK
  <2>8. MessagesOK'
    BY <1>0, <2>6 DEF TypeOK, MessagesOK
  <2> QED BY <1>1, <2>7, <2>8 DEF TypeOK
<1> QED BY <1>2, <1>3 DEF Arrive

(* What every handler leaves alone.                                        *)
Frame == UNCHANGED <<account, profile, revived, running, done, req, now, restarts, barred, orphan>>

LEMMA FrameType ==
  ASSUME TypeOK, Frame, MessagesOK', RedisOK',
         held' \in SUBSET Token,
         result' \in [Call -> Token \cup {NoToken}],
         pc' \in [Call -> Pattern \cup {"idle", "guard", "blacklist", "done"}],
         reply' \in [Call -> Reply],
         answer' \in [Call -> Status]
  PROVE  TypeOK'
BY DEF Frame, TypeOK, WorldOK, RequestsOK, RedisOK

LEMMA AwaitStepType ==
  ASSUME TypeOK, NEW c \in Call, NEW p \in Pattern, NEW u \in User \cup {NoUser},
         Await(c, p, u), Frame, UNCHANGED held, RedisOK',
         result' \in [Call -> Token \cup {NoToken}]
  PROVE  TypeOK'
<1>1. UNCHANGED <<running, done>>
  BY DEF Frame
<1>2. held' \in SUBSET Token
  BY DEF TypeOK, WorldOK
<1> QED BY <1>1, <1>2, AwaitType, FrameType

LEMMA EndStepType ==
  ASSUME TypeOK, NEW c \in Call, NEW s \in Status, End(c, s), Frame, UNCHANGED result, RedisOK',
         held' \in SUBSET Token
  PROVE  TypeOK'
<1>1. UNCHANGED <<running, done>>
  BY DEF Frame
<1>2. result' \in [Call -> Token \cup {NoToken}]
  BY DEF TypeOK, RequestsOK
<1> QED BY <1>1, <1>2, EndType, FrameType

LEMMA HandOverType ==
  ASSUME WorldOK, NEW c \in Call, NEW t \in Token, HandOver(c, t)
  PROVE  held' \in SUBSET Token
BY DEF WorldOK, HandOver

(* A handler that goes on to Redis.                                        *)
LEMMA ToBlacklistType ==
  ASSUME TypeOK, NEW c \in Call, Frame, UNCHANGED <<queue, answer, redis, held, result>>,
         pc' = [pc EXCEPT ![c] = "blacklist"],
         reply' = [reply EXCEPT ![c] = NoReply]
  PROVE  TypeOK'
<1>1. MessagesOK'
  BY DEF TypeOK, MessagesOK, Frame
<1> QED BY <1>1, NullTypes DEF TypeOK, WorldOK, RequestsOK, Frame, redis

LEMMA HandleType ==
  ASSUME TypeOK, PayloadsOK, NEW c \in Call, Handle(c)
  PROVE  TypeOK'
<1>0. WorldOK /\ RequestsOK /\ MessagesOK
  BY DEF TypeOK
<1>1. ASSUME UNCHANGED redis  PROVE RedisOK'
  BY <1>0, <1>1 DEF WorldOK, RedisOK, redis
<1>2. ASSUME UNCHANGED held  PROVE held' \in SUBSET Token
  BY <1>0, <1>2 DEF WorldOK
<1>3. ASSUME UNCHANGED result  PROVE result' \in [Call -> Token \cup {NoToken}]
  BY <1>0, <1>3 DEF RequestsOK
<1> DEFINE t == req[c].token
<1>4. /\ t \in Token => t.user \in User \cup {NoUser}
      /\ req[c].id.user \in User \cup {NoUser}
      /\ {"ok", "failed", "refused", "notFound"} \subseteq Status
      /\ NoUser \in User \cup {NoUser}
  BY <1>0, PayloadType DEF Status
<1>5. CASE Guard(c)
  <2>1. Frame /\ UNCHANGED <<redis, held, result>> /\ t \in Token
    BY <1>5 DEF Guard, Frame, workers, rows, world, PayloadsOK, PayloadOK
  <2>2. CASE End(c, "failed") \/ End(c, "refused")
    BY <1>1, <1>2, <1>4, <2>1, <2>2, EndStepType
  <2>3. CASE Await(c, "VALIDATE", t.user)
    BY <1>1, <1>3, <1>4, <2>1, <2>3, AwaitStepType
  <2> QED BY <1>5, <2>2, <2>3 DEF Guard
<1>6. CASE Enter(c)
  <2>1. Frame /\ UNCHANGED <<redis, held, result>>
    BY <1>6 DEF Enter, Frame, workers, rows, world
  <2>2. CASE End(c, "refused")
    BY <1>1, <1>2, <1>4, <2>1, <2>2, EndStepType
  <2>3. CASE Await(c, "FIND_ONE", NoUser)
    BY <1>1, <1>3, <1>4, <2>1, <2>3, AwaitStepType
  <2>4. ASSUME NEW p \in {"ME", "UPDATE", "CHANGE_PASSWORD"}, Await(c, p, t.user),
               req[c].op \in {"me", "updateMe", "changePassword"}
        PROVE  TypeOK'
    <3>1. t \in Token
      BY <2>4 DEF PayloadsOK, PayloadOK
    <3> QED BY <1>1, <1>3, <1>4, <2>1, <2>4, <3>1, AwaitStepType
  <2>5. CASE /\ pc' = [pc EXCEPT ![c] = "blacklist"]
             /\ reply' = [reply EXCEPT ![c] = NoReply]
             /\ UNCHANGED <<queue, answer>>
    BY <2>1, <2>5, ToBlacklistType
  <2> QED BY <1>6, <2>2, <2>3, <2>4, <2>5 DEF Enter
<1>7. CASE Throws(c)
  <2>1. Frame /\ UNCHANGED <<redis, held, result>>
    BY <1>7 DEF Throws, Frame, workers, rows, world
  <2>2. PICK status \in Errors(c) : End(c, status)
    BY <1>7 DEF Throws
  <2>3. status \in Status
    BY <1>4 DEF Errors
  <2> QED BY <1>1, <1>2, <2>1, <2>2, <2>3, EndStepType
<1>8. CASE HandlerTimeout(c)
  <2>1. Frame /\ UNCHANGED <<queue, redis, pc, reply, result, held>>
        /\ answer' = [answer EXCEPT ![c] = "late"]
    BY <1>8 DEF HandlerTimeout, Frame, workers, rows, world
  <2>2. MessagesOK' /\ answer' \in [Call -> Status]
    BY <1>0, <2>1 DEF MessagesOK, RequestsOK, Status, Frame
  <2> QED BY <1>0, <1>1, <1>2, <1>3, <2>1, <2>2, FrameType DEF RequestsOK
<1>9. CASE Registered(c)
  <2>1. Frame /\ UNCHANGED <<redis, held>>
    BY <1>9 DEF Registered, Frame, workers, rows, world
  <2>2. reply[c].token \in Token /\ reply[c].token.user \in User \cup {NoUser}
    BY <1>0, <1>9, PayloadType DEF Registered, Replied, PayloadsOK, PayloadOK
  <2>3. result' \in [Call -> Token \cup {NoToken}]
    BY <1>0, <1>9, <2>2 DEF Registered, RequestsOK
  <2>4. Await(c, "CREATE_PROFILE", reply[c].token.user)
    BY <1>9 DEF Registered
  <2> QED BY <1>1, <2>1, <2>2, <2>3, <2>4, AwaitStepType
<1>10. CASE ProfileCreated(c)
  <2>1. Frame /\ UNCHANGED <<redis, result>> /\ End(c, "ok") /\ HandOver(c, result[c])
    BY <1>10 DEF ProfileCreated, Frame, workers, rows, world
  <2>2. result[c] \in Token
    BY <1>10 DEF ProfileCreated, Replied, PayloadsOK, PayloadOK
  <2>3. held' \in SUBSET Token
    BY <1>0, <2>1, <2>2, HandOverType
  <2> QED BY <1>1, <1>4, <2>1, <2>3, EndStepType
<1>11. CASE Compensate(c)
  <2>1. Frame /\ UNCHANGED <<redis, held, result>> /\ Await(c, "DEACTIVATE", result[c].user)
    BY <1>11 DEF Compensate, Frame, workers, rows, world
  <2>2. result[c].user \in User \cup {NoUser}
    BY <1>11 DEF Compensate, PayloadsOK, PayloadOK, Token
  <2> QED BY <1>1, <1>3, <2>1, <2>2, AwaitStepType
<1>12. CASE Compensated(c)
  <2>1. Frame /\ UNCHANGED <<redis, held, result>> /\ End(c, "failed")
    BY <1>12 DEF Compensated, Frame, workers, rows, world
  <2> QED BY <1>1, <1>2, <1>4, <2>1, EndStepType
<1>13. CASE LoggedIn(c)
  <2>1. Frame /\ UNCHANGED <<redis, result>> /\ End(c, "ok") /\ HandOver(c, reply[c].token)
    BY <1>13 DEF LoggedIn, Frame, workers, rows, world
  <2>2. reply[c].token \in Token
    BY <1>13 DEF LoggedIn, Replied, PayloadsOK, PayloadOK
  <2>3. held' \in SUBSET Token
    BY <1>0, <2>1, <2>2, HandOverType
  <2> QED BY <1>1, <1>4, <2>1, <2>3, EndStepType
<1>14. CASE Served(c)
  <2>1. Frame /\ UNCHANGED <<redis, held, result>> /\ End(c, "ok")
    BY <1>14 DEF Served, Frame, workers, rows, world
  <2> QED BY <1>1, <1>2, <1>4, <2>1, EndStepType
<1>15. CASE PasswordChanged(c)
  BY <1>15, ToBlacklistType DEF PasswordChanged, Frame, workers, rows, world
<1>16. CASE Blacklist(c)
  <2>1. Frame /\ UNCHANGED <<held, result>> /\ t \in Token /\ blacklist' = WithEntry(req[c])
        /\ closed' = [closed EXCEPT ![c] = now + BlacklistTtl]
    BY <1>16 DEF Blacklist, Frame, workers, rows, world, PayloadsOK, PayloadOK
  <2>2. RedisOK'
    BY <1>0, <2>1, EntryType DEF RedisOK, WorldOK
  <2>3. CASE Await(c, "LOGOUT", t.user)
    BY <1>3, <1>4, <2>1, <2>2, <2>3, AwaitStepType
  <2>4. CASE End(c, "ok")
    BY <1>2, <1>4, <2>1, <2>2, <2>4, EndStepType
  <2> QED BY <1>16, <2>3, <2>4 DEF Blacklist
<1>17. CASE BlacklistFails(c)
  <2>1. Frame /\ UNCHANGED <<closed, held, result>> /\ t \in Token /\ End(c, "failed")
        /\ blacklist' \in {blacklist, WithEntry(req[c])}
    BY <1>17 DEF BlacklistFails, Frame, workers, rows, world, PayloadsOK, PayloadOK
  <2>2. RedisOK'
    BY <1>0, <2>1, EntryType DEF RedisOK, WorldOK
  <2> QED BY <1>2, <1>4, <2>1, <2>2, EndStepType
<1>18. CASE ProfileFound(c)
  <2>1. Frame /\ UNCHANGED <<redis, held, result>>
    BY <1>18 DEF ProfileFound, Frame, workers, rows, world
  <2>2. PICK p \in Pattern : Await(c, p, req[c].id.user)
    BY <1>18 DEF ProfileFound
  <2> QED BY <1>1, <1>3, <1>4, <2>1, <2>2, AwaitStepType
<1>19. CASE Deactivated(c)
  <2>1. Frame /\ UNCHANGED <<redis, held, result>> /\ Await(c, "REMOVE", req[c].id.user)
    BY <1>19 DEF Deactivated, Frame, workers, rows, world
  <2> QED BY <1>1, <1>3, <1>4, <2>1, AwaitStepType
<1>20. CASE TurnedAway(c)
  <2>1. Frame /\ UNCHANGED <<redis, held, result>> /\ End(c, "refused")
    BY <1>20 DEF TurnedAway, Frame, workers, rows, world
  <2> QED BY <1>1, <1>2, <1>4, <2>1, EndStepType
<1> QED BY <1>5, <1>6, <1>7, <1>8, <1>9, <1>10, <1>11, <1>12, <1>13, <1>14, <1>15, <1>16,
           <1>17, <1>18, <1>19, <1>20 DEF Handle

LEMMA SentType ==
  ASSUME TypeOK, NEW m \in Sent
  PROVE  m \in Message /\ m.by \in Call /\ m.pattern \in Pattern /\ m.user \in User \cup {NoUser}
BY DEF TypeOK, MessagesOK, Sent, Message, Work

(* A step of the worker on message m, the first one or a later one.        *)
Works(m) == (m \in queue /\ Start(m)) \/ \E w \in running : w.m = m /\ Continue(w)

LEMMA Workers ==
  ASSUME TypeOK
  PROVE  /\ \A m \in queue : Start(m) => m \in Sent /\ Works(m)
         /\ \A w \in running : Continue(w) => w.m \in Sent /\ Works(w.m)
BY DEF Works, Sent

(* The end of a worker's operation, its beginning and its middle.          *)
LEMMA RunType ==
  ASSUME TypeOK, NEW m \in Sent, NEW s \in Status, NEW t \in Token \cup {NoToken},
         Run(m, s, t)
  PROVE  /\ MessagesOK' /\ RequestsOK'
         /\ UNCHANGED <<blacklist, closed, now, held, restarts>>
<1>1. m \in Message /\ m.by \in Call
  BY SentType
<1>2. MessagesOK'
  BY <1>1 DEF TypeOK, MessagesOK, Run
<1>3. UNCHANGED <<pc, req, result, answer, barred, orphan, blacklist, closed, now, held, restarts>>
  BY DEF Run, redis, world
<1>4. reply' \in [Call -> Reply]
  <2>1. [status |-> s, token |-> t] \in Reply
    BY DEF Reply
  <2> QED BY <1>1, <2>1 DEF Run, TypeOK, RequestsOK
<1> QED BY <1>2, <1>3, <1>4 DEF TypeOK, RequestsOK

LEMMA LoadType ==
  ASSUME TypeOK, NEW m \in queue, NEW active \in BOOLEAN, NEW row \in Nat, Load(m, active, row)
  PROVE  TypeOK'
<1>1. m \in Message
  BY DEF TypeOK, MessagesOK
<1>2. [m |-> m, at |-> "loaded", active |-> active, row |-> row, columns |-> {}] \in Work
  BY <1>1, Zenon DEF Work
<1>3. MessagesOK'
  BY <1>2 DEF TypeOK, MessagesOK, Load
<1> QED BY <1>3 DEF Load, TypeOK, WorldOK, RequestsOK, rows, redis, world

LEMMA ProceedType ==
  ASSUME TypeOK, NEW w \in running, NEW at \in {"compared", "saved"},
         NEW columns \in SUBSET {"isActive", "deletedAt"}, Proceed(w, at, columns)
  PROVE  /\ MessagesOK' /\ RequestsOK'
         /\ UNCHANGED <<blacklist, closed, now, held, restarts>>
<1>1. [w EXCEPT !.at = at, !.columns = columns] \in Work
  BY DEF TypeOK, MessagesOK, Work
<1>2. MessagesOK'
  BY <1>1 DEF TypeOK, MessagesOK, Proceed
<1> QED BY <1>2 DEF Proceed, TypeOK, RequestsOK, redis, world

(* What the tables hold, and that a handler that writes them keeps it so.  *)
Accounts == [User -> [email : Email \cup {NoEmail}, active : BOOLEAN, deleted : BOOLEAN]]
Profiles == [User -> [n : Nat, kept : Nat]]
RowsOK == account \in Accounts /\ profile \in Profiles /\ revived \in SUBSET User

LEMMA RowsType ==
  ASSUME TypeOK, RowsOK', MessagesOK', RequestsOK',
         UNCHANGED <<blacklist, closed, now, held, restarts>>
  PROVE  TypeOK'
BY DEF TypeOK, WorldOK, RowsOK, Accounts, Profiles

LEMMA TokenIssued ==
  ASSUME TypeOK, NEW u \in User
  PROVE  AccessToken(u) \in Token /\ AccessToken(u).user = u
BY Lifetimes, BoundAssumption DEF AccessToken, Token, TypeOK, WorldOK, Time

LEMMA StartType ==
  ASSUME TypeOK, RemovalOrder, NEW m \in queue, Start(m)
  PROVE  TypeOK'
<1>0. /\ RowsOK /\ m \in Sent
      /\ {"ok", "refused", "notFound", "failed"} \subseteq Status
      /\ m.pattern \notin {"REGISTER", "LOGIN", "FIND_ONE"} => m.user \in User
  BY DEF TypeOK, WorldOK, RowsOK, Accounts, Profiles, Status, Sent, RemovalOrder, MessageInOrder
<1>1. ASSUME NEW s \in Status, NEW t \in Token \cup {NoToken}, Run(m, s, t), RowsOK'
      PROVE  TypeOK'
  BY <1>0, <1>1, RunType, RowsType
<1>2. ASSUME UNCHANGED rows  PROVE RowsOK'
  BY <1>0, <1>2 DEF rows, RowsOK
<1>3. CASE RunRegister(m)
  <2> DEFINE e == req[m.by].email
  <2>1. CASE Run(m, "refused", NoToken) /\ UNCHANGED account
    BY <1>0, <1>1, <1>2, <1>3, <2>1 DEF RunRegister, rows
  <2>2. CASE \E u \in User :
               /\ account' = [account EXCEPT ![u] =
                               [email |-> e, active |-> TRUE, deleted |-> FALSE]]
               /\ Run(m, "ok", AccessToken(u))
    <3>1. PICK u \in User :
               /\ account' = [account EXCEPT ![u] =
                               [email |-> e, active |-> TRUE, deleted |-> FALSE]]
               /\ Run(m, "ok", AccessToken(u))
      BY <2>2
    <3>2. [email |-> e, active |-> TRUE, deleted |-> FALSE]
            \in [email : Email \cup {NoEmail}, active : BOOLEAN, deleted : BOOLEAN]
      BY <1>0, SentType DEF TypeOK, RequestsOK, Request
    <3>3. RowsOK'
      BY <1>0, <1>3, <3>1, <3>2 DEF RunRegister, RowsOK, Accounts
    <3> QED BY <1>0, <1>1, <3>1, <3>3, TokenIssued
  <2> QED BY <1>3, <2>1, <2>2 DEF RunRegister
<1>4. CASE RunLogin(m)
  <2>1. Run(m, "refused", NoToken) \/ \E u \in User : Run(m, "ok", AccessToken(u))
    BY <1>4 DEF RunLogin, Owner
  <2> QED BY <1>0, <1>1, <1>2, <1>4, <2>1, TokenIssued DEF RunLogin
<1>5. CASE RunValidate(m) \/ RunSession(m) \/ RunFind(m)
  <2>1. PICK s \in Status : Run(m, s, NoToken)
    BY <1>0, <1>5 DEF RunValidate, RunSession, RunFind
  <2> QED BY <1>1, <1>2, <1>5, <2>1 DEF RunValidate, RunSession, RunFind
<1>6. CASE RunChangePassword(m) \/ RunDeactivate(m)
  <2>1. m.user \in User
    BY <1>0, <1>6 DEF RunChangePassword, RunDeactivate
  <2>2. account[m.user].active \in BOOLEAN
    BY <1>0, <2>1 DEF RowsOK, Accounts
  <2>3. CASE \E s \in Status : Run(m, s, NoToken) /\ UNCHANGED rows
    BY <1>1, <1>2, <2>3
  <2>4. CASE \E active \in BOOLEAN : Load(m, active, 0)
    BY <2>4, LoadType
  <2> QED BY <1>0, <1>6, <2>2, <2>3, <2>4 DEF RunChangePassword, RunDeactivate
<1>7. CASE RunCreateProfile(m)
  <2> DEFINE old == profile[m.user]
             new == IF old.kept # 0 THEN old ELSE [n |-> old.n + 1, kept |-> old.n + 1]
  <2>1. UNCHANGED <<account, revived>> /\ profile' = [profile EXCEPT ![m.user] = new]
    BY <1>7 DEF RunCreateProfile
  <2>2. m.user \in User => old \in [n : Nat, kept : Nat]
    BY <1>0 DEF RowsOK, Profiles
  <2>3. m.user \in User => new \in [n : Nat, kept : Nat]
    BY <2>2
  <2> HIDE DEF new
  <2>4. RowsOK'
    BY <1>0, <2>1, <2>3 DEF RowsOK, Profiles
  <2> QED BY <1>0, <1>1, <1>7, <2>4 DEF RunCreateProfile
<1>8. CASE LoadProfile(m)
  <2>1. m.user \in User
    BY <1>0, <1>8 DEF LoadProfile
  <2>2. profile[m.user].kept \in Nat
    BY <1>0, <2>1 DEF RowsOK, Profiles
  <2> QED BY <1>0, <1>1, <1>2, <1>8, <2>2, LoadType DEF LoadProfile
<1> QED BY <1>3, <1>4, <1>5, <1>6, <1>7, <1>8, Zenon DEF Start

LEMMA ContinueType ==
  ASSUME TypeOK, RemovalOrder, NEW w \in running, Continue(w)
  PROVE  TypeOK'
<1> DEFINE u == w.m.user
<1>0. /\ RowsOK /\ w.m \in Sent /\ w \in Work
      /\ {"ok", "failed"} \subseteq Status
  BY DEF TypeOK, WorldOK, MessagesOK, RowsOK, Accounts, Profiles, Status, Sent
<1>1. ASSUME NEW s \in Status, Run(w.m, s, NoToken), RowsOK'
      PROVE  TypeOK'
  BY <1>0, <1>1, RunType, RowsType
<1>2. ASSUME UNCHANGED rows  PROVE RowsOK'
  BY <1>0, <1>2 DEF rows, RowsOK
<1>3. ASSUME NEW at \in {"compared", "saved"}, NEW columns \in SUBSET {"isActive", "deletedAt"},
             Proceed(w, at, columns), RowsOK'
      PROVE  TypeOK'
  BY <1>3, ProceedType, RowsType
<1>4. CASE CompareAccount(w)
  BY <1>2, <1>3, <1>4 DEF CompareAccount
<1>5. CASE SaveAccount(w)
  <2> DEFINE back == "deletedAt" \in w.columns
             saved == [account[u] EXCEPT
                         !.active  = IF "isActive" \in w.columns THEN w.active ELSE @,
                         !.deleted = IF back THEN FALSE ELSE @]
  <2>1. CASE Run(w.m, "failed", NoToken) /\ UNCHANGED rows
    BY <1>0, <1>1, <1>2, <2>1
  <2>2. CASE /\ account' = [account EXCEPT ![u] = saved]
             /\ revived' = IF back /\ account[u].deleted THEN revived \cup {u} ELSE revived
             /\ UNCHANGED profile
    <3>1. u \in User
      BY <1>0, <1>5 DEF SaveAccount, RemovalOrder, MessageInOrder
    <3>2. saved \in [email : Email \cup {NoEmail}, active : BOOLEAN, deleted : BOOLEAN]
      <4> DEFINE Row == [email : Email \cup {NoEmail}, active : BOOLEAN, deleted : BOOLEAN]
      <4>1. account[u] \in Row /\ account[u].deleted \in BOOLEAN /\ account[u].active \in BOOLEAN
            /\ w.active \in BOOLEAN
        BY <1>0, <3>1 DEF RowsOK, Accounts, Work
      <4>2. ASSUME NEW a \in BOOLEAN, NEW d \in BOOLEAN
            PROVE  [account[u] EXCEPT !.active = a, !.deleted = d] \in Row
        BY <4>1
      <4> DEFINE active == IF "isActive" \in w.columns THEN w.active ELSE account[u].active
                 deleted == IF back THEN FALSE ELSE account[u].deleted
      <4>3. active \in BOOLEAN /\ deleted \in BOOLEAN
        BY <4>1
      <4>4. saved = [account[u] EXCEPT !.active = active, !.deleted = deleted]
        OBVIOUS
      <4> HIDE DEF active, deleted, saved
      <4>5. saved \in Row
        BY <4>2, <4>3, <4>4
      <4> QED BY <4>5
    <3>3. Run(w.m, "ok", NoToken) \/ Proceed(w, "saved", {}) \/ Run(w.m, "failed", NoToken)
      BY <1>5 DEF SaveAccount
    <3> HIDE DEF saved
    <3>4. account' \in Accounts
      BY <1>0, <2>2, <3>2 DEF RowsOK, Accounts
    <3>5. RowsOK'
      BY <1>0, <2>2, <3>1, <3>4 DEF RowsOK
    <3> QED BY <1>0, <1>1, <1>3, <3>3, <3>5
  <2> QED BY <1>5, <2>1, <2>2 DEF SaveAccount
<1>6. CASE SoftRemove(w)
  <2>1. RowsOK'
    BY <1>0, <1>6 DEF SoftRemove, RowsOK, Accounts
  <2> QED BY <1>0, <1>1, <1>6, <2>1 DEF SoftRemove
<1>7. CASE CompareProfile(w)
  BY <1>2, <1>3, <1>7 DEF CompareProfile
<1>8. CASE SaveProfile(w)
  <2>1. RowsOK'
    BY <1>0, <1>8 DEF SaveProfile, RowsOK, Profiles, Work
  <2> QED BY <1>0, <1>1, <1>8, <2>1 DEF SaveProfile
<1>9. CASE RemoveProfile(w)
  <2>1. RowsOK'
    BY <1>0, <1>9 DEF RemoveProfile, RowsOK, Profiles
  <2> QED BY <1>0, <1>1, <1>9, <2>1 DEF RemoveProfile
<1>10. CASE StatementFails(w)
  BY <1>0, <1>1, <1>2, <1>10 DEF StatementFails
<1> QED BY <1>4, <1>5, <1>6, <1>7, <1>8, <1>9, <1>10, Zenon DEF Continue

LEMMA EnvironmentType ==
  ASSUME TypeOK, WorkerRestart \/ GatewayRestart \/ Tick
  PROVE  TypeOK'
<1>1. CASE WorkerRestart
  <2>1. MessagesOK'
    BY <1>1 DEF WorkerRestart, TypeOK, MessagesOK, Work
  <2> QED
    BY <1>1, <2>1, BoundAssumption DEF WorkerRestart, TypeOK, WorldOK, RequestsOK, rows, redis
<1>2. CASE GatewayRestart
  <2>1. RequestsOK'
    BY <1>2, NullTypes DEF GatewayRestart, TypeOK, RequestsOK, Status
  <2> QED
    BY <1>2, <2>1, BoundAssumption
    DEF GatewayRestart, TypeOK, WorldOK, MessagesOK, workers, rows, redis
<1>3. CASE Tick
  <2>1. now' \in Time
    BY <1>3 DEF Tick, Time
  <2>2. UNCHANGED <<account, profile, revived, running, done, queue, closed, pc, req, reply, result,
                    answer, held, restarts, barred, orphan>>
    BY <1>3 DEF Tick, workers, rows
  <2>3. blacklist' \subseteq blacklist
    BY <1>3 DEF Tick
  <2> QED BY <2>1, <2>2, <2>3 DEF TypeOK, WorldOK, MessagesOK, RequestsOK
<1> QED BY <1>1, <1>2, <1>3

-----------------------------------------------------------------------------
(* What a step of a worker leaves alone, and what it answers               *)

LEMMA RunReply ==
  ASSUME TypeOK, NEW m, NEW s, NEW t, Run(m, s, t), NEW d \in Call, reply'[d] # reply[d]
  PROVE  d = m.by /\ pc[d] = m.pattern /\ reply'[d].status = s /\ reply'[d].token = t
<1>1. d = m.by /\ pc[d] = m.pattern /\ reply'[d] = [status |-> s, token |-> t]
  BY DEF Run, TypeOK, RequestsOK
<1>2. [status |-> s, token |-> t].status = s /\ [status |-> s, token |-> t].token = t
  OBVIOUS
<1> QED BY <1>1, <1>2, Zenon

(* A worker's step ends the operation, or only goes on with it.            *)
LEMMA WorkRuns ==
  ASSUME TypeOK, NEW m \in Sent, Works(m)
  PROVE  \/ \E status, t : Run(m, status, t) /\ (t = NoToken \/ \E u \in User : t = AccessToken(u))
         \/ m \in queue /\ \E active, row : Load(m, active, row)
         \/ \E w \in running : w.m = m /\ \E at, columns : Proceed(w, at, columns)
<1>1. CASE m \in queue /\ Start(m)
  <2>1. CASE RunRegister(m) \/ RunLogin(m)
    BY <2>1 DEF RunRegister, RunLogin, Owner
  <2>2. CASE RunValidate(m) \/ RunSession(m) \/ RunFind(m) \/ RunCreateProfile(m)
    BY <2>2 DEF RunValidate, RunSession, RunFind, RunCreateProfile
  <2>3. CASE RunChangePassword(m) \/ RunDeactivate(m) \/ LoadProfile(m)
    BY <1>1, <2>3 DEF RunChangePassword, RunDeactivate, LoadProfile
  <2> QED BY <1>1, <2>1, <2>2, <2>3 DEF Start
<1>2. ASSUME NEW w \in running, w.m = m, Continue(w)
      PROVE  \/ \E status : Run(m, status, NoToken)
             \/ \E at, columns : Proceed(w, at, columns)
  BY <1>2 DEF Continue, CompareAccount, SaveAccount, SoftRemove, CompareProfile, SaveProfile,
              RemoveProfile, StatementFails
<1> QED BY <1>1, <1>2 DEF Works

LEMMA WorkKeeps ==
  ASSUME TypeOK, NEW m \in Sent, Works(m)
  PROVE  /\ Sent' = Sent
         /\ UNCHANGED <<blacklist, closed, pc, req, result, answer, held, now, restarts, barred,
                        orphan>>
<1>1. CASE \E status, t : Run(m, status, t)
  BY <1>1 DEF Run, Sent, redis, world
<1>2. CASE m \in queue /\ \E active, row : Load(m, active, row)
  <2>1. PICK active, row : Load(m, active, row)
    BY <1>2
  <2> DEFINE new == [m |-> m, at |-> "loaded", active |-> active, row |-> row, columns |-> {}]
  <2>2. new.m = m /\ queue' = queue \ {m} /\ running' = running \cup {new} /\ done' = done
    BY <2>1 DEF Load
  <2> HIDE DEF new
  <2>3. Sent' = Sent
    BY <1>2, <2>2 DEF Sent
  <2> QED BY <2>1, <2>3 DEF Load, redis, world
<1>3. ASSUME NEW w \in running, NEW at, NEW columns, Proceed(w, at, columns)
      PROVE  /\ Sent' = Sent
             /\ UNCHANGED <<blacklist, closed, pc, req, result, answer, held, now, restarts, barred,
                            orphan>>
  <2> DEFINE new == [w EXCEPT !.at = at, !.columns = columns]
  <2>1. new.m = w.m
    BY DEF TypeOK, MessagesOK, Work
  <2>2. queue' = queue /\ running' = (running \ {w}) \cup {new} /\ done' = done
    BY <1>3 DEF Proceed
  <2> HIDE DEF new
  <2>3. Sent' = Sent
    BY <2>1, <2>2 DEF Sent
  <2> QED BY <1>3, <2>3 DEF Proceed, redis, world
<1> QED BY <1>1, <1>2, <1>3, WorkRuns

(* The reply is of the operation that ended, and "ok" means what it did.   *)
LEMMA WorkAnswers ==
  ASSUME TypeOK, NEW m \in Sent, Works(m), NEW d \in Call, reply'[d] # reply[d]
  PROVE  /\ d = m.by /\ pc[d] = m.pattern
         /\ reply'[d].token = NoToken \/ \E u \in User : reply'[d].token = AccessToken(u)
         /\ reply'[d].status = "ok" =>
              /\ m.pattern = "REGISTER" => RunRegister(m)
              /\ m.pattern = "LOGIN" => RunLogin(m)
              /\ m.pattern = "VALIDATE" => Usable(m.user)
              /\ m.pattern = "CREATE_PROFILE" => RunCreateProfile(m)
              /\ m.pattern = "DEACTIVATE" => \E w \in running : w.m = m /\ SoftRemove(w)
<1>1. /\ d = m.by /\ pc[d] = m.pattern
      /\ reply'[d].token = NoToken \/ \E u \in User : reply'[d].token = AccessToken(u)
  <2>1. CASE \E s, t : Run(m, s, t) /\ (t = NoToken \/ \E u \in User : t = AccessToken(u))
    BY <2>1, RunReply
  <2>2. CASE UNCHANGED reply
    BY <2>2
  <2> QED BY <2>1, <2>2, WorkRuns DEF Load, Proceed
<1>2. ASSUME NEW s, NEW t, Run(m, s, t)  PROVE reply'[d].status = s
  BY <1>2, RunReply
<1>3. ASSUME m \in queue, Start(m), reply'[d].status = "ok", m.pattern = "VALIDATE"
      PROVE  Usable(m.user)
  <2>1. RunValidate(m)
    BY <1>3 DEF Start, RunRegister, RunLogin, RunSession, RunChangePassword, RunDeactivate,
                RunCreateProfile, RunFind, LoadProfile
  <2> QED BY <1>2, <1>3, <2>1 DEF RunValidate
<1>4. ASSUME m \in queue, Start(m), reply'[d].status = "ok", m.pattern = "DEACTIVATE"
      PROVE  FALSE
  <2>1. RunDeactivate(m)
    BY <1>4 DEF Start, RunRegister, RunLogin, RunSession, RunChangePassword, RunValidate,
                RunCreateProfile, RunFind, LoadProfile
  <2> QED BY <1>2, <1>4, <2>1 DEF RunDeactivate, Load
<1>5. ASSUME m \in queue, Start(m)
      PROVE  /\ m.pattern = "REGISTER" => RunRegister(m)
             /\ m.pattern = "LOGIN" => RunLogin(m)
             /\ m.pattern = "CREATE_PROFILE" => RunCreateProfile(m)
  BY <1>5 DEF Start, RunRegister, RunLogin, RunValidate, RunSession, RunChangePassword,
              RunDeactivate, RunCreateProfile, RunFind, LoadProfile
<1>6. ASSUME NEW w \in running, w.m = m, Continue(w), reply'[d].status = "ok"
      PROVE  /\ m.pattern \in {"CHANGE_PASSWORD", "DEACTIVATE", "UPDATE", "REMOVE"}
             /\ m.pattern = "DEACTIVATE" => SoftRemove(w)
  <2>1. ~StatementFails(w)
    BY <1>2, <1>6 DEF StatementFails
  <2>2. CASE SaveAccount(w)
    BY <1>2, <1>6, <2>2 DEF SaveAccount, Proceed
  <2> QED BY <1>6, <2>1, <2>2 DEF Continue, CompareAccount, SoftRemove, CompareProfile, SaveProfile,
                             RemoveProfile, Proceed
<1> QED BY <1>1, <1>3, <1>4, <1>5, <1>6 DEF Works

-----------------------------------------------------------------------------
(* What handlers carry                                                     *)

LEMMA InitPayloads ==
  ASSUME Init
  PROVE  PayloadsOK
BY DEF Init, PayloadsOK, PayloadOK, NoRequest

(* What a handler waiting elsewhere carries depends on its own variables.  *)
LEMMA SamePayload ==
  ASSUME NEW d \in Call, PayloadOK(d),
         pc'[d] = pc[d], req'[d] = req[d], reply'[d] = reply[d], result'[d] = result[d]
  PROVE  PayloadOK(d)'
BY DEF PayloadOK

(* What a step leaves of the other requests, and what a request brings.    *)
LEMMA ArriveOthers ==
  ASSUME TypeOK, NEW c \in Call, Arrive(c)
  PROVE  /\ pc[c] = "idle" /\ pc'[c] \in {"REGISTER", "LOGIN", "guard"}
         /\ UNCHANGED <<account, profile, revived, running, done, blacklist, closed, now, result,
                        held, answer>>
         /\ \A d \in Call \ {c} :
              /\ pc'[d] = pc[d] /\ req'[d] = req[d] /\ reply'[d] = reply[d]
              /\ barred'[d] = barred[d] /\ orphan'[d] = orphan[d]
         /\ reply'[c] \in {reply[c], NoReply}
         /\ queue \subseteq queue'
         /\ \A m \in queue' \ queue :
              m.by = c /\ m.pattern \in {"REGISTER", "LOGIN"} /\ req'[c].email # NoEmail
         /\ req'[c].op \in Ops /\ (req'[c].op = "register" => pc'[c] = "REGISTER")
         /\ \/ /\ req'[c].op \in Public /\ pc'[c] # "guard" /\ reply'[c] = NoReply
               /\ pc'[c] = "REGISTER" => req'[c].op = "register"
               /\ req'[c].token = NoToken /\ barred'[c] = barred[c] /\ orphan'[c] = orphan[c]
            \/ /\ req'[c].op \notin Public /\ pc'[c] = "guard" /\ req'[c].token \in held
               /\ req'[c].op \in AdminOnly => req'[c].id.user \in User
               /\ \/ barred'[c] = 0
                  \/ \E e \in Revocations(req'[c].token, req'[c].header) : barred'[c] = closed[e]
               /\ orphan'[c] = account[req'[c].token.user].deleted
<1>1. pc[c] = "idle" /\ UNCHANGED <<account, profile, revived, running, done, blacklist, closed, now,
                                    result, held>>
  BY DEF Arrive, workers, rows, redis
<1>2. CASE OpenRoute(c)
  <2>1. PICK op \in Ops \cap Public, e \in Email, p \in {"REGISTER", "LOGIN"} :
             /\ req' = [req EXCEPT ![c] = [NoRequest EXCEPT !.op = op, !.email = e]]
             /\ Await(c, p, NoUser)
             /\ op = "register" <=> p = "REGISTER"
             /\ UNCHANGED <<barred, orphan>>
    BY <1>2 DEF OpenRoute
  <2>2. /\ req'[c].token = NoToken /\ req'[c].op = op /\ req'[c].email = e
        /\ \A d \in Call \ {c} : req'[d] = req[d]
    BY <2>1 DEF TypeOK, RequestsOK, NoRequest
  <2>3. /\ pc'[c] = p /\ reply'[c] = NoReply /\ UNCHANGED answer
        /\ \A d \in Call \ {c} : pc'[d] = pc[d] /\ reply'[d] = reply[d]
        /\ queue \subseteq queue' /\ \A m \in queue' \ queue : m.by = c /\ m.pattern = p
    BY <2>1 DEF Await, TypeOK, RequestsOK
  <2> QED BY <1>1, <2>1, <2>2, <2>3, NullAssumption
<1>3. CASE GuardedRoute(c)
  <2>0. PICK op \in Ops \ Public, t \in held, h \in Headers : \E id \in Known(op) :
             /\ req' = [req EXCEPT ![c] = [op |-> op, email |-> NoEmail, token |-> t,
                                           header |-> h, id |-> id]]
             /\ barred' \in {[barred EXCEPT ![c] = until] :
                              until \in IF Revocations(t, h) = {} THEN {0}
                                        ELSE {closed[d] : d \in Revocations(t, h)}}
             /\ orphan' = [orphan EXCEPT ![c] = account[t.user].deleted]
    BY <1>3 DEF GuardedRoute
  <2>1. PICK id \in Known(op) :
             /\ req' = [req EXCEPT ![c] = [op |-> op, email |-> NoEmail, token |-> t,
                                           header |-> h, id |-> id]]
             /\ barred' \in {[barred EXCEPT ![c] = until] :
                              until \in IF Revocations(t, h) = {} THEN {0}
                                        ELSE {closed[d] : d \in Revocations(t, h)}}
             /\ orphan' = [orphan EXCEPT ![c] = account[t.user].deleted]
    BY <2>0
  <2>2. /\ req'[c].token = t /\ req'[c].op = op /\ req'[c].header = h /\ req'[c].id = id
        /\ \A d \in Call \ {c} : req'[d] = req[d]
    BY <2>1 DEF TypeOK, RequestsOK
  <2>3. op \in AdminOnly => req'[c].id.user \in User
    BY <2>2, KnownType DEF TypeOK
  <2>4. pc' = [pc EXCEPT ![c] = "guard"] /\ UNCHANGED <<queue, reply, answer>>
    BY <1>3 DEF GuardedRoute
  <2>5. pc'[c] = "guard" /\ \A d \in Call \ {c} : pc'[d] = pc[d]
    BY <2>4 DEF TypeOK, RequestsOK
  <2>6. /\ \/ barred'[c] = 0
           \/ \E e \in Revocations(t, h) : barred'[c] = closed[e]
        /\ \A d \in Call \ {c} : barred'[d] = barred[d]
    <3>1. PICK until \in IF Revocations(t, h) = {} THEN {0}
                         ELSE {closed[d] : d \in Revocations(t, h)} :
            barred' = [barred EXCEPT ![c] = until]
      BY <2>1
    <3> QED BY <3>1 DEF TypeOK, RequestsOK
  <2>7. /\ orphan'[c] = account[t.user].deleted
        /\ \A d \in Call \ {c} : orphan'[d] = orphan[d]
    BY <2>1, Zenon DEF TypeOK, RequestsOK
  <2> QED BY <1>1, <2>2, <2>3, <2>4, <2>5, <2>6, <2>7
<1> QED BY <1>2, <1>3 DEF Arrive

LEMMA ArrivePayloads ==
  ASSUME TypeOK, PayloadsOK, NEW c \in Call, Arrive(c)
  PROVE  PayloadsOK'
<1>1. PayloadOK(c)'
  BY ArriveOthers, OpsAssumption DEF PayloadOK, NoReply, TypeOK, WorldOK
<1> QED BY <1>1, ArriveOthers, SamePayload DEF PayloadsOK

LEMMA EndPayload ==
  ASSUME TypeOK, NEW c \in Call, PayloadOK(c), NEW s, End(c, s), UNCHANGED req
  PROVE  PayloadOK(c)'
BY DEF TypeOK, RequestsOK, PayloadOK, End

LEMMA AwaitPayload ==
  ASSUME TypeOK, NEW c \in Call, PayloadOK(c), UNCHANGED req,
         NEW p \in Pattern \ {"REGISTER", "CREATE_PROFILE"}, NEW u, Await(c, p, u),
         p = "CHANGE_PASSWORD" => req[c].token \in Token,
         p = "FIND_ONE" => req[c].op \in AdminOnly,
         p = "DEACTIVATE" /\ req[c].op = "register" => result'[c] \in Token
  PROVE  PayloadOK(c)'
<1>1. pc'[c] = p /\ reply'[c].status = "none" /\ req'[c] = req[c]
  BY DEF TypeOK, RequestsOK, Await, NoReply
<1> QED BY <1>1 DEF PayloadOK

LEMMA ToBlacklistPayload ==
  ASSUME TypeOK, NEW c \in Call, PayloadOK(c), req[c].token \in Token, UNCHANGED req,
         pc' = [pc EXCEPT ![c] = "blacklist"]
  PROVE  PayloadOK(c)'
BY DEF TypeOK, RequestsOK, PayloadOK

LEMMA HandleOthers ==
  ASSUME TypeOK, NEW c \in Call, Handle(c), NEW d \in Call \ {c}
  PROVE  pc'[d] = pc[d] /\ req'[d] = req[d] /\ reply'[d] = reply[d] /\ result'[d] = result[d]
<1>1. UNCHANGED req
  BY DEF Handle, TurnedAway, Guard, Enter, Throws, HandlerTimeout, Registered, ProfileCreated, Compensate,
         Compensated, LoggedIn, Served, PasswordChanged, Blacklist, BlacklistFails, ProfileFound,
         Deactivated
<1>2. result'[d] = result[d]
  BY DEF TypeOK, RequestsOK, Handle, TurnedAway, Guard, Enter, Throws, HandlerTimeout, Registered,
         ProfileCreated, Compensate, Compensated, LoggedIn, Served, PasswordChanged, Blacklist,
         BlacklistFails, ProfileFound, Deactivated
<1>3. \/ \E s : End(c, s)
      \/ \E p, u : Await(c, p, u)
      \/ pc' = [pc EXCEPT ![c] = "blacklist"] /\ reply' = [reply EXCEPT ![c] = NoReply]
      \/ UNCHANGED <<pc, reply>>
  BY DEF Handle, TurnedAway, Guard, Enter, Throws, HandlerTimeout, Registered, ProfileCreated, Compensate,
         Compensated, LoggedIn, Served, PasswordChanged, Blacklist, BlacklistFails, ProfileFound,
         Deactivated
<1>4. pc'[d] = pc[d] /\ reply'[d] = reply[d]
  BY <1>3 DEF TypeOK, RequestsOK, End, Await
<1> QED BY <1>1, <1>2, <1>4

LEMMA HandlePayloads ==
  ASSUME TypeOK, PayloadsOK, NEW c \in Call, Handle(c)
  PROVE  PayloadsOK'
<1>0. PayloadOK(c)
  BY DEF PayloadsOK
<1>1. UNCHANGED req
  BY DEF Handle, TurnedAway, Guard, Enter, Throws, HandlerTimeout, Registered, ProfileCreated, Compensate,
         Compensated, LoggedIn, Served, PasswordChanged, Blacklist, BlacklistFails, ProfileFound,
         Deactivated
<1> SUFFICES PayloadOK(c)'
  BY HandleOthers, SamePayload DEF PayloadsOK
<1>2. ASSUME NEW s, End(c, s)  PROVE PayloadOK(c)'
  BY <1>0, <1>1, <1>2, EndPayload
<1>3. CASE Guard(c)
  BY <1>0, <1>1, <1>2, <1>3, AwaitPayload DEF Guard
<1>4. CASE Enter(c)
  <2>0. CASE End(c, "refused")
    BY <1>2, <2>0
  <2>1. CASE req[c].op \in AdminOnly
    BY <1>0, <1>1, <1>2, <1>4, <2>1, AwaitPayload DEF Enter
  <2>2. CASE req[c].op \in {"me", "updateMe"}
    BY <1>0, <1>1, <1>2, <1>4, <2>2, AwaitPayload DEF Enter
  <2>3. CASE req[c].op = "changePassword"
    <3>1. req[c].token \in Token
      BY <1>0, <2>3 DEF PayloadOK
    <3>2. Await(c, "CHANGE_PASSWORD", req[c].token.user) \/ End(c, "refused")
      BY <1>4, <2>3 DEF Enter
    <3> QED BY <1>0, <1>1, <1>2, <3>1, <3>2, AwaitPayload
  <2>4. CASE req[c].op = "logout"
    <3>1. req[c].token \in Token
      BY <1>0, <2>4 DEF PayloadOK
    <3>2. pc' = [pc EXCEPT ![c] = "blacklist"] \/ End(c, "refused")
      BY <1>4, <2>4 DEF Enter
    <3> QED BY <1>0, <1>1, <1>2, <3>1, <3>2, ToBlacklistPayload
  <2> QED BY <1>4, <2>0, <2>1, <2>2, <2>3, <2>4 DEF Enter
<1>5. CASE Throws(c)
  BY <1>2, <1>5 DEF Throws
<1>6. CASE HandlerTimeout(c)
  BY <1>0, <1>6 DEF HandlerTimeout, PayloadOK
<1>7. CASE Registered(c)
  <2>1. reply[c].token \in Token /\ req[c].op = "register"
    BY <1>0, <1>7 DEF Registered, Replied, PayloadOK
  <2>2. result'[c] \in Token /\ pc'[c] = "CREATE_PROFILE"
    BY <1>7, <2>1 DEF Registered, Await, TypeOK, RequestsOK
  <2> QED BY <1>0, <1>1, <2>1, <2>2 DEF PayloadOK
<1>8. CASE \/ TurnedAway(c) \/ ProfileCreated(c) \/ Compensated(c) \/ LoggedIn(c) \/ Served(c)
           \/ BlacklistFails(c)
  BY <1>2, <1>8 DEF TurnedAway, ProfileCreated, Compensated, LoggedIn, Served, BlacklistFails
<1>9. CASE Compensate(c)
  <2>1. result'[c] \in Token
    BY <1>0, <1>9 DEF Compensate, PayloadOK
  <2> QED BY <1>0, <1>1, <1>9, <2>1, AwaitPayload DEF Compensate
<1>10. CASE PasswordChanged(c)
  BY <1>0, <1>1, <1>10, ToBlacklistPayload DEF PasswordChanged, Replied, PayloadOK
<1>11. CASE Blacklist(c)
  BY <1>0, <1>1, <1>2, <1>11, AwaitPayload DEF Blacklist
<1>12. CASE ProfileFound(c)
  BY <1>0, <1>1, <1>12, AwaitPayload DEF ProfileFound
<1>13. CASE Deactivated(c)
  BY <1>0, <1>1, <1>13, AwaitPayload DEF Deactivated
<1> QED
  BY <1>3, <1>4, <1>5, <1>6, <1>7, <1>8, <1>9, <1>10, <1>11, <1>12, <1>13 DEF Handle

LEMMA WorkPayloads ==
  ASSUME TypeOK, PayloadsOK, NEW m \in Sent, Works(m)
  PROVE  PayloadsOK'
<1> SUFFICES ASSUME NEW d \in Call
             PROVE  PayloadOK(d)'
  BY DEF PayloadsOK
<1>1. PayloadOK(d) /\ UNCHANGED <<pc, req, result>>
  BY WorkKeeps DEF PayloadsOK
<1>2. CASE reply'[d] = reply[d]
  BY <1>1, <1>2, SamePayload
<1>3. CASE reply'[d] # reply[d]
  <2>1. ASSUME pc[d] \in {"REGISTER", "LOGIN"}, reply'[d].status = "ok"
        PROVE  reply'[d].token \in Token
    <3>1. RunRegister(m) \/ RunLogin(m)
      BY <1>3, <2>1, WorkAnswers
    <3>2. PICK s, t : Run(m, s, t) /\ (s = "ok" => \E u \in User : t = AccessToken(u))
      BY <3>1 DEF RunRegister, RunLogin, Owner
    <3>3. reply'[d].status = s /\ reply'[d].token = t
      BY <1>3, <3>2, RunReply
    <3> QED BY <2>1, <3>2, <3>3, TokenIssued
  <2> QED BY <1>1, <1>3, <2>1, WorkAnswers DEF PayloadOK
<1> QED BY <1>2, <1>3

LEMMA EnvironmentPayloads ==
  ASSUME TypeOK, PayloadsOK, WorkerRestart \/ GatewayRestart \/ Tick
  PROVE  PayloadsOK'
<1>1. CASE WorkerRestart \/ Tick
  BY <1>1 DEF WorkerRestart, Tick, PayloadsOK, PayloadOK
<1>2. CASE GatewayRestart
  <2> SUFFICES ASSUME NEW d \in Call
               PROVE  PayloadOK(d)'
    BY DEF PayloadsOK
  <2>1. pc'[d] \in {"idle", "done"} /\ UNCHANGED <<req, result>>
    BY <1>2 DEF GatewayRestart
  <2> QED BY <2>1 DEF PayloadsOK, PayloadOK
<1> QED BY <1>1, <1>2

-----------------------------------------------------------------------------
(* The statements that write a table, and what each leaves                 *)

LEMMA RowSteps ==
  ASSUME [Next]_vars
  PROVE  \/ UNCHANGED rows
         \/ \E m \in queue : RunRegister(m) \/ RunCreateProfile(m)
         \/ \E w \in running :
              SaveAccount(w) \/ SoftRemove(w) \/ SaveProfile(w) \/ RemoveProfile(w)
<1>1. ASSUME NEW m \in queue, Start(m), ~RunRegister(m), ~RunCreateProfile(m)
      PROVE  UNCHANGED rows
  BY <1>1 DEF Start, RunLogin, RunValidate, RunSession, RunChangePassword, RunDeactivate, RunFind,
              LoadProfile, Load
<1>2. ASSUME NEW w \in running, Continue(w), ~SaveAccount(w), ~SoftRemove(w), ~SaveProfile(w),
             ~RemoveProfile(w)
      PROVE  UNCHANGED rows
  BY <1>2 DEF Continue, CompareAccount, CompareProfile, StatementFails
<1>3. ASSUME NEW c \in Call, Arrive(c) \/ Handle(c)  PROVE UNCHANGED rows
  <2>1. UNCHANGED workers
    BY <1>3 DEF Arrive, Handle, TurnedAway, Guard, Enter, Throws, HandlerTimeout, Registered,
                ProfileCreated, Compensate, Compensated, LoggedIn, Served, PasswordChanged, Blacklist,
                BlacklistFails, ProfileFound, Deactivated
  <2> QED BY <2>1 DEF workers
<1>4. CASE WorkerRestart \/ GatewayRestart \/ Tick \/ UNCHANGED vars
  BY <1>4 DEF WorkerRestart, GatewayRestart, Tick, vars, workers
<1> QED BY <1>1, <1>2, <1>3, <1>4 DEF Next

(* save() clears deleted_at or leaves it; it never writes the address.     *)
LEMMA SaveEffect ==
  ASSUME TypeOK, NEW w \in running, SaveAccount(w), NEW u \in User
  PROVE  /\ account'[u].email = account[u].email
         /\ u # w.m.user => account'[u] = account[u]
         /\ account'[u].active \in {account[u].active, w.active}
         /\ account'[u].deleted => account[u].deleted
         /\ account[u].deleted => account'[u].deleted \/ u \in revived'
         /\ revived \subseteq revived' /\ UNCHANGED profile
<1> DEFINE back == "deletedAt" \in w.columns
           saved(v) == [account[v] EXCEPT
                         !.active  = IF "isActive" \in w.columns THEN w.active ELSE @,
                         !.deleted = IF back THEN FALSE ELSE @]
<1>0. /\ account \in [User -> [email : Email \cup {NoEmail}, active : BOOLEAN, deleted : BOOLEAN]]
      /\ account[u] \in [email : Email \cup {NoEmail}, active : BOOLEAN, deleted : BOOLEAN]
      /\ account[u].active \in BOOLEAN /\ account[u].deleted \in BOOLEAN /\ w.active \in BOOLEAN
  BY DEF TypeOK, WorldOK, MessagesOK, Work
<1>1. /\ saved(u).email = account[u].email
      /\ saved(u).active \in {account[u].active, w.active}
      /\ saved(u).deleted = IF back THEN FALSE ELSE account[u].deleted
  BY <1>0
<1>2. CASE UNCHANGED rows
  BY <1>2 DEF rows
<1>3. CASE /\ account' = [account EXCEPT ![w.m.user] = saved(w.m.user)]
           /\ revived' = IF back /\ account[w.m.user].deleted THEN revived \cup {w.m.user}
                                                             ELSE revived
           /\ UNCHANGED profile
  <2> HIDE DEF saved, back
  <2>1. account'[u] = IF u = w.m.user THEN saved(u) ELSE account[u]
    BY <1>0, <1>3
  <2> QED BY <1>0, <1>1, <1>3, <2>1
<1> QED BY <1>2, <1>3 DEF SaveAccount

LEMMA SoftRemoveEffect ==
  ASSUME TypeOK, NEW w \in running, SoftRemove(w), NEW u \in User
  PROVE  /\ account'[u].email = account[u].email /\ account'[u].active = account[u].active
         /\ u # w.m.user => account'[u] = account[u]
         /\ account[u].deleted \/ u = w.m.user => account'[u].deleted
         /\ UNCHANGED <<profile, revived>>
BY DEF SoftRemove, TypeOK, WorldOK

(* REGISTER takes an account that is not there yet, another for each.      *)
LEMMA RegisterEffect ==
  ASSUME TypeOK, NEW m, RunRegister(m)
  PROVE  /\ UNCHANGED <<profile, revived>>
         /\ \/ UNCHANGED account /\ Run(m, "refused", NoToken)
            \/ \E v \in User :
                 /\ account[v].email = NoEmail /\ Run(m, "ok", AccessToken(v))
                 /\ account'[v].email = req[m.by].email
                 /\ account'[v].active = TRUE /\ account'[v].deleted = FALSE
                 /\ \A u \in User \ {v} : account'[u] = account[u]
<1>1. CASE UNCHANGED account /\ Run(m, "refused", NoToken)
  BY <1>1 DEF RunRegister
<1>2. ASSUME NEW v \in User, account[v].email = NoEmail, Run(m, "ok", AccessToken(v)),
             account' = [account EXCEPT ![v] =
                          [email |-> req[m.by].email, active |-> TRUE, deleted |-> FALSE]]
      PROVE  /\ account'[v].email = req[m.by].email
             /\ account'[v].active = TRUE /\ account'[v].deleted = FALSE
             /\ \A u \in User \ {v} : account'[u] = account[u]
  BY <1>2 DEF TypeOK, WorldOK
<1> QED BY <1>1, <1>2 DEF RunRegister

(* An address stays, and a deleted account is deleted or was written back. *)
LEMMA AccountStays ==
  ASSUME TypeOK, RemovalOrder, [Next]_vars, NEW u \in User
  PROVE  /\ account[u].email # NoEmail => account'[u].email = account[u].email
         /\ revived \subseteq revived'
         /\ Gone(u) => Gone(u)'
         /\ account'[u].email = NoEmail => ~account'[u].deleted
<1>0. account[u].email = NoEmail => ~account[u].deleted
  BY DEF RemovalOrder
<1>1. CASE UNCHANGED <<account, revived>>
  BY <1>0, <1>1 DEF Gone
<1>2. ASSUME NEW m \in queue, RunRegister(m)
      PROVE  /\ account[u].email # NoEmail => account'[u].email = account[u].email
             /\ revived \subseteq revived'
             /\ Gone(u) => Gone(u)'
             /\ account'[u].email = NoEmail => ~account'[u].deleted
  BY <1>0, <1>2, RegisterEffect DEF Gone
<1>3. ASSUME NEW w \in running, SaveAccount(w)
      PROVE  /\ account'[u].email = account[u].email
             /\ revived \subseteq revived'
             /\ Gone(u) => Gone(u)'
             /\ account'[u].deleted => account[u].deleted
  BY <1>3, SaveEffect DEF Gone
<1>4. ASSUME NEW w \in running, SoftRemove(w)
      PROVE  /\ account'[u].email = account[u].email
             /\ revived \subseteq revived'
             /\ Gone(u) => Gone(u)'
             /\ account'[u].email = NoEmail => ~account'[u].deleted
  <2>1. account[w.m.user].email # NoEmail
    BY <1>4 DEF SoftRemove, RemovalOrder, WorkInOrder
  <2> QED BY <1>0, <1>4, <2>1, SoftRemoveEffect DEF Gone
<1>5. ASSUME NEW w, SaveProfile(w) \/ RemoveProfile(w) \/ RunCreateProfile(w)
      PROVE  UNCHANGED <<account, revived>>
  BY <1>5 DEF SaveProfile, RemoveProfile, RunCreateProfile
<1> QED BY <1>0, <1>1, <1>2, <1>3, <1>4, <1>5, RowSteps DEF rows

(* What is under way is what was, or has just read a row that is there.    *)
LEMMA LoadEffect ==
  ASSUME TypeOK, NEW m \in Sent, Works(m), NEW w \in running'
  PROVE  \/ \E v \in running : w.m = v.m /\ w.row = v.row /\ w.active = v.active
         \/ /\ w.m = m
            /\ m.pattern \in {"CHANGE_PASSWORD", "DEACTIVATE"} =>
                 Visible(m.user) /\ UNCHANGED account
            /\ m.pattern = "CHANGE_PASSWORD" => w.active = account[m.user].active
            /\ m.pattern \in {"UPDATE", "REMOVE"} => w.row # 0
<1> DEFINE Old == \E v \in running : w.m = v.m /\ w.row = v.row /\ w.active = v.active
           New == /\ w.m = m
                  /\ m.pattern \in {"CHANGE_PASSWORD", "DEACTIVATE"} =>
                       Visible(m.user) /\ UNCHANGED account
                  /\ m.pattern = "CHANGE_PASSWORD" => w.active = account[m.user].active
                  /\ m.pattern \in {"UPDATE", "REMOVE"} => w.row # 0
<1>1. ASSUME NEW n, NEW s, NEW t, Run(n, s, t)  PROVE Old
  BY <1>1 DEF Run
<1>2. ASSUME NEW v \in running, NEW at, NEW columns, Proceed(v, at, columns)  PROVE Old
  <2>1. CASE w \in running
    BY <2>1
  <2>2. CASE w = [v EXCEPT !.at = at, !.columns = columns]
    BY <2>2 DEF TypeOK, MessagesOK, Work
  <2> QED BY <1>2, <2>1, <2>2 DEF Proceed
<1>3. ASSUME NEW active, NEW row, Load(m, active, row)
      PROVE  Old \/ (w.m = m /\ w.active = active /\ w.row = row /\ UNCHANGED account)
  BY <1>3 DEF Load, rows
<1>4. CASE m \in queue /\ Start(m)
  <2>1. CASE RunRegister(m) \/ RunLogin(m) \/ RunValidate(m) \/ RunSession(m) \/ RunFind(m)
             \/ RunCreateProfile(m)
    BY <1>1, <2>1 DEF RunRegister, RunLogin, RunValidate, RunSession, RunFind, RunCreateProfile
  <2>2. CASE RunChangePassword(m)
    BY <1>1, <1>3, <2>2 DEF RunChangePassword
  <2>3. CASE RunDeactivate(m)
    BY <1>1, <1>3, <2>3 DEF RunDeactivate
  <2>4. CASE LoadProfile(m)
    BY <1>1, <1>3, <2>4 DEF LoadProfile
  <2> HIDE DEF Old, New
  <2> QED BY <1>4, <2>1, <2>2, <2>3, <2>4 DEF Start
<1>5. ASSUME NEW v \in running, Continue(v)  PROVE Old
  BY <1>1, <1>2, <1>5
  DEF Continue, CompareAccount, SaveAccount, SoftRemove, CompareProfile, SaveProfile, RemoveProfile,
      StatementFails
<1> QED BY <1>4, <1>5 DEF Works

-----------------------------------------------------------------------------
(* What handlers send                                                      *)

LEMMA HandleKeeps ==
  ASSUME NEW c \in Call, Handle(c)
  PROVE  Frame
BY DEF Handle, TurnedAway, Guard, Enter, Throws, HandlerTimeout, Registered, ProfileCreated, Compensate,
       Compensated, LoggedIn, Served, PasswordChanged, Blacklist, BlacklistFails, ProfileFound,
       Deactivated, Frame, workers, rows, world

(* A handler answers only its own client.                                  *)
LEMMA HandleAnswers ==
  ASSUME TypeOK, NEW c \in Call, Handle(c)
  PROVE  \A d \in Call \ {c} : answer'[d] = answer[d]
<1>1. \/ \E s : End(c, s)
      \/ UNCHANGED answer
      \/ answer' = [answer EXCEPT ![c] = "late"]
  BY DEF Handle, TurnedAway, Guard, Enter, Throws, HandlerTimeout, Registered, ProfileCreated,
         Compensate, Compensated, LoggedIn, Served, PasswordChanged, Blacklist, BlacklistFails,
         ProfileFound, Deactivated, Await
<1> QED BY <1>1 DEF End, TypeOK, RequestsOK

(* What a handler sends is in order: VALIDATE is about the token, a        *)
(* DEACTIVATE of remove names the account of the profile, REMOVE an        *)
(* account that was deactivated.                                           *)
LEMMA HandleSends ==
  ASSUME TypeOK, PayloadsOK, RemovalOrder, NEW c \in Call, Handle(c),
         NEW m \in queue' \ queue
  PROVE  /\ m.by = c
         /\ pc'[c] = m.pattern
         /\ m.pattern \in Pattern \ {"REGISTER", "LOGIN"}
         /\ m.pattern # "FIND_ONE" => m.user \in User
         /\ m.pattern = "VALIDATE" => req[c].token \in Token /\ m.user = req[c].token.user
         /\ m.pattern = "REMOVE" => Gone(m.user)
         /\ m.pattern = "DEACTIVATE" /\ req[c].op = "remove" => m.user = req[c].id.user
<1>0. PayloadOK(c) /\ \A t \in Token : t.user \in User
  BY DEF PayloadsOK, Token
<1>1. ASSUME NEW p \in Pattern, NEW u, Await(c, p, u)
      PROVE  m.by = c /\ m.pattern = p /\ m.user = u /\ pc'[c] = p
  BY <1>1 DEF Await, TypeOK, RequestsOK
<1>2. CASE Guard(c)
  <2>1. Await(c, "VALIDATE", req[c].token.user) /\ req[c].token \in Token
    BY <1>0, <1>2 DEF Guard, End, PayloadOK
  <2> QED BY <1>0, <1>1, <2>1
<1>3. CASE Enter(c)
  <2>1. CASE Await(c, "FIND_ONE", NoUser)
    BY <1>1, <2>1
  <2>2. ASSUME NEW p \in {"ME", "UPDATE", "CHANGE_PASSWORD"}, Await(c, p, req[c].token.user),
               req[c].op \in {"me", "updateMe", "changePassword"}
        PROVE  m.by = c /\ m.pattern = p /\ m.user \in User /\ pc'[c] = p
    BY <1>0, <1>1, <2>2 DEF PayloadOK
  <2> QED BY <1>3, <2>1, <2>2 DEF Enter, End
<1>4. CASE Registered(c)
  <2>1. reply[c].token \in Token /\ Await(c, "CREATE_PROFILE", reply[c].token.user)
    BY <1>0, <1>4 DEF Registered, Replied, PayloadOK
  <2> QED BY <1>0, <1>1, <2>1
<1>5. CASE Compensate(c)
  <2>1. /\ req[c].op = "register" /\ result[c] \in Token
        /\ Await(c, "DEACTIVATE", result[c].user)
    BY <1>0, <1>5 DEF Compensate, PayloadOK
  <2> QED BY <1>0, <1>1, <2>1
<1>6. CASE Blacklist(c)
  <2>1. Await(c, "LOGOUT", req[c].token.user) /\ req[c].token \in Token
    BY <1>0, <1>6 DEF Blacklist, End, PayloadOK
  <2> QED BY <1>0, <1>1, <2>1
<1>7. CASE ProfileFound(c)
  <2>1. req[c].id.user \in User
    BY <1>0, <1>7 DEF ProfileFound, Replied, PayloadOK
  <2>2. PICK p \in {"DEACTIVATE", "UPDATE"} : Await(c, p, req[c].id.user)
    BY <1>7 DEF ProfileFound
  <2> QED BY <1>1, <2>1, <2>2
<1>8. CASE Deactivated(c)
  <2>1. req[c].id.user \in User /\ Gone(req[c].id.user) /\ Await(c, "REMOVE", req[c].id.user)
    BY <1>0, <1>8 DEF Deactivated, PayloadOK, RemovalOrder, DeactivationDone
  <2> QED BY <1>1, <2>1
<1>9. CASE UNCHANGED queue
  BY <1>9
<1> QED
  BY <1>2, <1>3, <1>4, <1>5, <1>6, <1>7, <1>8, <1>9
  DEF Handle, TurnedAway, Throws, HandlerTimeout, ProfileCreated, Compensated, LoggedIn, Served,
      PasswordChanged, BlacklistFails, End

(* No handler goes back to idle, one that moved awaits its reply anew, and *)
(* what was sent stays.                                                    *)
LEMMA HandleMoves ==
  ASSUME TypeOK, NEW c \in Call, Handle(c)
  PROVE  /\ pc'[c] # "idle"
         /\ reply'[c].status = "ok" => pc'[c] = pc[c] /\ reply'[c] = reply[c]
         /\ queue \subseteq queue'
<1>1. \/ \E s : End(c, s)
      \/ \E p \in Pattern : \E u : Await(c, p, u)
      \/ /\ pc' = [pc EXCEPT ![c] = "blacklist"] /\ reply' = [reply EXCEPT ![c] = NoReply]
         /\ UNCHANGED queue
      \/ UNCHANGED <<pc, reply, queue>> /\ pc[c] # "idle"
  BY DEF Handle, TurnedAway, Guard, Enter, Throws, HandlerTimeout, Registered, ProfileCreated, Compensate,
         Compensated, LoggedIn, Served, PasswordChanged, Blacklist, BlacklistFails, ProfileFound,
         Deactivated
<1> QED BY <1>1 DEF TypeOK, RequestsOK, End, Await, NoReply

-----------------------------------------------------------------------------
(* Typing and the order of messages                                        *)

(* What the workers rest on: a message names an account that is there.     *)
Ordered == TypeOK /\ PayloadsOK /\ RemovalOrder

LEMMA OrderInit ==
  ASSUME Init
  PROVE  Ordered
<1>1. TypeOK /\ PayloadsOK
  BY InitType, InitPayloads
<1>2. Sent = {} /\ running = {} /\ \A c \in Call : DeactivationDone(c)
  BY DEF Init, Sent, DeactivationDone, NoRequest
<1>3. \A u \in User : ~account[u].deleted
  BY DEF Init
<1> QED BY <1>1, <1>2, <1>3 DEF Ordered, RemovalOrder

LEMMA ArriveOrder ==
  ASSUME Ordered, NEW c \in Call, Arrive(c)
  PROVE  RemovalOrder'
<1>0. TypeOK /\ RemovalOrder
  BY DEF Ordered
<1>1. /\ pc[c] = "idle" /\ pc'[c] \in {"REGISTER", "LOGIN", "guard"}
      /\ UNCHANGED <<account, revived, running, done>>
      /\ \A d \in Call \ {c} : pc'[d] = pc[d] /\ req'[d] = req[d] /\ reply'[d] = reply[d]
      /\ \A m \in queue' \ queue :
           m.by = c /\ m.pattern \in {"REGISTER", "LOGIN"} /\ req'[c].email # NoEmail
  BY <1>0, ArriveOthers
<1>2. ASSUME NEW m \in Sent'
      PROVE  MessageInOrder(m)'
  <2>1. CASE m \in Sent
    <3>1. m.by \in Call \ {c} /\ MessageInOrder(m)
      BY <1>0, <1>1, <2>1, SentType DEF RemovalOrder, MessageInOrder
    <3> QED BY <1>1, <3>1 DEF MessageInOrder, Gone
  <2>2. CASE m \in queue' \ queue
    BY <1>1, <2>2 DEF MessageInOrder
  <2> QED BY <1>1, <1>2, <2>1, <2>2 DEF Sent
<1>3. ASSUME NEW d \in Call
      PROVE  DeactivationDone(d)'
  BY <1>0, <1>1 DEF RemovalOrder, DeactivationDone, Replied, Gone
<1>4. \A w \in running' : WorkInOrder(w)'
  BY <1>0, <1>1 DEF RemovalOrder, WorkInOrder
<1> QED BY <1>0, <1>1, <1>2, <1>3, <1>4 DEF RemovalOrder

LEMMA HandleOrder ==
  ASSUME Ordered, NEW c \in Call, Handle(c)
  PROVE  RemovalOrder'
<1>0. TypeOK /\ PayloadsOK /\ RemovalOrder
  BY DEF Ordered
<1>1. UNCHANGED <<account, revived, running, done, req>>
  BY HandleKeeps DEF Frame
<1>2. ASSUME NEW m \in Sent'
      PROVE  MessageInOrder(m)'
  <2>1. CASE m \in Sent
    <3>1. m.by \in Call /\ MessageInOrder(m)
      BY <1>0, <2>1, SentType DEF RemovalOrder
    <3>2. pc'[m.by] # "idle"
      BY <1>0, <3>1, HandleMoves, HandleOthers DEF MessageInOrder
    <3> QED BY <1>1, <3>1, <3>2 DEF MessageInOrder, Gone
  <2>2. CASE m \in queue' \ queue
    BY <1>0, <1>1, <2>2, HandleSends DEF MessageInOrder, Gone
  <2> QED BY <1>1, <1>2, <2>1, <2>2 DEF Sent
<1>3. ASSUME NEW d \in Call
      PROVE  DeactivationDone(d)'
  <2>1. reply'[d].status = "ok" => pc'[d] = pc[d] /\ reply'[d] = reply[d]
    BY <1>0, HandleMoves, HandleOthers
  <2> QED BY <1>0, <1>1, <2>1 DEF RemovalOrder, DeactivationDone, Replied, Gone
<1>4. \A w \in running' : WorkInOrder(w)'
  BY <1>0, <1>1 DEF RemovalOrder, WorkInOrder
<1> QED BY <1>0, <1>1, <1>2, <1>3, <1>4 DEF RemovalOrder

LEMMA WorkOrder ==
  ASSUME Ordered, NEW m \in Sent, Works(m), [Next]_vars
  PROVE  RemovalOrder'
<1>0. TypeOK /\ PayloadsOK /\ RemovalOrder
  BY DEF Ordered
<1>1. Sent' = Sent /\ UNCHANGED <<pc, req>>
  BY <1>0, WorkKeeps
<1>2. \A u \in User : /\ account[u].email # NoEmail => account'[u].email = account[u].email
                      /\ Gone(u) => Gone(u)'
                      /\ account'[u].email = NoEmail => ~account'[u].deleted
  BY <1>0, AccountStays
<1>3. ASSUME NEW n \in Sent'
      PROVE  MessageInOrder(n)'
  <2>1. MessageInOrder(n) /\ n.by \in Call
    BY <1>0, <1>1, SentType DEF RemovalOrder
  <2> QED BY <1>1, <1>2, <2>1 DEF MessageInOrder
<1>4. ASSUME NEW w \in running'
      PROVE  WorkInOrder(w)'
  <2>1. w.m \in Sent /\ MessageInOrder(w.m)
    <3>1. w.m \in Sent'
      BY <1>4 DEF Sent
    <3> QED BY <1>0, <1>1, <3>1 DEF RemovalOrder
  <2>2. ASSUME NEW v \in running, w.m = v.m, w.row = v.row
        PROVE  WorkInOrder(w)'
    <3>1. WorkInOrder(v)
      BY <1>0 DEF RemovalOrder
    <3> QED BY <1>2, <2>1, <2>2, <3>1 DEF WorkInOrder, MessageInOrder
  <2>3. ASSUME w.m = m,
               m.pattern \in {"CHANGE_PASSWORD", "DEACTIVATE"} =>
                 Visible(m.user) /\ UNCHANGED account,
               m.pattern \in {"UPDATE", "REMOVE"} => w.row # 0
        PROVE  WorkInOrder(w)'
    BY <2>3 DEF WorkInOrder, Visible
  <2> QED BY <1>0, <2>2, <2>3, LoadEffect
<1>5. ASSUME NEW d \in Call
      PROVE  DeactivationDone(d)'
  <2> SUFFICES ASSUME req[d].op = "remove", Replied(d, "DEACTIVATE", "ok")'
               PROVE  Gone(req[d].id.user)'
    BY <1>1 DEF DeactivationDone
  <2>1. req[d].id.user \in User
    BY <1>0 DEF PayloadsOK, PayloadOK
  <2>2. CASE reply'[d] = reply[d]
    BY <1>0, <1>1, <1>2, <2>1, <2>2 DEF RemovalOrder, DeactivationDone, Replied
  <2>3. CASE reply'[d] # reply[d]
    <3>1. d = m.by /\ m.pattern = "DEACTIVATE" /\ \E w \in running : w.m = m /\ SoftRemove(w)
      BY <1>0, <1>1, <2>3, WorkAnswers DEF Replied
    <3>2. m.user = req[d].id.user
      BY <1>0, <3>1 DEF RemovalOrder, MessageInOrder
    <3>3. PICK w \in running : w.m = m /\ SoftRemove(w)
      BY <3>1
    <3>4. account'[req[d].id.user].deleted
      BY <1>0, <2>1, <3>2, <3>3, SoftRemoveEffect
    <3> QED BY <1>1, <3>4 DEF Gone
  <2> QED BY <2>2, <2>3
<1> QED BY <1>2, <1>3, <1>4, <1>5 DEF RemovalOrder

(* A restart of a worker loses no message, one of the gateway sends none.  *)
LEMMA EnvironmentSent ==
  ASSUME WorkerRestart \/ GatewayRestart \/ Tick \/ UNCHANGED vars
  PROVE  /\ Sent' = Sent /\ running' \subseteq running
         /\ UNCHANGED <<account, profile, revived, closed, req, result, held, barred, orphan>>
<1>1. CASE WorkerRestart
  <2>1. PICK patterns \in {AuthPattern, UserPattern} :
          /\ queue' = queue \cup {m \in done : m.pattern \in patterns}
                        \cup {w.m : w \in {w \in running : w.m.pattern \in patterns}}
          /\ running' = running \ {w \in running : w.m.pattern \in patterns}
          /\ done' = done \ {m \in done : m.pattern \in patterns}
    BY <1>1, Zenon DEF WorkerRestart
  <2>2. Sent' = Sent /\ running' \subseteq running
    BY <2>1 DEF Sent
  <2> QED BY <1>1, <2>2 DEF WorkerRestart, rows, redis
<1>2. CASE GatewayRestart \/ Tick \/ UNCHANGED vars
  BY <1>2 DEF GatewayRestart, Tick, vars, workers, rows, redis, world, Sent
<1> QED BY <1>1, <1>2

LEMMA EnvironmentOrder ==
  ASSUME Ordered, WorkerRestart \/ GatewayRestart \/ Tick \/ UNCHANGED vars
  PROVE  RemovalOrder'
<1>0. TypeOK /\ RemovalOrder
  BY DEF Ordered
<1>1. Sent' = Sent /\ running' \subseteq running /\ UNCHANGED <<account, revived, req>>
  BY EnvironmentSent
<1>2. \A d \in Call : \/ pc'[d] = pc[d] /\ reply'[d] = reply[d]
                      \/ pc'[d] = IF pc[d] = "idle" THEN "idle" ELSE "done"
  <2>1. CASE GatewayRestart
    BY <1>0, <2>1 DEF GatewayRestart, TypeOK, RequestsOK
  <2>2. CASE WorkerRestart \/ Tick \/ UNCHANGED vars
    BY <2>2 DEF WorkerRestart, Tick, vars
  <2> QED BY <2>1, <2>2
<1>3. ASSUME NEW m \in Sent'
      PROVE  MessageInOrder(m)'
  <2>1. MessageInOrder(m) /\ m.by \in Call
    BY <1>0, <1>1, SentType DEF RemovalOrder
  <2> QED BY <1>1, <1>2, <2>1 DEF MessageInOrder, Gone
<1>4. \A w \in running' : WorkInOrder(w)'
  BY <1>0, <1>1 DEF RemovalOrder, WorkInOrder
<1>5. \A d \in Call : DeactivationDone(d)'
  BY <1>0, <1>1, <1>2 DEF RemovalOrder, DeactivationDone, Replied, Gone
<1> QED BY <1>0, <1>1, <1>3, <1>4, <1>5 DEF RemovalOrder

(* The kinds of steps there are, with a worker's under its message.        *)
LEMMA StepKinds ==
  ASSUME TypeOK, [Next]_vars
  PROVE  \/ \E c \in Call : Arrive(c) \/ Handle(c)
         \/ \E m \in Sent : Works(m)
         \/ WorkerRestart \/ GatewayRestart \/ Tick \/ UNCHANGED vars
BY Workers DEF Next

LEMMA OrderStep ==
  ASSUME Ordered, [Next]_vars
  PROVE  Ordered'
<1>0. TypeOK /\ PayloadsOK /\ RemovalOrder
  BY DEF Ordered
<1>1. ASSUME NEW c \in Call, Arrive(c)  PROVE Ordered'
  BY <1>0, <1>1, ArriveType, ArrivePayloads, ArriveOrder DEF Ordered
<1>2. ASSUME NEW c \in Call, Handle(c)  PROVE Ordered'
  BY <1>0, <1>2, HandleType, HandlePayloads, HandleOrder DEF Ordered
<1>3. ASSUME NEW m \in Sent, Works(m)  PROVE Ordered'
  <2>1. TypeOK'
    BY <1>0, <1>3, StartType, ContinueType DEF Works
  <2> QED BY <1>0, <1>3, <2>1, WorkPayloads, WorkOrder DEF Ordered
<1>4. CASE WorkerRestart \/ GatewayRestart \/ Tick
  BY <1>0, <1>4, EnvironmentType, EnvironmentPayloads, EnvironmentOrder DEF Ordered
<1>5. CASE UNCHANGED vars
  <2>1. TypeOK' /\ PayloadsOK'
    BY <1>0, <1>5
    DEF TypeOK, WorldOK, MessagesOK, RequestsOK, PayloadsOK, PayloadOK, vars, workers, rows, redis,
        world
  <2> QED BY <1>5, <2>1, EnvironmentOrder DEF Ordered
<1> QED BY <1>0, <1>1, <1>2, <1>3, <1>4, <1>5, StepKinds

(* Typing: every variable of the gateway, its brokers' queues and workers  *)
(* keeps its type, for any number of requests, accounts and restarts.      *)
THEOREM GatewayTypeCorrect == Spec => []TypeOK
<1>1. Init => Ordered
  BY OrderInit
<1>2. Ordered /\ [Next]_vars => Ordered'
  BY OrderStep
<1>3. Ordered => TypeOK
  BY DEF Ordered
<1> QED BY <1>1, <1>2, <1>3, PTL DEF Spec

-----------------------------------------------------------------------------
(* The order of a removal                                                  *)

(* Only REMOVE takes a profile away, and its account is gone by then.      *)
LEMMA ProfileStep ==
  ASSUME Ordered, RemovedProfileOfRemovedAccount, [Next]_vars
  PROVE  RemovedProfileOfRemovedAccount'
<1>0. TypeOK /\ RemovalOrder
  BY DEF Ordered
<1>1. \A u \in User : Gone(u) => Gone(u)'
  BY <1>0, AccountStays
<1> SUFFICES ASSUME NEW u \in User, ProfileRemoved(u)'
             PROVE  Gone(u)'
  BY DEF RemovedProfileOfRemovedAccount
<1>2. CASE profile'[u] = profile[u]
  BY <1>1, <1>2 DEF RemovedProfileOfRemovedAccount, ProfileRemoved
<1>3. ASSUME NEW m \in queue, RunCreateProfile(m)
      PROVE  profile'[u] = profile[u] \/ profile'[u].kept # 0
  <2> DEFINE old == profile[m.user]
             new == IF old.kept # 0 THEN old ELSE [n |-> old.n + 1, kept |-> old.n + 1]
  <2>1. u = m.user => old.n \in Nat
    BY <1>0 DEF TypeOK, WorldOK
  <2>2. u = m.user => new.kept # 0
    BY <2>1
  <2>3. profile' = [profile EXCEPT ![m.user] = new]
    BY <1>3 DEF RunCreateProfile
  <2> HIDE DEF new
  <2> QED BY <1>0, <2>2, <2>3 DEF TypeOK, WorldOK
<1>4. ASSUME NEW w \in running, SaveProfile(w)
      PROVE  profile'[u] = profile[u] \/ profile'[u].kept # 0
  <2>1. w.row # 0
    BY <1>0, <1>4 DEF SaveProfile, RemovalOrder, WorkInOrder
  <2> QED BY <1>0, <1>4, <2>1 DEF SaveProfile, TypeOK, WorldOK
<1>5. ASSUME NEW w \in running, RemoveProfile(w)
      PROVE  profile'[u] = profile[u] \/ Gone(u)
  <2>1. w.m \in Sent /\ w.m.pattern = "REMOVE"
    BY <1>5 DEF RemoveProfile, Sent
  <2>2. Gone(w.m.user)
    BY <1>0, <2>1 DEF RemovalOrder, MessageInOrder
  <2> QED BY <1>0, <1>5, <2>2 DEF RemoveProfile, TypeOK, WorldOK
<1>6. ASSUME NEW w, RunRegister(w) \/ SaveAccount(w) \/ SoftRemove(w)
      PROVE  UNCHANGED profile
  BY <1>6 DEF RunRegister, SaveAccount, SoftRemove, rows
<1> QED BY <1>1, <1>2, <1>3, <1>4, <1>5, <1>6, RowSteps DEF rows, ProfileRemoved

LEMMA RemovalInit ==
  ASSUME Init
  PROVE  RemovalInvariant
BY OrderInit DEF Init, Ordered, RemovalInvariant, RemovedProfileOfRemovedAccount, ProfileRemoved

LEMMA RemovalStep ==
  ASSUME RemovalInvariant, [Next]_vars
  PROVE  RemovalInvariant'
BY OrderStep, ProfileStep DEF Ordered, RemovalInvariant

(* Where a profile was removed and none is kept, its account was removed   *)
(* before, whatever calls failed, came late or ran again on the way: the   *)
(* account is deleted, or it was and a handler that had loaded it before   *)
(* has saved it back since.  UsersController.remove waits for DEACTIVATE   *)
(* before it sends REMOVE, and neither a late REMOVE nor an UPDATE or      *)
(* CREATE_PROFILE under way makes it otherwise.                            *)
THEOREM AccountGoesFirst == Spec => []RemovedProfileOfRemovedAccount
<1>1. Init => RemovalInvariant
  BY RemovalInit
<1>2. RemovalInvariant /\ [Next]_vars => RemovalInvariant'
  BY RemovalStep
<1>3. RemovalInvariant => RemovedProfileOfRemovedAccount
  BY DEF RemovalInvariant
<1> QED BY <1>1, <1>2, <1>3, PTL DEF Spec

=============================================================================
