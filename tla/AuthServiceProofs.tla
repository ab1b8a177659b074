------------------------- MODULE AuthServiceProofs -------------------------
(***************************************************************************)
(* What AuthService guarantees for any number of requests, accounts and    *)
(* seconds.  Typing; then that two accounts never share an address and     *)
(* that a password is written by a changePassword only: every step inserts *)
(* a row behind the unique index, saves the columns an entity differs in,  *)
(* or leaves the rows alone (RowStep).                                     *)
(***************************************************************************)
EXTENDS AuthService, TLAPS

-----------------------------------------------------------------------------
(* Typing of the control operators                                         *)

LEMMA NoEntityType == NoEntity \in Entity
BY DEF NoEntity, Entity, BlankRow, Row, Role

LEMMA FinishType ==
  ASSUME HandlersOK, NEW a \in Actor, NEW r \in Answer, Finish(a, r)
  PROVE  HandlersOK'
BY NoEntityType DEF HandlersOK, Finish, Stage

LEMMA ProceedType ==
  ASSUME HandlersOK, NEW a \in Actor, NEW s \in Stage, Proceed(a, s), UNCHANGED heap
  PROVE  HandlersOK'
BY DEF HandlersOK, Proceed, heap

LEMMA HoldType ==
  ASSUME HandlersOK, NEW a \in Actor, NEW s \in Stage, NEW e \in Entity,
         Proceed(a, s), Hold(a, e)
  PROVE  HandlersOK'
BY DEF HandlersOK, Proceed, Hold

LEMMA BatchType ==
  ASSUME HandlersOK, NEW a \in Actor, NEW s \in Stage, NEW S \in SUBSET Token,
         Proceed(a, s), batch' = [batch EXCEPT ![a] = S], UNCHANGED <<ent, diff>>
  PROVE  HandlersOK'
BY DEF HandlersOK, Proceed

LEMMA RequestsUnchanged ==
  ASSUME RequestsOK, UNCHANGED env
  PROVE  RequestsOK'
BY DEF RequestsOK, env

LEMMA DatabaseUnchanged ==
  ASSUME DatabaseOK, UNCHANGED db
  PROVE  DatabaseOK'
BY DEF DatabaseOK, db

LEMMA RestartType ==
  ASSUME TypeOK, Restart
  PROVE  TypeOK'
<1>1. HandlersOK'
  BY NoEntityType DEF TypeOK, HandlersOK, Restart, Stage, Answer
<1>2. RequestsOK'
  BY BoundAssumption DEF TypeOK, RequestsOK, Restart
<1>3. DatabaseOK'
  BY DatabaseUnchanged DEF TypeOK, Restart
<1> QED BY <1>1, <1>2, <1>3 DEF TypeOK

(* Rows and entities built by the handlers.                                *)
LEMMA RowType ==
  /\ \A e \in Email, p \in Password \cup {NoPassword}, r \in Role : NewRow(e, p, r) \in Row
  /\ BlankRow \in Row
BY DEF NewRow, Row, BlankRow, Role

LEMMA LoadType ==
  ASSUME DatabaseOK, NEW u \in UserId
  PROVE  /\ Load(u) \in Entity
         /\ LoadWithPassword(u) \in Entity
         /\ Load(u).row \in Row
         /\ Load(u).id = u
BY DEF DatabaseOK, Load, LoadWithPassword, Entity, Row

LEMMA WrittenType ==
  ASSUME NEW row \in Row, NEW e \in Row, NEW columns
  PROVE  Written(row, e, columns) \in Row
BY DEF Written, Row

(* What a request carries, by operation.                                   *)
LEMMA PayloadType ==
  ASSUME NEW r \in Request \cup {NoRequest}
  PROVE  /\ r.op \in {"register", "login"} => r.email \in Email /\ r.password \in Password
         /\ r.op = "refresh" => r.token \in Token
         /\ r.op = "logout" => r.user \in UserId /\ r.token \in Token \cup {NoToken}
         /\ r.op = "changePassword" => /\ r.user \in UserId
                                       /\ r.current \in Password /\ r.next \in Password
         /\ r.op = "deactivate" => r.user \in UserId
BY DEF Request, NoRequest

-----------------------------------------------------------------------------
(* Typing of the steps                                                     *)

LEMMA InitType ==
  ASSUME Init
  PROVE  TypeOK
<1>1. DatabaseOK
  BY SeedAssumption, RowType DEF Init, DatabaseOK, Row, Role
<1>2. HandlersOK
  BY NoEntityType DEF Init, HandlersOK, Stage, Answer
<1>3. RequestsOK
  BY BoundAssumption DEF Init, RequestsOK, Time
<1> QED BY <1>1, <1>2, <1>3 DEF TypeOK

LEMMA SendType ==
  ASSUME TypeOK, NEW c \in Call, Send(c)
  PROVE  TypeOK'
<1>1. DatabaseOK'
  BY DatabaseUnchanged DEF TypeOK, Send
<1>2. HandlersOK'
  BY ProceedType DEF TypeOK, Send, Actor, Stage
<1>3. RequestsOK'
  <2>1. PICK r \in Request :
          /\ req' = [req EXCEPT ![c] = r]
          /\ seen' = [seen EXCEPT ![c] = IF Names(r) THEN TokensOf(r.user) ELSE {}]
    BY DEF Send, Sendable
  <2>2. (IF Names(r) THEN TokensOf(r.user) ELSE {}) \in SUBSET Token
    BY DEF TokensOf
  <2>3. UNCHANGED <<now, crashes>>
    BY DEF Send
  <2> QED BY <2>1, <2>2, <2>3 DEF TypeOK, RequestsOK
<1> QED BY <1>1, <1>2, <1>3 DEF TypeOK

(* A token signed for an account is one, if the clock is within its bound. *)
LEMMA InsertType ==
  ASSUME DatabaseOK, NEW t, Insert(t), UNCHANGED users
  PROVE  DatabaseOK'
BY DEF DatabaseOK, Insert

LEMMA IssueType ==
  ASSUME TypeOK, NEW c \in Call, Issue(c)
  PROVE  TypeOK'
<1>1. DatabaseOK'
  <2>1. CASE UNCHANGED <<tokens, session>>
    BY <2>1, DatabaseUnchanged DEF TypeOK, Issue, db
  <2>2. CASE Insert(SignedFor(ent[c]))
    BY <2>2, InsertType DEF TypeOK, Issue
  <2> QED BY <2>1, <2>2 DEF Issue
<1>2. HandlersOK'
  <2>1. PICK r \in Answer : Finish(c, r)
    BY DEF Issue, Answer
  <2> QED BY <2>1, FinishType DEF TypeOK, Actor
<1>3. RequestsOK'
  BY RequestsUnchanged DEF TypeOK, Issue
<1> QED BY <1>1, <1>2, <1>3 DEF TypeOK

LEMMA RegisterType ==
  ASSUME TypeOK, NEW c \in Call, RegisterFind(c) \/ RegisterInsert(c)
  PROVE  TypeOK'
<1>0. c \in Actor /\ {"conflict"} \subseteq Answer /\ {"insert", "issue"} \subseteq Stage
  BY DEF Actor, Answer, Stage
<1>1. CASE RegisterFind(c)
  <2>1. DatabaseOK' /\ RequestsOK'
    BY <1>1, DatabaseUnchanged, RequestsUnchanged DEF TypeOK, RegisterFind
  <2>2. HandlersOK'
    BY <1>0, <1>1, FinishType, ProceedType DEF TypeOK, RegisterFind
  <2> QED BY <2>1, <2>2 DEF TypeOK
<1>2. CASE RegisterInsert(c)
  <2> DEFINE row == NewRow(req[c].email, req[c].password, "user")
  <2>1. row \in Row
    BY <1>2, PayloadType, RowType DEF TypeOK, RequestsOK, RegisterInsert, At, Role
  <2>2. RequestsOK'
    BY <1>2, RequestsUnchanged DEF TypeOK, RegisterInsert
  <2>3. CASE Finish(c, "conflict") /\ UNCHANGED users
    BY <1>0, <1>2, <2>2, <2>3, FinishType, DatabaseUnchanged
    DEF TypeOK, RegisterInsert, db
  <2>4. ASSUME NEW u \in UserId, users' = [users EXCEPT ![u] = row],
               Hold(c, [id |-> u, row |-> row]), Proceed(c, "issue")
        PROVE  TypeOK'
    <3>1. DatabaseOK'
      BY <1>2, <2>1, <2>4 DEF TypeOK, DatabaseOK, RegisterInsert
    <3>2. [id |-> u, row |-> row] \in Entity
      BY <2>1 DEF Entity
    <3>3. HandlersOK'
      BY <1>0, <2>4, <3>2, HoldType DEF TypeOK
    <3> QED BY <2>2, <3>1, <3>3 DEF TypeOK
  <2> QED BY <1>2, <2>3, <2>4 DEF RegisterInsert
<1> QED BY <1>1, <1>2

LEMMA LoginType ==
  ASSUME TypeOK, NEW c \in Call, Login(c)
  PROVE  TypeOK'
<1>1. DatabaseOK' /\ RequestsOK'
  BY DatabaseUnchanged, RequestsUnchanged DEF TypeOK, Login
<1>2. c \in Actor /\ {"unauthorized", "forbidden"} \subseteq Answer /\ "issue" \in Stage
  BY DEF Actor, Answer, Stage
<1>3. HandlersOK'
  BY <1>2, FinishType, HoldType, LoadType DEF TypeOK, Login
<1> QED BY <1>1, <1>3 DEF TypeOK

LEMMA RefreshType ==
  ASSUME TypeOK, NEW c \in Call, RefreshVerify(c) \/ RefreshLock(c) \/ Rotate(c)
  PROVE  TypeOK'
<1>0. /\ c \in Actor /\ {"unauthorized", "forbidden", "ok", "duplicate"} \subseteq Answer
      /\ {"lock", "rotate"} \subseteq Stage
  BY DEF Actor, Answer, Stage
<1>1. RequestsOK'
  BY RequestsUnchanged DEF TypeOK, RefreshVerify, RefreshLock, Rotate
<1>2. req[c].token \in Token
  BY PayloadType DEF TypeOK, RequestsOK, RefreshVerify, RefreshLock, Rotate, At
<1>3. CASE RefreshVerify(c)
  BY <1>0, <1>1, <1>3, DatabaseUnchanged, FinishType, ProceedType
  DEF TypeOK, RefreshVerify
<1>4. CASE RefreshLock(c)
  <2>1. Load(req[c].token.user) \in Entity
    BY <1>2, LoadType DEF TypeOK, Token
  <2> QED BY <1>0, <1>1, <1>4, <2>1, DatabaseUnchanged, FinishType, HoldType
          DEF TypeOK, RefreshLock
<1>5. CASE Rotate(c)
  <2>1. HandlersOK'
    BY <1>0, <1>5, FinishType DEF TypeOK, Rotate
  <2>2. DatabaseOK'
    BY <1>2, <1>5 DEF TypeOK, DatabaseOK, Rotate
  <2> QED BY <1>1, <2>1, <2>2 DEF TypeOK
<1> QED BY <1>3, <1>4, <1>5

LEMMA RevokeRowsType ==
  ASSUME DatabaseOK, NEW S, RevokeRows(S), UNCHANGED <<users, session>>
  PROVE  DatabaseOK'
BY DEF DatabaseOK, RevokeRows

LEMMA RevocationType ==
  ASSUME TypeOK, NEW c \in Call,
         LogoutAll(c) \/ LogoutOne(c) \/ Collect(c) \/ Revoke(c)
  PROVE  TypeOK'
<1>0. c \in Actor /\ "ok" \in Answer /\ {"revoke", "remove"} \subseteq Stage
  BY DEF Actor, Answer, Stage
<1>1. RequestsOK'
  BY RequestsUnchanged DEF TypeOK, LogoutAll, LogoutOne, Collect, Revoke
<1>2. \A u : LiveTokensOf(u) \in SUBSET Token
  BY DEF LiveTokensOf, TokensOf
<1>3. CASE LogoutAll(c)
  BY <1>0, <1>1, <1>2, <1>3, DatabaseUnchanged, BatchType DEF TypeOK, LogoutAll
<1>4. CASE LogoutOne(c)
  BY <1>0, <1>1, <1>4, RevokeRowsType, FinishType DEF TypeOK, LogoutOne
<1>5. CASE Collect(c)
  BY <1>0, <1>1, <1>2, <1>5, DatabaseUnchanged, BatchType DEF TypeOK, Collect
<1>6. CASE Revoke(c)
  <2>1. DatabaseOK'
    BY <1>6, RevokeRowsType DEF TypeOK, Revoke
  <2>2. HandlersOK'
    BY <1>0, <1>6, FinishType, BatchType DEF TypeOK, Revoke
  <2> QED BY <1>1, <2>1, <2>2 DEF TypeOK
<1> QED BY <1>3, <1>4, <1>5, <1>6

(* An entity that differs from a stored row in one column is an entity.    *)
LEMMA EntityType ==
  ASSUME DatabaseOK, NEW u \in UserId
  PROVE  /\ \A p \in Password :
              [id |-> u, row |-> [users[u] EXCEPT !.password = p]] \in Entity
         /\ [id |-> u, row |-> [Load(u).row EXCEPT !.isActive = FALSE]] \in Entity
         /\ [id |-> u, row |-> [Load(u).row EXCEPT !.role = "admin"]] \in Entity
<1>1. users[u] \in Row /\ Load(u).row \in Row
  BY LoadType DEF DatabaseOK
<1>2. \A p \in Password : [users[u] EXCEPT !.password = p] \in Row
  BY <1>1 DEF Row
<1>3. [Load(u).row EXCEPT !.isActive = FALSE] \in Row
  BY <1>1 DEF Row
<1>4. [Load(u).row EXCEPT !.role = "admin"] \in Row
  BY <1>1 DEF Row, Role
<1> QED BY <1>2, <1>3, <1>4 DEF Entity

LEMMA FindType ==
  ASSUME TypeOK, NEW c \in Call, ChangeFind(c) \/ DeactivateFind(c)
  PROVE  TypeOK'
<1>0. c \in Actor /\ {"notFound", "unauthorized"} \subseteq Answer /\ "save" \in Stage
  BY DEF Actor, Answer, Stage
<1>1. DatabaseOK' /\ RequestsOK'
  BY DatabaseUnchanged, RequestsUnchanged DEF TypeOK, ChangeFind, DeactivateFind
<1>2. CASE ChangeFind(c)
  <2>1. req[c].user \in UserId /\ req[c].next \in Password
    BY <1>2, PayloadType DEF TypeOK, RequestsOK, ChangeFind, At
  <2> QED BY <1>0, <1>1, <1>2, <2>1, EntityType, FinishType, HoldType
          DEF TypeOK, ChangeFind
<1>3. CASE DeactivateFind(c)
  <2>1. req[c].user \in UserId
    BY <1>3, PayloadType DEF TypeOK, RequestsOK, DeactivateFind, At
  <2> QED BY <1>0, <1>1, <1>3, <2>1, EntityType, FinishType, HoldType
          DEF TypeOK, DeactivateFind
<1> QED BY <1>2, <1>3

LEMMA RemoveType ==
  ASSUME TypeOK, NEW c \in Call, Remove(c)
  PROVE  TypeOK'
<1>1. DatabaseOK'
  BY DEF TypeOK, DatabaseOK, Remove, Row
<1>2. HandlersOK' /\ RequestsOK'
  BY FinishType, RequestsUnchanged DEF TypeOK, Remove, Actor, Answer
<1> QED BY <1>1, <1>2 DEF TypeOK

LEMMA BootType ==
  ASSUME TypeOK, BootFind \/ BootInsert
  PROVE  TypeOK'
<1>0. Boot \in Actor /\ "ok" \in Answer /\ {"insert", "save"} \subseteq Stage
  BY DEF Actor, Answer, Stage
<1>1. CASE BootFind
  <2>1. DatabaseOK' /\ RequestsOK'
    BY <1>1, DatabaseUnchanged, RequestsUnchanged DEF TypeOK, BootFind
  <2>2. HandlersOK'
    BY <1>0, <1>1, EntityType, FinishType, ProceedType, HoldType DEF TypeOK, BootFind
  <2> QED BY <2>1, <2>2 DEF TypeOK
<1>2. CASE BootInsert
  <2>1. CASE EmailTaken(AdminEmail, NoUser) /\ Restart
    BY <2>1, RestartType
  <2>2. ASSUME NEW u \in UserId, Finish(Boot, "ok"), UNCHANGED <<tokens, session, env>>,
               users' = [users EXCEPT ![u] = NewRow(AdminEmail, AdminPassword, "admin")]
        PROVE  TypeOK'
    <3>1. NewRow(AdminEmail, AdminPassword, "admin") \in Row
      BY AdminAssumption DEF NewRow, Row, Role
    <3>2. DatabaseOK'
      BY <2>2, <3>1 DEF TypeOK, DatabaseOK
    <3> QED BY <1>0, <2>2, <3>2, FinishType, RequestsUnchanged DEF TypeOK
  <2> QED BY <1>2, <2>1, <2>2 DEF BootInsert
<1> QED BY <1>1, <1>2

LEMMA SaveType ==
  ASSUME TypeOK, NEW a \in Actor, SaveDiff(a) \/ SaveWrite(a)
  PROVE  TypeOK'
<1>0. {"ok", "error"} \subseteq Answer /\ {"write", "collect"} \subseteq Stage
  BY DEF Answer, Stage
<1>1. CASE SaveDiff(a)
  <2>1. DatabaseOK' /\ RequestsOK'
    BY <1>1, DatabaseUnchanged, RequestsUnchanged DEF TypeOK, SaveDiff
  <2>2. Differing(ent[a].row, users[ent[a].id]) \in SUBSET Column
    BY DEF Differing
  <2>3. HandlersOK'
    BY <1>0, <1>1, <2>2 DEF TypeOK, HandlersOK, SaveDiff, Proceed
  <2> QED BY <2>1, <2>3 DEF TypeOK
<1>2. CASE SaveWrite(a)
  <2> DEFINE u == ent[a].id
             row == Written(users[u], ent[a].row, diff[a])
  <2>1. u \in UserId => row \in Row
    <3>1. ent[a].row \in Row
      BY DEF TypeOK, HandlersOK, Entity
    <3> QED BY <3>1, WrittenType DEF TypeOK, DatabaseOK
  <2>2. CASE Restart
    BY <2>2, RestartType
  <2>3. CASE Finish(a, "error") /\ UNCHANGED <<db, env>>
    BY <1>0, <2>3, FinishType, DatabaseUnchanged, RequestsUnchanged DEF TypeOK
  <2>4. CASE /\ users' = [users EXCEPT ![u] = row]
             /\ \/ a = Boot /\ Finish(Boot, "ok")
                \/ a # Boot /\ Proceed(a, "collect") /\ UNCHANGED heap
             /\ UNCHANGED <<tokens, session, env>>
    <3>1. DatabaseOK'
      BY <2>1, <2>4 DEF TypeOK, DatabaseOK
    <3>2. HandlersOK' /\ RequestsOK'
      BY <1>0, <2>4, FinishType, ProceedType, RequestsUnchanged DEF TypeOK
    <3> QED BY <3>1, <3>2 DEF TypeOK
  <2> QED BY <1>2, <2>2, <2>3, <2>4 DEF SaveWrite
<1> QED BY <1>1, <1>2

LEMMA EnvironmentType ==
  ASSUME TypeOK, Tick \/ \E c \in Call : StatementFails(c)
  PROVE  TypeOK'
<1>1. CASE Tick
  BY <1>1, BoundAssumption
  DEF TypeOK, Tick, DatabaseOK, HandlersOK, RequestsOK, Time, db, heap
<1>2. ASSUME NEW c \in Call, StatementFails(c)
      PROVE  TypeOK'
  BY <1>2, FinishType, DatabaseUnchanged, RequestsUnchanged
  DEF TypeOK, StatementFails, Actor, Answer
<1> QED BY <1>1, <1>2

LEMMA StutterType ==
  ASSUME TypeOK, UNCHANGED vars
  PROVE  TypeOK'
BY DEF TypeOK, DatabaseOK, HandlersOK, RequestsOK, vars

(* Typing is preserved by every step.                                      *)
LEMMA NextType ==
  ASSUME TypeOK, [Next]_vars
  PROVE  TypeOK'
<1>1. ASSUME NEW c \in Call, Send(c) \/ Handle(c) \/ StatementFails(c)
      PROVE  TypeOK'
  <2>0. c \in Actor
    BY DEF Actor
  <2>1. CASE Send(c)
    BY <2>1, SendType
  <2>2. CASE RegisterFind(c) \/ RegisterInsert(c)
    BY <2>2, RegisterType
  <2>3. CASE Login(c)
    BY <2>3, LoginType
  <2>4. CASE Issue(c)
    BY <2>4, IssueType
  <2>5. CASE RefreshVerify(c) \/ RefreshLock(c) \/ Rotate(c)
    BY <2>5, RefreshType
  <2>6. CASE LogoutAll(c) \/ LogoutOne(c) \/ Collect(c) \/ Revoke(c)
    BY <2>6, RevocationType
  <2>7. CASE ChangeFind(c) \/ DeactivateFind(c)
    BY <2>7, FindType
  <2>8. CASE SaveDiff(c) \/ SaveWrite(c)
    BY <2>0, <2>8, SaveType
  <2>9. CASE Remove(c)
    BY <2>9, RemoveType
  <2>10. CASE StatementFails(c)
    BY <2>10, EnvironmentType
  <2> QED BY <1>1, <2>1, <2>2, <2>3, <2>4, <2>5, <2>6, <2>7, <2>8, <2>9, <2>10 DEF Handle
<1>2. CASE EnsureAdmin
  BY <1>2, BootType, SaveType DEF EnsureAdmin, Actor
<1>3. CASE Tick
  BY <1>3, EnvironmentType
<1>4. CASE Restart
  BY <1>4, RestartType
<1> QED BY <1>1, <1>2, <1>3, <1>4, StutterType DEF Next

(* Every variable keeps its type: a save() writes only columns of the row, *)
(* a handler answers with one of the statuses of the service.              *)
THEOREM TypeCorrect == Spec => []TypeOK
<1>1. Init => TypeOK
  BY InitType
<1>2. TypeOK /\ [Next]_vars => TypeOK'
  BY NextType
<1> QED BY <1>1, <1>2, PTL DEF Spec

-----------------------------------------------------------------------------
(* Whose locals a step changes                                             *)

(* Every handler but a is where it was.                                    *)
Elsewhere(a) ==
  /\ \A b \in Actor \ {a} : /\ pc'[b] = pc[b] /\ result'[b] = result[b]
                           /\ ent'[b] = ent[b] /\ diff'[b] = diff[b]
                           /\ batch'[b] = batch[b]
  /\ \A c \in Call \ {a} : req'[c] = req[c] /\ seen'[c] = seen[c]

LEMMA FinishElsewhere ==
  ASSUME TypeOK, NEW a \in Actor, NEW r, Finish(a, r), UNCHANGED <<req, seen>>
  PROVE  /\ Elsewhere(a) /\ UNCHANGED <<req, seen>>
         /\ pc'[a] = "done" /\ result'[a] = r
BY DEF Elsewhere, Finish, TypeOK, HandlersOK

LEMMA ProceedElsewhere ==
  ASSUME TypeOK, NEW a \in Actor, NEW s, Proceed(a, s), UNCHANGED <<heap, req, seen>>
  PROVE  /\ Elsewhere(a) /\ UNCHANGED <<req, seen>>
         /\ pc'[a] = s /\ UNCHANGED <<result, ent, diff, batch>>
BY DEF Elsewhere, Proceed, heap, TypeOK, HandlersOK

LEMMA HoldElsewhere ==
  ASSUME TypeOK, NEW a \in Actor, NEW s, NEW e, Proceed(a, s), Hold(a, e),
         UNCHANGED <<req, seen>>
  PROVE  /\ Elsewhere(a) /\ UNCHANGED <<req, seen>>
         /\ pc'[a] = s /\ ent'[a] = e /\ UNCHANGED <<result, diff, batch>>
BY DEF Elsewhere, Proceed, Hold, TypeOK, HandlersOK

LEMMA DiffElsewhere ==
  ASSUME TypeOK, NEW a \in Actor, NEW s, NEW D, Proceed(a, s),
         diff' = [diff EXCEPT ![a] = D], UNCHANGED <<ent, batch, req, seen>>
  PROVE  /\ Elsewhere(a) /\ UNCHANGED <<req, seen>>
         /\ pc'[a] = s /\ diff'[a] = D /\ UNCHANGED <<result, ent, batch>>
BY DEF Elsewhere, Proceed, TypeOK, HandlersOK

LEMMA BatchElsewhere ==
  ASSUME TypeOK, NEW a \in Actor, NEW s, NEW S, Proceed(a, s),
         batch' = [batch EXCEPT ![a] = S], UNCHANGED <<ent, diff, req, seen>>
  PROVE  /\ Elsewhere(a) /\ UNCHANGED <<req, seen>>
         /\ pc'[a] = s /\ batch'[a] = S /\ UNCHANGED <<result, ent, diff>>
BY DEF Elsewhere, Proceed, TypeOK, HandlersOK

-----------------------------------------------------------------------------
(* What a step does to the accounts                                        *)

(* An account is created, saved by a handler or by ensureAdmin, or removed; *)
(* the partial unique index checks the first two.                          *)
Created(u, e, p, role) ==
  /\ users[u].life = "unused"
  /\ ~EmailTaken(e, NoUser)
  /\ users' = [users EXCEPT ![u] = NewRow(e, p, role)]
SavedBy(a) ==
  LET u == ent[a].id
      row == Written(users[u], ent[a].row, diff[a]) IN
  /\ pc[a] = "write"
  /\ ~(row.life = "kept" /\ EmailTaken(row.email, u))
  /\ users' = [users EXCEPT ![u] = row]
RemovedRow(u) == users' = [users EXCEPT ![u].life = "deleted"]
RowStep ==
  \/ UNCHANGED users
  \/ \E u \in UserId : \E e, p, role : Created(u, e, p, role)
  \/ \E a \in Actor : SavedBy(a)
  \/ \E u : RemovedRow(u)

LEMMA SaveIsRowStep ==
  ASSUME NEW a \in Actor, SaveDiff(a) \/ SaveWrite(a)
  PROVE  RowStep
BY DEF SaveDiff, SaveWrite, Restart, RowStep, SavedBy, db

LEMMA HandlerIsRowStep ==
  ASSUME NEW c \in Call, Handle(c)
  PROVE  RowStep
<1>1. CASE RegisterInsert(c)
  <2>1. CASE UNCHANGED users
    BY <2>1 DEF RowStep
  <2>2. CASE \E u \in UserId : Created(u, req[c].email, req[c].password, "user")
    BY <2>2 DEF RowStep
  <2> QED BY <1>1, <2>1, <2>2 DEF RegisterInsert, Created
<1>2. CASE RegisterFind(c) \/ Login(c) \/ RefreshVerify(c) \/ RefreshLock(c) \/ LogoutAll(c)
  BY <1>2 DEF RowStep, RegisterFind, Login, RefreshVerify, RefreshLock, LogoutAll, db
<1>3. CASE ChangeFind(c) \/ DeactivateFind(c) \/ Collect(c)
  BY <1>3 DEF RowStep, ChangeFind, DeactivateFind, Collect, db
<1>4. CASE Issue(c) \/ Rotate(c) \/ LogoutOne(c) \/ Revoke(c)
  BY <1>4 DEF RowStep, Issue, Rotate, LogoutOne, Revoke
<1>5. CASE SaveDiff(c) \/ SaveWrite(c)
  BY <1>5, SaveIsRowStep DEF Actor
<1>6. CASE Remove(c)
  BY <1>6 DEF RowStep, Remove, RemovedRow
<1> QED BY <1>1, <1>2, <1>3, <1>4, <1>5, <1>6 DEF Handle

LEMMA NextIsRowStep ==
  ASSUME [Next]_vars
  PROVE  RowStep
<1>1. ASSUME NEW c \in Call, Send(c) \/ StatementFails(c)
      PROVE  RowStep
  BY <1>1 DEF Send, StatementFails, RowStep, db
<1>2. CASE BootFind \/ Tick \/ Restart \/ UNCHANGED vars
  BY <1>2 DEF BootFind, Tick, Restart, RowStep, db, vars
<1>3. CASE BootInsert
  <2>1. CASE Restart
    BY <2>1 DEF Restart, RowStep, db
  <2>2. CASE \E u \in UserId : Created(u, AdminEmail, AdminPassword, "admin")
    BY <2>2 DEF RowStep
  <2> QED BY <1>3, <2>1, <2>2 DEF BootInsert, Created
<1>4. CASE SaveDiff(Boot) \/ SaveWrite(Boot)
  BY <1>4, SaveIsRowStep DEF Actor
<1> QED BY <1>1, <1>2, <1>3, <1>4, HandlerIsRowStep DEF Next, EnsureAdmin

-----------------------------------------------------------------------------
(* One address, one account                                                *)

(* A row of its own address only can be put at u.                          *)
LEMMA UniqueAfterPut ==
  ASSUME TypeOK, EmailUniqueAmongKept, NEW u \in UserId, NEW row,
         ~(row.life = "kept" /\ EmailTaken(row.email, u)),
         users' = [users EXCEPT ![u] = row]
  PROVE  EmailUniqueAmongKept'
<1> SUFFICES ASSUME NEW v \in UserId, NEW w \in UserId,
                    Kept(v)', Kept(w)', users'[v].email = users'[w].email
             PROVE  v = w
  BY DEF EmailUniqueAmongKept
<1>1. users'[u] = row /\ \A x \in UserId \ {u} : users'[x] = users[x]
  BY DEF TypeOK, DatabaseOK
<1>2. CASE v # u /\ w # u
  BY <1>1, <1>2 DEF EmailUniqueAmongKept, Kept
<1>3. CASE v = u \/ w = u
  BY <1>1, <1>3 DEF Kept, EmailTaken, HasEmail
<1> QED BY <1>2, <1>3

LEMMA InitUnique ==
  ASSUME Init
  PROVE  EmailUniqueAmongKept
BY SeedAssumption DEF Init, EmailUniqueAmongKept, Kept, BlankRow

LEMMA NextUnique ==
  ASSUME TypeOK, EmailUniqueAmongKept, [Next]_vars
  PROVE  EmailUniqueAmongKept'
<1>1. CASE UNCHANGED users
  BY <1>1 DEF EmailUniqueAmongKept, Kept
<1>2. ASSUME NEW u \in UserId, NEW e, NEW p, NEW role, Created(u, e, p, role)
      PROVE  EmailUniqueAmongKept'
  <2>1. NewRow(e, p, role).email = e /\ ~EmailTaken(e, u)
    BY <1>2, NullAssumption DEF NewRow, Created, EmailTaken
  <2> QED BY <1>2, <2>1, UniqueAfterPut DEF Created
<1>3. ASSUME NEW a \in Actor, SavedBy(a)
      PROVE  EmailUniqueAmongKept'
  <2>1. CASE ent[a].id \in UserId
    BY <1>3, <2>1, UniqueAfterPut DEF SavedBy
  <2>2. CASE ent[a].id \notin UserId
    BY <1>1, <1>3, <2>2 DEF SavedBy, TypeOK, DatabaseOK
  <2> QED BY <2>1, <2>2
<1>4. ASSUME NEW u, RemovedRow(u)
      PROVE  EmailUniqueAmongKept'
  <2>1. CASE u \in UserId
    <3> DEFINE row == [users[u] EXCEPT !.life = "deleted"]
    <3>1. users' = [users EXCEPT ![u] = row] /\ row.life # "kept"
      BY <1>4, <2>1 DEF RemovedRow, TypeOK, DatabaseOK, Row
    <3> QED BY <2>1, <3>1, UniqueAfterPut
  <2>2. CASE u \notin UserId
    BY <1>1, <1>4, <2>2 DEF RemovedRow, TypeOK, DatabaseOK
  <2> QED BY <2>1, <2>2
<1> QED BY <1>1, <1>2, <1>3, <1>4, NextIsRowStep DEF RowStep

(* However registrations, ensureAdmin, removals and saves of entities that *)
(* were loaded long ago interleave, no two kept accounts share an address: *)
(* the partial unique index checks a save that brings an account back too. *)
THEOREM AddressesStayUnique == Spec => []EmailUniqueAmongKept
<1>1. Init => TypeOK /\ EmailUniqueAmongKept
  BY InitType, InitUnique
<1>2. TypeOK /\ EmailUniqueAmongKept /\ [Next]_vars => TypeOK' /\ EmailUniqueAmongKept'
  BY NextType, NextUnique
<1> QED BY <1>1, <1>2, PTL DEF Spec

-----------------------------------------------------------------------------
(* Passwords change by changePassword only                                 *)

LEMMA SavesElsewhere ==
  ASSUME TypeOK, SavesSound, NEW a \in Actor, Elsewhere(a), UNCHANGED req, SaveOK(a)'
  PROVE  SavesSound'
<1> SUFFICES ASSUME NEW b \in Actor \ {a}
             PROVE  SaveOK(b)'
  BY DEF SavesSound
<1>1. SaveOK(b)
  BY DEF SavesSound
<1> QED BY <1>1 DEF Elsewhere, SaveOK

(* A handler that ends, or waits for something else, saves nothing.        *)
LEMMA SavesIfOver ==
  ASSUME TypeOK, SavesSound, NEW a \in Actor, NEW r, Finish(a, r), UNCHANGED <<req, seen>>
  PROVE  SavesSound'
BY FinishElsewhere, SavesElsewhere DEF SaveOK

LEMMA SavesIfWaiting ==
  ASSUME TypeOK, SavesSound, NEW a \in Actor, Elsewhere(a), UNCHANGED req,
         pc'[a] \notin {"save", "write"}
  PROVE  SavesSound'
BY SavesElsewhere DEF SaveOK

LEMMA RestartSaves ==
  ASSUME TypeOK, Restart
  PROVE  SavesSound'
BY DEF Restart, SavesSound, SaveOK, TypeOK, HandlersOK

(* An entity without password never comes to write one.                    *)
LEMMA SaveSaves ==
  ASSUME TypeOK, SavesSound, NEW a \in Actor, SaveDiff(a) \/ SaveWrite(a)
  PROVE  SavesSound'
<1>1. CASE SaveDiff(a)
  <2> DEFINE D == Differing(ent[a].row, users[ent[a].id])
  <2>1. /\ pc[a] = "save" /\ UNCHANGED <<req, seen>>
        /\ Proceed(a, "write") /\ diff' = [diff EXCEPT ![a] = D] /\ UNCHANGED <<ent, batch>>
    BY <1>1 DEF SaveDiff, env
  <2>2. /\ Elsewhere(a) /\ pc'[a] = "write" /\ diff'[a] = D /\ ent' = ent
    BY <2>1, DiffElsewhere
  <2>3. "password" \in D => ent[a].row.password # NoPassword
    BY DEF Differing
  <2>4. SaveOK(a)'
    BY <2>1, <2>2, <2>3 DEF SavesSound, SaveOK
  <2> QED BY <2>1, <2>2, <2>4, SavesElsewhere
<1>2. CASE SaveWrite(a)
  <2>1. CASE Restart
    BY <2>1, RestartSaves
  <2>2. CASE \E r : Finish(a, r) /\ UNCHANGED env
    BY <2>2, SavesIfOver DEF env
  <2>3. CASE Proceed(a, "collect") /\ UNCHANGED heap /\ UNCHANGED env
    <3>1. Elsewhere(a) /\ pc'[a] = "collect" /\ UNCHANGED req
      BY <2>3, ProceedElsewhere DEF env
    <3> QED BY <3>1, SavesIfWaiting
  <2> QED BY <1>2, <2>1, <2>2, <2>3 DEF SaveWrite
<1> QED BY <1>1, <1>2

LEMMA LoadsNoPassword ==
  ASSUME DatabaseOK, NEW u \in UserId
  PROVE  /\ [Load(u).row EXCEPT !.isActive = FALSE].password = NoPassword
         /\ [Load(u).row EXCEPT !.role = "admin"].password = NoPassword
<1>1. Load(u).row \in Row /\ Load(u).row.password = NoPassword
  BY DEF Load, DatabaseOK, Row
<1> QED BY <1>1 DEF Row

LEMMA HandlerSaves ==
  ASSUME TypeOK, SavesSound, NEW c \in Call, Handle(c)
  PROVE  SavesSound'
<1>0. c \in Actor
  BY DEF Actor
<1>1. ASSUME NEW r, Finish(c, r), UNCHANGED env
      PROVE  SavesSound'
  BY <1>0, <1>1, SavesIfOver DEF env
<1>2. ASSUME NEW s, s \notin {"save", "write"}, Proceed(c, s), UNCHANGED heap, UNCHANGED env
      PROVE  SavesSound'
  BY <1>0, <1>2, ProceedElsewhere, SavesIfWaiting DEF env
<1>3. ASSUME NEW s, NEW e, Proceed(c, s), Hold(c, e), UNCHANGED env,
             s \notin {"save", "write"} \/ (s = "save" /\ e.row.password = NoPassword)
      PROVE  SavesSound'
  <2>1. Elsewhere(c) /\ pc'[c] = s /\ ent'[c] = e /\ UNCHANGED req
    BY <1>0, <1>3, HoldElsewhere DEF env
  <2>2. SaveOK(c)'
    BY <1>3, <2>1 DEF SaveOK
  <2> QED BY <1>0, <2>1, <2>2, SavesElsewhere
<1>4. ASSUME NEW s, NEW S, s \in {"revoke", "remove"}, Proceed(c, s),
             batch' = [batch EXCEPT ![c] = S], UNCHANGED <<ent, diff>>, UNCHANGED env
      PROVE  SavesSound'
  <2>1. Elsewhere(c) /\ pc'[c] = s /\ UNCHANGED req
    BY <1>0, <1>4, BatchElsewhere DEF env
  <2> QED BY <1>0, <1>4, <2>1, SavesIfWaiting
<1>5. CASE RegisterFind(c) \/ RefreshVerify(c)
  BY <1>1, <1>2, <1>5 DEF RegisterFind, RefreshVerify
<1>6. CASE RegisterInsert(c) \/ Login(c) \/ RefreshLock(c)
  BY <1>1, <1>3, <1>6 DEF RegisterInsert, Login, RefreshLock
<1>7. CASE Issue(c) \/ Rotate(c) \/ LogoutOne(c) \/ Remove(c)
  BY <1>1, <1>7 DEF Issue, Rotate, LogoutOne, Remove
<1>8. CASE LogoutAll(c) \/ Collect(c) \/ Revoke(c)
  BY <1>1, <1>4, <1>8 DEF LogoutAll, Collect, Revoke
<1>9. CASE ChangeFind(c)
  <2> DEFINE u == req[c].user
             e == [id |-> u, row |-> [users[u] EXCEPT !.password = req[c].next]]
  <2>1. CASE \E r : Finish(c, r)
    BY <1>1, <1>9, <2>1 DEF ChangeFind
  <2>2. CASE Hold(c, e) /\ Proceed(c, "save")
    <3>1. Elsewhere(c) /\ pc'[c] = "save" /\ ent'[c] = e /\ UNCHANGED req
      BY <1>0, <1>9, <2>2, HoldElsewhere DEF ChangeFind, env
    <3>2. req[c].op = "changePassword" /\ u \in UserId
      BY <1>9, PayloadType DEF ChangeFind, At, TypeOK, RequestsOK
    <3>3. e.id = u /\ e.row.password = req[c].next
      BY <3>2 DEF TypeOK, DatabaseOK, Row
    <3> HIDE DEF e, u
    <3>4. SaveOK(c)'
      BY <3>1, <3>2, <3>3 DEF SaveOK, u
    <3> QED BY <1>0, <3>1, <3>4, SavesElsewhere
  <2> QED BY <1>9, <2>1, <2>2 DEF ChangeFind
<1>10. CASE DeactivateFind(c)
  <2> DEFINE u == req[c].user
             e == [id |-> u, row |-> [Load(u).row EXCEPT !.isActive = FALSE]]
  <2>1. u \in UserId
    BY <1>10, PayloadType DEF DeactivateFind, At, TypeOK, RequestsOK
  <2>2. e.row.password = NoPassword
    BY <2>1, LoadsNoPassword DEF TypeOK
  <2>3. CASE \E r : Finish(c, r)
    BY <1>1, <1>10, <2>3 DEF DeactivateFind
  <2>4. CASE Hold(c, e) /\ Proceed(c, "save")
    BY <1>3, <1>10, <2>2, <2>4 DEF DeactivateFind
  <2> QED BY <1>10, <2>3, <2>4 DEF DeactivateFind
<1>11. CASE SaveDiff(c) \/ SaveWrite(c)
  BY <1>0, <1>11, SaveSaves
<1> QED BY <1>5, <1>6, <1>7, <1>8, <1>9, <1>10, <1>11 DEF Handle

LEMMA BootSaves ==
  ASSUME TypeOK, SavesSound, EnsureAdmin
  PROVE  SavesSound'
<1>0. Boot \in Actor
  BY DEF Actor
<1>1. CASE BootFind
  <2>1. CASE \E r : Finish(Boot, r)
    BY <1>0, <1>1, <2>1, SavesIfOver DEF BootFind, env
  <2>2. CASE Proceed(Boot, "insert") /\ UNCHANGED heap
    BY <1>0, <1>1, <2>2, ProceedElsewhere, SavesIfWaiting DEF BootFind, env
  <2>3. ASSUME NEW u \in UserId,
               Proceed(Boot, "save"),
               Hold(Boot, [id |-> u, row |-> [Load(u).row EXCEPT !.role = "admin"]])
        PROVE  SavesSound'
    <3> DEFINE e == [id |-> u, row |-> [Load(u).row EXCEPT !.role = "admin"]]
    <3>1. e.row.password = NoPassword
      BY LoadsNoPassword DEF TypeOK
    <3>2. Hold(Boot, e)
      BY <2>3
    <3> HIDE DEF e
    <3>3. Elsewhere(Boot) /\ pc'[Boot] = "save" /\ ent'[Boot] = e /\ UNCHANGED req
      BY <1>0, <1>1, <2>3, <3>2, HoldElsewhere DEF BootFind, env
    <3>4. SaveOK(Boot)'
      BY <3>1, <3>3 DEF SaveOK
    <3> QED BY <1>0, <3>3, <3>4, SavesElsewhere
  <2>4. \/ \E r : Finish(Boot, r)
        \/ Proceed(Boot, "insert") /\ UNCHANGED heap
        \/ \E u \in UserId :
             /\ Proceed(Boot, "save")
             /\ Hold(Boot, [id |-> u, row |-> [Load(u).row EXCEPT !.role = "admin"]])
    BY <1>1, Zenon DEF BootFind
  <2> QED BY <2>1, <2>2, <2>3, <2>4
<1>2. CASE BootInsert
  <2>1. CASE Finish(Boot, "ok") /\ UNCHANGED env
    BY <1>0, <2>1, SavesIfOver DEF env
  <2> QED BY <1>2, <2>1, RestartSaves DEF BootInsert
<1> QED BY <1>0, <1>1, <1>2, SaveSaves DEF EnsureAdmin

LEMMA NextSaves ==
  ASSUME TypeOK, SavesSound, [Next]_vars
  PROVE  SavesSound'
<1>1. ASSUME NEW c \in Call, Send(c)
      PROVE  SavesSound'
  <2>1. /\ \A b \in Actor : pc'[b] \in {"save", "write"} => pc'[b] = pc[b] /\ b # c
        /\ \A b \in Call \ {c} : req'[b] = req[b]
        /\ UNCHANGED <<ent, diff>>
    BY <1>1 DEF Send, Proceed, heap, TypeOK, HandlersOK, RequestsOK
  <2> QED BY <2>1 DEF SavesSound, SaveOK
<1>2. ASSUME NEW c \in Call, StatementFails(c)
      PROVE  SavesSound'
  BY <1>2, SavesIfOver DEF StatementFails, env, Actor
<1>3. CASE Tick \/ UNCHANGED vars
  BY <1>3 DEF Tick, heap, vars, SavesSound, SaveOK
<1> QED BY <1>1, <1>2, <1>3, HandlerSaves, BootSaves, RestartSaves DEF Next

(* The password of an account is set when it is created and by its         *)
(* changePassword, never by a save of deactivate or of ensureAdmin that    *)
(* holds the row as it was before.                                         *)
THEOREM PasswordsStay == Spec => PasswordOnlyByItsChange
<1> DEFINE A == \A u \in UserId :
                  users[u].life # "unused" /\ users'[u].password # users[u].password
                    => \E c \in Call : /\ At(c, "changePassword", "write")
                                       /\ req[c].user = u
                                       /\ users'[u].password = req[c].next
<1>1. ASSUME TypeOK, SavesSound, [Next]_vars
      PROVE  A
  <2> SUFFICES ASSUME NEW u \in UserId, users[u].life # "unused",
                      users'[u].password # users[u].password
               PROVE  \E c \in Call : /\ At(c, "changePassword", "write")
                                      /\ req[c].user = u
                                      /\ users'[u].password = req[c].next
    OBVIOUS
  <2>1. ~\E v \in UserId : \E e, p, role : Created(v, e, p, role)
    BY <1>1 DEF Created, TypeOK, DatabaseOK
  <2>2. ~\E v : RemovedRow(v)
    BY <1>1 DEF RemovedRow, TypeOK, DatabaseOK, Row
  <2>3. PICK a \in Actor : SavedBy(a)
    BY <1>1, <2>1, <2>2, NextIsRowStep DEF RowStep
  <2>4. ent[a].id = u /\ users'[u] = Written(users[u], ent[a].row, diff[a])
    BY <1>1, <2>3 DEF SavedBy, TypeOK, DatabaseOK
  <2>5. "password" \in diff[a] /\ users'[u].password = ent[a].row.password
    BY <1>1, <2>4 DEF Written, TypeOK, DatabaseOK, Row
  <2> QED BY <1>1, <2>3, <2>4, <2>5 DEF SavedBy, SavesSound, SaveOK, At
<1>2. Init => TypeOK /\ SavesSound
  BY InitType DEF Init, SavesSound, SaveOK
<1>3. TypeOK /\ SavesSound /\ [Next]_vars => TypeOK' /\ SavesSound'
  BY NextType, NextSaves
<1>4. TypeOK /\ SavesSound /\ [Next]_vars => [A]_vars
  BY <1>1
<1> QED BY <1>2, <1>3, <1>4, PTL DEF Spec, PasswordOnlyByItsChange

=============================================================================
