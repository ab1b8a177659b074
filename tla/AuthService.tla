---------------------------- MODULE AuthService ----------------------------
(***************************************************************************)
(* The auth worker (apps/auth-service): accounts, refresh-token sessions   *)
(* and the start-up step ensureAdmin, over one PostgreSQL schema.          *)
(*                                                                         *)
(* A handler is asynchronous: it gives up the event loop at every database *)
(* call, so each action below is the code between two such calls together  *)
(* with the ONE statement (or transaction commit) it waits for.  Handlers  *)
(* of different requests, and ensureAdmin, interleave between statements.  *)
(*                                                                         *)
(*   register        start -> insert -> issue                              *)
(*   login           start -> issue                                        *)
(*   refresh         start -> lock -> rotate        (one transaction)      *)
(*   logout          start                          (one token)            *)
(*                   start -> revoke                (every token)          *)
(*   changePassword  start -> save -> write -> collect -> revoke           *)
(*   deactivate      start -> save -> write -> collect -> revoke -> remove *)
(*   ensureAdmin     start -> save -> write, or start -> insert            *)
(*                                                                         *)
(* PostgreSQL runs at READ COMMITTED: a bulk UPDATE acts on the rows its   *)
(* snapshot saw, so it is two steps (collect, revoke), and waits for rows  *)
(* a transaction has locked.  TypeORM's save(entity) is two steps as well: *)
(* it reads the row back, then writes the columns in which the in-memory   *)
(* entity differs from it.                                                 *)
(***************************************************************************)
EXTENDS Integers, FiniteSets, Durations

CONSTANTS
  Call,           \* requests that can reach the worker, each sent once
  Boot,           \* the bootstrap (onModuleInit) of the running process
  UserId,         \* primary keys of table users that can be drawn
  Email,          \* addresses, after toLowerCase().trim()
  Password,       \* clear-text passwords; a hash is equal iff they are
  NoUser, NoEmail, NoPassword, NoToken,
  Ops,            \* the operations this instance sends
  SeedUser,       \* accounts that exist, with one open session, at the start
  SeedEmail, SeedPassword,
  AdminEmail, AdminPassword,  \* environment; NoEmail / NoPassword if unset
  RefreshExpiresIn, \* JWT_REFRESH_EXPIRES_IN
  MaxTime,        \* bound on the clock
  MaxCrash        \* bound on process restarts

Actor == Call \cup {Boot}
Time == 0 .. MaxTime
Role == {"user", "admin"}

(* A row of users; life "unused" is a key no row has yet, "deleted" a *)
(* row whose deleted_at is set.  password is NoPassword in an entity that  *)
(* was loaded without it (select: false) and in an unused row.             *)
Row == [email : Email \cup {NoEmail}, password : Password \cup {NoPassword},
        role : Role, isActive : BOOLEAN, life : {"unused", "kept", "deleted"}]
BlankRow == [email |-> NoEmail, password |-> NoPassword, role |-> "user",
             isActive |-> FALSE, life |-> "unused"]

(* An entity in memory: a row, and the key it was read from.               *)
Entity == [id : UserId \cup {NoUser}, row : Row]
NoEntity == [id |-> NoUser, row |-> BlankRow]

(* A refresh JWT.  Its claims are sub, email, role, type, iat and exp, with *)
(* iat in whole seconds, no jti: two tokens with the same claims are the   *)
(* same string, hence the same token_hash.  The email of an account never  *)
(* changes, exp is iat + JwtTtl, expires_at is iat + RowTtl.               *)
Token == [user : UserId, role : Role, iat : Time]

(* Columns a save() may write.                                             *)
Column == {"password", "role", "isActive", "deletedAt"}

Request ==
       [op : {"register"}, email : Email, password : Password]
  \cup [op : {"login"}, email : Email, password : Password]
  \cup [op : {"refresh"}, token : Token]
  \cup [op : {"logout"}, user : UserId, token : Token \cup {NoToken}]
  \cup [op : {"changePassword"}, user : UserId, current : Password, next : Password]
  \cup [op : {"deactivate"}, user : UserId]
NoRequest == [op |-> "none"]

Stage == {"idle", "start", "insert", "issue", "lock", "rotate", "save",
          "write", "collect", "revoke", "remove", "done"}
Answer == {"none", "ok", "conflict", "unauthorized", "forbidden", "notFound",
           "duplicate", "error"}

ASSUME ActorAssumption == Boot \notin Call
ASSUME NullAssumption ==
  /\ NoUser \notin UserId
  /\ NoEmail \notin Email
  /\ NoPassword \notin Password
  /\ NoToken \notin Token
ASSUME SeedAssumption ==
  /\ SeedUser \subseteq UserId
  /\ SeedEmail \in [SeedUser -> Email]
  /\ SeedPassword \in [SeedUser -> Password]
  /\ \A u, v \in SeedUser : SeedEmail[u] = SeedEmail[v] => u = v
ASSUME AdminAssumption ==
  /\ AdminEmail \in Email \cup {NoEmail}
  /\ AdminPassword \in Password \cup {NoPassword}
ASSUME ExpiryAssumption == RefreshExpiresIn \in Setting
ASSUME BoundAssumption ==
  /\ MaxTime \in Nat /\ MaxCrash \in Nat

VARIABLES
  users,    \* table users: UserId -> Row
  tokens,   \* refresh_tokens: Token -> absent, live (revoked = false), revoked
  now,      \* the clock, in seconds
  pc,       \* where each handler waits
  req,      \* the payload a handler works on
  ent,      \* the entity a handler holds in memory
  diff,     \* columns save() found to differ from the row
  batch,    \* rows the snapshot of a bulk UPDATE saw
  result,   \* the reply
  crashes,  \* restarts so far
  session,  \* history: the login or registration a token descends from
  seen      \* history: the user's tokens when the request was sent

db == <<users, tokens, session>>
heap == <<ent, diff, batch>>
env == <<now, req, seen, crashes>>
vars == <<users, tokens, now, pc, req, ent, diff, batch, result, crashes,
          session, seen>>

-----------------------------------------------------------------------------
(* Locks and look-ups                                                      *)

(* The rotation's SELECT ... FOR UPDATE joins the user, so it locks both   *)
(* the token's row and the user's row until the transaction ends.          *)
UserNeverLocked(u) == FALSE                                        \* mutant
UserLocked(u) == \E c \in Call : pc[c] = "rotate" /\ req[c].token.user = u
NothingLocked(t) == FALSE                                          \* mutant
TokenLocked(t) == \E c \in Call : pc[c] = "rotate" /\ req[c].token = t

(* find() and query builders skip rows whose deleted_at is set.            *)
Kept(u) == users[u].life = "kept"
HasEmail(u, e) == Kept(u) /\ users[u].email = e

(* The partial unique index on (email) WHERE deleted_at IS NULL, seen from *)
(* row u (NoUser for a row to insert).                                     *)
NoUniqueIndex(e, u) == FALSE                                       \* mutant
EmailTaken(e, u) == \E v \in UserId \ {u} : HasEmail(v, e)

(* findOne: every selected column; a query with addSelect('user.password') *)
(* reads the password too.                                                 *)
Load(u) == [id |-> u, row |-> [users[u] EXCEPT !.password = NoPassword]]
LoadWithPassword(u) == [id |-> u, row |-> users[u]]

Issued(t) == tokens[t] # "absent"
TokensOf(u) == {t \in Token : Issued(t) /\ t.user = u}
SignedFor(e) == [user |-> e.id, role |-> e.row.role, iat |-> now]

(* Seconds a refresh JWT verifies, and until refresh_tokens.expires_at.    *)
JwtTtl == JwtSeconds(RefreshExpiresIn)
RowTtl == ParseDurationMs(RefreshExpiresIn) \div 1000
JwtExpired(t) == now >= t.iat + JwtTtl
RowExpired(t) == t.iat + RowTtl < now

(* The user whose sessions a request is about, if it names one.            *)
Names(r) == r.op \in {"logout", "changePassword", "deactivate"}

-----------------------------------------------------------------------------
(* Control                                                                 *)

Proceed(a, stage) ==
  /\ pc' = [pc EXCEPT ![a] = stage]
  /\ UNCHANGED result

(* The handler returns or throws; its locals are gone.                     *)
Finish(a, answer) ==
  /\ pc' = [pc EXCEPT ![a] = "done"]
  /\ result' = [result EXCEPT ![a] = answer]
  /\ ent' = [ent EXCEPT ![a] = NoEntity]
  /\ diff' = [diff EXCEPT ![a] = {}]
  /\ batch' = [batch EXCEPT ![a] = {}]

Hold(a, entity) ==
  /\ ent' = [ent EXCEPT ![a] = entity]
  /\ UNCHANGED <<diff, batch>>

At(c, op, stage) == pc[c] = stage /\ req[c].op = op

Init ==
  /\ users = [u \in UserId |->
               IF u \in SeedUser
                 THEN [email |-> SeedEmail[u], password |-> SeedPassword[u],
                       role |-> "user", isActive |-> TRUE, life |-> "kept"]
                 ELSE BlankRow]
  /\ tokens = [t \in Token |-> IF t.user \in SeedUser /\ t.iat = 0 /\ t.role = "user"
                                 THEN "live" ELSE "absent"]
  /\ now = 0
  /\ pc = [a \in Actor |-> IF a = Boot THEN "start" ELSE "idle"]
  /\ req = [c \in Call |-> NoRequest]
  /\ ent = [a \in Actor |-> NoEntity]
  /\ diff = [a \in Actor |-> {}]
  /\ batch = [a \in Actor |-> {}]
  /\ result = [a \in Actor |-> "none"]
  /\ crashes = 0
  /\ session = [t \in Token |-> t]
  /\ seen = [c \in Call |-> {}]

(* The requests that can arrive: a refresh token was issued once (its      *)
(* signature verifies), a user id is that of an account that exists or     *)
(* existed.                                                                *)
Sendable ==
  {r \in Request :
     /\ r.op \in Ops
     /\ r.op = "refresh" => Issued(r.token)
     /\ r.op = "logout" /\ r.token # NoToken => Issued(r.token)
     /\ Names(r) => users[r.user].life # "unused"}

Send(c) ==
  /\ pc[c] = "idle"
  /\ \E r \in Sendable :
       /\ req' = [req EXCEPT ![c] = r]
       /\ seen' = [seen EXCEPT ![c] = IF Names(r) THEN TokensOf(r.user) ELSE {}]
  /\ Proceed(c, "start")
  /\ UNCHANGED <<db, heap, now, crashes>>

-----------------------------------------------------------------------------
(* issueTokens, outside a transaction: sign, then insert the row.  The     *)
(* foreign key makes the insert wait for a lock on the user's row.         *)

(* Insert the token an entity is given; as a session of its own.           *)
Insert(t) ==
  /\ tokens' = [tokens EXCEPT ![t] = "live"]
  /\ session' = [session EXCEPT ![t] = t]

Issue(c) ==
  LET t == SignedFor(ent[c]) IN
  /\ pc[c] = "issue"
  /\ ~UserLocked(ent[c].id)
  /\ \/ /\ ~Issued(t)
        /\ Insert(t)
        /\ Finish(c, "ok")
     \/ /\ Issued(t)                     \* token_hash is unique
        /\ Finish(c, IF req[c].op = "register" THEN "conflict" ELSE "duplicate")
        /\ UNCHANGED <<tokens, session>>
  /\ UNCHANGED <<users, env>>

-----------------------------------------------------------------------------
(* register                                                                *)

RegisterFind(c) ==
  /\ At(c, "register", "start")
  /\ \/ /\ \E u \in UserId : HasEmail(u, req[c].email)
        /\ Finish(c, "conflict")
     \/ /\ ~\E u \in UserId : HasEmail(u, req[c].email)
        /\ Proceed(c, "insert")
        /\ UNCHANGED heap
  /\ UNCHANGED <<db, env>>

NewRow(email, password, role) ==
  [email |-> email, password |-> password, role |-> role,
   isActive |-> TRUE, life |-> "kept"]

RegisterInsert(c) ==
  /\ At(c, "register", "insert")
  /\ \/ /\ EmailTaken(req[c].email, NoUser)
        /\ Finish(c, "conflict")
        /\ UNCHANGED users
     \/ /\ ~EmailTaken(req[c].email, NoUser)
        /\ LET row == NewRow(req[c].email, req[c].password, "user") IN
           \E u \in UserId :
             /\ users[u].life = "unused"
             /\ users' = [users EXCEPT ![u] = row]
             /\ Hold(c, [id |-> u, row |-> row])
             /\ Proceed(c, "issue")
  /\ UNCHANGED <<tokens, session, env>>

-----------------------------------------------------------------------------
(* login                                                                   *)

Login(c) ==
  /\ At(c, "login", "start")
  /\ \/ /\ ~\E u \in UserId : HasEmail(u, req[c].email)
        /\ Finish(c, "unauthorized")
     \/ \E u \in UserId :
          /\ HasEmail(u, req[c].email)
          /\ \/ /\ users[u].password # req[c].password
                /\ Finish(c, "unauthorized")
             \/ /\ users[u].password = req[c].password
                /\ ~users[u].isActive
                /\ Finish(c, "forbidden")
             \/ /\ users[u].password = req[c].password
                /\ users[u].isActive
                /\ Hold(c, LoadWithPassword(u))
                /\ Proceed(c, "issue")
  /\ UNCHANGED <<db, env>>

-----------------------------------------------------------------------------
(* refresh                                                                 *)

RefreshVerify(c) ==
  /\ At(c, "refresh", "start")
  /\ \/ JwtExpired(req[c].token) /\ Finish(c, "unauthorized")
     \/ /\ ~JwtExpired(req[c].token)
        /\ Proceed(c, "lock")
        /\ UNCHANGED heap
  /\ UNCHANGED <<db, env>>

(* BEGIN; SELECT ... FOR UPDATE.  It waits while another transaction holds *)
(* either row and then sees what that one committed.                       *)
StoredUnchecked(t) ==                                              \* mutant
  Issued(t) /\ Kept(t.user) /\ ~RowExpired(t)
Stored(t) ==
  tokens[t] = "live" /\ Kept(t.user) /\ ~RowExpired(t)

RefreshLock(c) ==
  LET t == req[c].token IN
  /\ At(c, "refresh", "lock")
  /\ ~UserLocked(t.user)
  /\ \/ ~Stored(t) /\ Finish(c, "unauthorized")
     \/ Stored(t) /\ ~users[t.user].isActive /\ Finish(c, "forbidden")
     \/ /\ Stored(t) /\ users[t.user].isActive
        /\ Hold(c, Load(t.user))
        /\ Proceed(c, "rotate")
  /\ UNCHANGED <<db, env>>

(* UPDATE the old token, INSERT the new one, COMMIT; a duplicate           *)
(* token_hash rolls both back.  The new token continues the old session.   *)
RotateKeepingOld(c) ==                                             \* mutant
  LET t == req[c].token  n == SignedFor(ent[c]) IN
  /\ At(c, "refresh", "rotate")
  /\ \/ /\ ~Issued(n)
        /\ tokens' = [tokens EXCEPT ![n] = "live"]
        /\ session' = [session EXCEPT ![n] = session[t]]
        /\ Finish(c, "ok")
     \/ Issued(n) /\ Finish(c, "duplicate") /\ UNCHANGED <<tokens, session>>
  /\ UNCHANGED <<users, env>>

RotateOnAnotherConnection(c) ==                                    \* mutant
  LET t == req[c].token  n == SignedFor(ent[c]) IN
  /\ At(c, "refresh", "rotate")
  /\ ~UserLocked(t.user)
  /\ ~Issued(n)
  /\ tokens' = [tokens EXCEPT ![t] = "revoked", ![n] = "live"]
  /\ session' = [session EXCEPT ![n] = session[t]]
  /\ Finish(c, "ok")
  /\ UNCHANGED <<users, env>>

Rotate(c) ==
  LET t == req[c].token  n == SignedFor(ent[c]) IN
  /\ At(c, "refresh", "rotate")
  /\ \/ /\ ~Issued(n)
        /\ tokens' = [tokens EXCEPT ![t] = "revoked", ![n] = "live"]
        /\ session' = [session EXCEPT ![n] = session[t]]
        /\ Finish(c, "ok")
     \/ Issued(n) /\ Finish(c, "duplicate") /\ UNCHANGED <<tokens, session>>
  /\ UNCHANGED <<users, env>>

-----------------------------------------------------------------------------
(* Bulk revocation: UPDATE refresh_tokens SET revoked = true               *)
(* WHERE user_id = ... AND revoked = false                                 *)

LiveTokensOf(u) == {t \in TokensOf(u) : tokens[t] = "live"}
RevokeRows(S) ==
  tokens' = [t \in Token |-> IF t \in S /\ Issued(t) THEN "revoked" ELSE tokens[t]]
NoLockOn(S) == \A t \in S : ~TokenLocked(t)

(* logout without a refresh token: the handler is the bulk UPDATE.         *)
LogoutAll(c) ==
  /\ At(c, "logout", "start")
  /\ req[c].token = NoToken
  /\ batch' = [batch EXCEPT ![c] = LiveTokensOf(req[c].user)]
  /\ Proceed(c, "revoke")
  /\ UNCHANGED <<db, env, ent, diff>>

(* logout with a refresh token: UPDATE ... WHERE token_hash AND user_id.   *)
LogoutOne(c) ==
  LET t == req[c].token IN
  /\ At(c, "logout", "start")
  /\ t # NoToken
  /\ ~TokenLocked(t)
  /\ RevokeRows({t} \cap TokensOf(req[c].user))
  /\ Finish(c, "ok")
  /\ UNCHANGED <<users, session, env>>

CollectNewest(c) ==                                                \* mutant
  /\ pc[c] = "collect"
  /\ batch' = [batch EXCEPT ![c] = {t \in LiveTokensOf(ent[c].id) : t.iat = now}]
  /\ Proceed(c, "revoke")
  /\ UNCHANGED <<db, env, ent, diff>>

Collect(c) ==
  /\ pc[c] = "collect"
  /\ batch' = [batch EXCEPT ![c] = LiveTokensOf(ent[c].id)]
  /\ Proceed(c, "revoke")
  /\ UNCHANGED <<db, env, ent, diff>>

Revoke(c) ==
  /\ pc[c] = "revoke"
  /\ NoLockOn(batch[c])
  /\ RevokeRows(batch[c])
  /\ \/ /\ req[c].op = "deactivate"
        /\ batch' = [batch EXCEPT ![c] = {}]
        /\ Proceed(c, "remove")
        /\ UNCHANGED <<ent, diff>>
     \/ /\ req[c].op # "deactivate"
        /\ Finish(c, "ok")
  /\ UNCHANGED <<users, session, env>>

-----------------------------------------------------------------------------
(* changePassword and deactivate, up to their save()                       *)

ChangeFind(c) ==
  /\ At(c, "changePassword", "start")
  /\ LET u == req[c].user IN
     \/ ~Kept(u) /\ Finish(c, "notFound")
     \/ Kept(u) /\ users[u].password # req[c].current /\ Finish(c, "unauthorized")
     \/ /\ Kept(u) /\ users[u].password = req[c].current
        /\ Hold(c, [id |-> u, row |-> [users[u] EXCEPT !.password = req[c].next]])
        /\ Proceed(c, "save")
  /\ UNCHANGED <<db, env>>

DeactivateFindAll(c) ==                                            \* mutant
  /\ At(c, "deactivate", "start")
  /\ LET u == req[c].user IN
     \/ ~Kept(u) /\ Finish(c, "notFound")
     \/ /\ Kept(u)
        /\ Hold(c, [id |-> u, row |-> [users[u] EXCEPT !.isActive = FALSE]])
        /\ Proceed(c, "save")
  /\ UNCHANGED <<db, env>>

DeactivateFind(c) ==
  /\ At(c, "deactivate", "start")
  /\ LET u == req[c].user IN
     \/ ~Kept(u) /\ Finish(c, "notFound")
     \/ /\ Kept(u)
        /\ Hold(c, [id |-> u, row |-> [Load(u).row EXCEPT !.isActive = FALSE]])
        /\ Proceed(c, "save")
  /\ UNCHANGED <<db, env>>

(* deactivate ends in softRemove(user): it sets deleted_at, nothing else.  *)
Remove(c) ==
  /\ pc[c] = "remove"
  /\ ~UserLocked(ent[c].id)
  /\ users' = [users EXCEPT ![ent[c].id].life = "deleted"]
  /\ Finish(c, "ok")
  /\ UNCHANGED <<tokens, session, env>>

-----------------------------------------------------------------------------
(* ensureAdmin, run once by each process while its queue is already served *)

(* The process is gone: every delivered message returns to the queue,      *)
(* those already answered too, because no handler acknowledges one, and a  *)
(* new process starts.  A transaction that was open is rolled back.        *)
Restart ==
  /\ crashes < MaxCrash
  /\ crashes' = crashes + 1
  /\ pc' = [a \in Actor |-> IF pc[a] = "idle" THEN "idle" ELSE "start"]
  /\ result' = [a \in Actor |-> "none"]
  /\ ent' = [a \in Actor |-> NoEntity]
  /\ diff' = [a \in Actor |-> {}]
  /\ batch' = [a \in Actor |-> {}]
  /\ UNCHANGED <<db, now, req, seen>>

BootFind ==
  /\ pc[Boot] = "start"
  /\ LET known == {u \in UserId : HasEmail(u, AdminEmail)} IN
     \/ /\ AdminEmail = NoEmail \/ (known = {} /\ AdminPassword = NoPassword)
        /\ Finish(Boot, "ok")
     \/ /\ AdminEmail # NoEmail /\ known = {} /\ AdminPassword # NoPassword
        /\ Proceed(Boot, "insert")
        /\ UNCHANGED heap
     \/ /\ AdminEmail # NoEmail
        /\ \E u \in known :
             \/ users[u].role = "admin" /\ Finish(Boot, "ok")
             \/ /\ users[u].role # "admin"
                /\ Hold(Boot, [id |-> u, row |-> [Load(u).row EXCEPT !.role = "admin"]])
                /\ Proceed(Boot, "save")
  /\ UNCHANGED <<db, env>>

(* A unique violation is not caught here: it ends the process.             *)
BootInsert ==
  /\ pc[Boot] = "insert"
  /\ \/ /\ ~EmailTaken(AdminEmail, NoUser)
        /\ \E u \in UserId :
             /\ users[u].life = "unused"
             /\ users' = [users EXCEPT ![u] = NewRow(AdminEmail, AdminPassword, "admin")]
        /\ Finish(Boot, "ok")
        /\ UNCHANGED <<tokens, session, env>>
     \/ EmailTaken(AdminEmail, NoUser) /\ Restart

-----------------------------------------------------------------------------
(* save(entity) of an entity that was loaded before                        *)

(* SELECT the row again (deleted or not) and compare.  A password that was *)
(* not selected is undefined and never written; one that was set is a new  *)
(* hash and always written.                                                *)
EveryColumn(e, row) == Column \cup {"email"}                       \* mutant
Differing(e, row) ==
  {k \in Column : \/ k = "password" /\ e.password # NoPassword
                  \/ k = "role" /\ e.role # row.role
                  \/ k = "isActive" /\ e.isActive # row.isActive
                  \/ k = "deletedAt" /\ e.life # row.life}

SaveDiff(a) ==
  /\ pc[a] = "save"
  /\ diff' = [diff EXCEPT ![a] = Differing(ent[a].row, users[ent[a].id])]
  /\ Proceed(a, "write")
  /\ UNCHANGED <<db, env, ent, batch>>

Written(row, e, columns) ==
  [row EXCEPT !.password = IF "password" \in columns THEN e.password ELSE @,
              !.role     = IF "role" \in columns THEN e.role ELSE @,
              !.isActive = IF "isActive" \in columns THEN e.isActive ELSE @,
              !.life     = IF "deletedAt" \in columns THEN e.life ELSE @]

(* UPDATE users SET the columns WHERE id.  Writing deleted_at = NULL  *)
(* brings a row back into the partial unique index.                        *)
SaveWrite(a) ==
  LET u == ent[a].id
      row == Written(users[u], ent[a].row, diff[a])
      clash == row.life = "kept" /\ EmailTaken(row.email, u)
  IN
  /\ pc[a] = "write"
  /\ ~UserLocked(u)
  /\ \/ /\ ~clash
        /\ users' = [users EXCEPT ![u] = row]
        /\ \/ a = Boot /\ Finish(Boot, "ok")
           \/ a # Boot /\ Proceed(a, "collect") /\ UNCHANGED heap
        /\ UNCHANGED <<tokens, session, env>>
     \/ /\ clash /\ a # Boot
        /\ Finish(a, "error")
        /\ UNCHANGED <<db, env>>
     \/ clash /\ a = Boot /\ Restart

-----------------------------------------------------------------------------
(* Failures and time                                                       *)

(* A statement is refused (connection lost, pool exhausted, statement      *)
(* timeout): the error leaves the handler, an open transaction rolls back, *)
(* what was committed before stays.                                        *)
StatementFails(c) ==
  /\ pc[c] \notin {"idle", "done"}
  /\ Finish(c, "error")
  /\ UNCHANGED <<db, env>>

Tick ==
  /\ now < MaxTime
  /\ now' = now + 1
  /\ UNCHANGED <<db, heap, pc, result, req, seen, crashes>>

(* Every step of the handler of request c, once its message has arrived.   *)
Handle(c) ==
  \/ RegisterFind(c) \/ RegisterInsert(c)
  \/ Login(c) \/ Issue(c)
  \/ RefreshVerify(c) \/ RefreshLock(c) \/ Rotate(c)
  \/ LogoutAll(c) \/ LogoutOne(c)
  \/ ChangeFind(c) \/ DeactivateFind(c)
  \/ SaveDiff(c) \/ SaveWrite(c)
  \/ Collect(c) \/ Revoke(c) \/ Remove(c)

EnsureAdmin == BootFind \/ BootInsert \/ SaveDiff(Boot) \/ SaveWrite(Boot)

Next ==
  \/ \E c \in Call : Send(c) \/ Handle(c) \/ StatementFails(c)
  \/ EnsureAdmin
  \/ Tick
  \/ Restart

Spec == Init /\ [][Next]_vars

(* The event loop resumes every handler whose statement has returned, and  *)
(* PostgreSQL grants a row lock that stays free.                           *)
Fairness == \A c \in Call : WF_vars(Handle(c))
FairSpec == Spec /\ Fairness

-----------------------------------------------------------------------------
(* Properties                                                              *)

DatabaseOK ==
  /\ users \in [UserId -> Row]
  /\ tokens \in [Token -> {"absent", "live", "revoked"}]
  /\ session \in [Token -> Token]
HandlersOK ==
  /\ pc \in [Actor -> Stage]
  /\ result \in [Actor -> Answer]
  /\ ent \in [Actor -> Entity]
  /\ diff \in [Actor -> SUBSET Column]
  /\ batch \in [Actor -> SUBSET Token]
RequestsOK ==
  /\ req \in [Call -> Request \cup {NoRequest}]
  /\ seen \in [Call -> SUBSET Token]
  /\ now \in Time
  /\ crashes \in 0 .. MaxCrash

(* Every variable has its type: save() writes only columns of the row.     *)
TypeOK == DatabaseOK /\ HandlersOK /\ RequestsOK

Live(t) == tokens[t] = "live"

(* Presenting one refresh token any number of times at once never forks a  *)
(* session: of the tokens that descend from one login at most one is live. *)
OneLiveTokenPerSession ==
  \A s, t \in Token : Live(s) /\ Live(t) /\ session[s] = session[t] => s = t

(* The live token of a session is the last one issued in it: a late or     *)
(* repeated rotation never brings an older token back.                     *)
LiveTokenIsNewest ==
  \A s, t \in Token :
    Live(t) /\ Issued(s) /\ session[s] = session[t] => s.iat <= t.iat

(* Racing registrations, ensureAdmin and stale saves never leave two       *)
(* accounts that are not deleted with one address.                         *)
EmailUniqueAmongKept ==
  \A u, v \in UserId : Kept(u) /\ Kept(v) /\ users[u].email = users[v].email => u = v

RevokesAll(r) ==
  r.op \in {"changePassword", "deactivate"} \/ (r.op = "logout" /\ r.token = NoToken)

(* Once logout (of every session), changePassword or deactivate answers,   *)
(* and before deactivate removes the account, no refresh token the user    *)
(* had when the request was sent is live, whatever rotated in between.     *)
RevokeAllCoversEarlierTokens ==
  \A c \in Call :
    /\ RevokesAll(req[c])
    /\ result[c] = "ok" \/ pc[c] = "remove"
    => \A t \in seen[c] : ~Live(t)

(* A rotation commits for an account that is, at that moment, active and   *)
(* not deleted, and puts its current role into the new token: nothing      *)
(* changes the account between the checks of refresh and its commit.       *)
RotationOnlyForActiveUser ==
  [][\A t, n \in Token :
       Live(t) /\ tokens'[t] = "revoked" /\ ~Issued(n) /\ tokens'[n] = "live"
         => Kept(t.user) /\ users[t.user].isActive /\ n.role = users[t.user].role]_vars

(* The password of an account changes only by a changePassword of that     *)
(* account, to the password it asked for: the save of deactivate or of     *)
(* ensureAdmin never writes back an old hash.                              *)
PasswordOnlyByItsChange ==
  [][\A u \in UserId :
       users[u].life # "unused" /\ users'[u].password # users[u].password
         => \E c \in Call : /\ At(c, "changePassword", "write")
                            /\ req[c].user = u
                            /\ users'[u].password = req[c].next]_vars

(* The ledger of SessionLedger, read off the rows: the usable token of a   *)
(* session is its live row, spent tokens are the revoked rows.             *)
CurrentOf(s) ==
  IF \E t \in Token : Live(t) /\ session[t] = s
    THEN CHOOSE t \in Token : Live(t) /\ session[t] = s
    ELSE NoToken
Current == [s \in Token |-> CurrentOf(s)]
Spent == {t \in Token : tokens[t] = "revoked"}
Ledger == INSTANCE SessionLedger WITH current <- Current, spent <- Spent

(* The worker implements the ledger.                                       *)
KeepsLedger == Ledger!Spec

(* Every request that arrives is answered: no handler waits for ever for a *)
(* row lock.                                                               *)
EveryRequestAnswered ==
  \A c \in Call : (pc[c] = "start") ~> (pc[c] = "done")

(* What refresh promises (auth.swagger.ts:41, "Rotate refresh token and    *)
(* issue a new access token"; README.md:350, "Refresh-token rotation"): a  *)
(* token that is good is rotated.  It is not when the new JWT would equal  *)
(* one issued in the same second.                                          *)
GoodTokenRotates ==
  \A c \in Call : req[c].op = "refresh" => result[c] # "duplicate"

(* What logout promises (logout.dto.ts:7, "If omitted, all refresh tokens  *)
(* for the user are revoked"): a session open when a logout of every       *)
(* session was sent has no live token after the answer.  A rotation in     *)
(* flight inserts a row the UPDATE does not see.                           *)
LogoutAllEndsSessions ==
  \A c \in Call :
    /\ req[c].op = "logout" /\ req[c].token = NoToken
    /\ result[c] = "ok"
    => \A t \in Token : Live(t) => ~\E s \in seen[c] : session[s] = session[t]

-----------------------------------------------------------------------------
(* What makes the two session properties inductive                         *)

(* A transaction of refresh holds both rows: its token is still live and   *)
(* its account still what the checks saw.                                  *)
LocksHeld ==
  \A c \in Call : pc[c] = "rotate" =>
    LET t == req[c].token IN
    /\ req[c].op = "refresh"
    /\ Live(t)
    /\ Kept(t.user) /\ users[t.user].isActive
    /\ ent[c].id = t.user /\ ent[c].row.role = users[t.user].role

OneRotationPerUser ==
  \A c, d \in Call :
    pc[c] = "rotate" /\ pc[d] = "rotate" /\ req[c].token.user = req[d].token.user
      => c = d

RootsIssued == \A t \in Token : Issued(t) => Issued(session[t])
IssuedInThePast == \A t \in Token : Issued(t) => t.iat <= now

SessionsSound ==
  OneLiveTokenPerSession /\ LiveTokenIsNewest /\ RootsIssued /\ IssuedInThePast
RotationsSound == LocksHeld /\ OneRotationPerUser
SessionInvariant == SessionsSound /\ RotationsSound

-----------------------------------------------------------------------------
(* What makes PasswordOnlyByItsChange and RevokeAllCoversEarlierTokens     *)
(* inductive                                                               *)

(* Only the entity of a changePassword carries a password to write: that   *)
(* of its request, for its account.                                        *)
SaveOK(a) ==
  pc[a] \in {"save", "write"} =>
    /\ ent[a].row.password # NoPassword =>
         /\ a \in Call /\ req[a].op = "changePassword"
         /\ ent[a].id = req[a].user /\ ent[a].row.password = req[a].next
    /\ pc[a] = "write" /\ "password" \in diff[a] => ent[a].row.password # NoPassword
SavesSound == \A a \in Actor : SaveOK(a)

(* A handler ends its sessions for the user it was asked about; the bulk   *)
(* UPDATE that waits has every token of the request that is still live.    *)
StageOK(c) ==
  /\ result[c] = "ok" => pc[c] = "done"
  /\ pc[c] = "issue" => req[c].op \in {"register", "login"}
  /\ pc[c] \in {"save", "write", "collect"} =>
       req[c].op \in {"changePassword", "deactivate"} /\ ent[c].id = req[c].user
  /\ pc[c] = "revoke" => RevokesAll(req[c])
SeenOK(c) == Names(req[c]) => \A t \in seen[c] : Issued(t) /\ t.user = req[c].user
BatchOK(c) == pc[c] = "revoke" => \A t \in seen[c] : Live(t) => t \in batch[c]
CoveredOK(c) ==
  RevokesAll(req[c]) /\ (result[c] = "ok" \/ pc[c] = "remove")
    => \A t \in seen[c] : ~Live(t)
RevocationsSound ==
  \A c \in Call : StageOK(c) /\ SeenOK(c) /\ BatchOK(c) /\ CoveredOK(c)

=============================================================================
