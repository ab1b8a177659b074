------------------------------ MODULE Gateway ------------------------------
(***************************************************************************)
(* The API gateway (apps/api-gateway) in front of the two workers: guards, *)
(* controllers and the token blacklist.  A controller that calls both      *)
(* workers, or a worker and Redis, has no transaction around it.           *)
(*                                                                         *)
(* pc[c] is what the code serving HTTP request c waits for: "guard" for    *)
(* Redis EXISTS, "blacklist" for Redis SET, otherwise the reply to the     *)
(* message pattern of that name.                                           *)
(*                                                                         *)
(*   every guarded route   guard -> VALIDATE -> the handler                *)
(*   register              REGISTER -> CREATE_PROFILE (-> DEACTIVATE)      *)
(*   login                 LOGIN                                           *)
(*   me                    ME (any route that passes one reading call on)  *)
(*   updateMe              UPDATE                                          *)
(*   logout                blacklist -> LOGOUT                             *)
(*   changePassword        CHANGE_PASSWORD -> blacklist                    *)
(*   update                FIND_ONE -> UPDATE                              *)
(*   remove                FIND_ONE -> DEACTIVATE -> REMOVE                *)
(*                                                                         *)
(* Messages run in any order, long after the gateway stopped waiting if    *)
(* need be, and again when their worker restarts, as module Transport has  *)
(* it.  An operation that writes back what it read before (changePassword, *)
(* deactivate, update, remove) is split at its statements; the others take *)
(* effect in one statement and are one step.  ensureAdmin, which may write *)
(* an account back at start-up, is in AuthService only.                    *)
(***************************************************************************)
EXTENDS Integers, FiniteSets, Durations

CONSTANTS
  Call,         \* HTTP requests
  User,         \* accounts of the auth worker, present and future
  Email,
  Admins,       \* accounts with role admin
  SeedEmail,    \* the accounts there are at the start: account -> address
  SeedProfiles, \* those of them that have a profile
  NoUser, NoEmail, NoToken,
  Ops,          \* the routes exercised
  Headers,      \* the ways in which clients write the Authorization header
  AccessExpiresIn, \* JWT_ACCESS_EXPIRES_IN
  Moments,      \* the seconds at which something may happen
  MaxRestart    \* bound on restarts of gateway and workers together

Public == {"register", "login"}
AdminOnly == {"update", "remove"}
Route == Public \cup AdminOnly \cup {"me", "updateMe", "logout", "changePassword"}

AuthPattern == {"REGISTER", "LOGIN", "VALIDATE", "ME", "LOGOUT", "CHANGE_PASSWORD", "DEACTIVATE"}
UserPattern == {"CREATE_PROFILE", "FIND_ONE", "UPDATE", "REMOVE"}
Pattern == AuthPattern \cup UserPattern

(* "Bearer <t>"; the same with more blanks; or with the scheme in another  *)
(* case.  passport-jwt takes t from each of them.                          *)
Header == {"Bearer", "spaced", "bearer"}

Time == {0} \cup Moments
Token == [user : User, exp : Nat]
(* A profile's id changes when a removed one is created anew: n counts.    *)
ProfileId == [user : User \cup {NoUser}, n : Nat]
NoProfile == [user |-> NoUser, n |-> 0]
Request == [op : Route \cup {"none"}, email : Email \cup {NoEmail},
            token : Token \cup {NoToken}, header : Header, id : ProfileId]
NoRequest == [op |-> "none", email |-> NoEmail, token |-> NoToken, header |-> "Bearer",
              id |-> NoProfile]
Status == {"none", "ok", "refused", "notFound", "failed", "late", "lost"}
Reply == [status : Status, token : Token \cup {NoToken}]
NoReply == [status |-> "none", token |-> NoToken]
Message == [by : Call, pattern : Pattern, user : User \cup {NoUser}]
(* An operation under way: where it is, the entity it loaded (isActive of  *)
(* an account, the number of a profile) and what save() will write.        *)
Work == [m : Message, at : {"loaded", "compared", "saved"}, active : BOOLEAN, row : Nat,
         columns : SUBSET {"isActive", "deletedAt"}]

ASSUME NullAssumption == NoUser \notin User /\ NoEmail \notin Email /\ NoToken \notin Token
ASSUME SeedAssumption ==
  /\ DOMAIN SeedEmail \subseteq User
  /\ \A u, v \in DOMAIN SeedEmail :
       SeedEmail[u] \in Email /\ (SeedEmail[u] = SeedEmail[v] => u = v)
  /\ SeedProfiles \subseteq DOMAIN SeedEmail
ASSUME OpsAssumption == Ops \subseteq Route /\ Headers \subseteq Header
ASSUME BoundAssumption == Moments \subseteq Nat /\ MaxRestart \in Nat
ASSUME TtlAssumption == AccessExpiresIn \in Setting

(* The lifetime of an access token, and of its entry in the blacklist.     *)
JwtTtl == JwtSeconds(AccessExpiresIn)
BlacklistTtl == ParseDurationSeconds(AccessExpiresIn)

VARIABLES
  account,   \* auth worker: address (NoEmail: no such account), isActive, deletedAt set
  profile,   \* user worker: n profiles so far, the number of the kept one or 0
  queue,     \* messages to run
  running,   \* operations under way
  done,      \* messages run, not acknowledged
  blacklist, \* Redis: what follows 'Bearer ' and the time its key expires
  now,
  pc, req,
  reply,     \* reply to the awaited message, under way to the gateway
  result,    \* what auth.register answered: the new account and its token
  answer,    \* what the HTTP client was told
  held,      \* access tokens clients have
  restarts,
  revived,   \* history: accounts that were deleted and written back by a late save
  closed,    \* history: until when the entry a request wrote keeps its token out
  barred,    \* history: until when a token revoked on arrival has to be kept out, or 0
  orphan     \* history: the account of the token was deleted on arrival

rows == <<account, profile, revived>>
workers == <<rows, running, done>>
redis == <<blacklist, closed>>
world == <<now, restarts, barred, orphan>>
vars == <<workers, queue, redis, pc, req, reply, result, answer, held, world>>

Init ==
  /\ account = [u \in User |->
                 [email |-> IF u \in DOMAIN SeedEmail THEN SeedEmail[u] ELSE NoEmail,
                  active |-> TRUE, deleted |-> FALSE]]
  /\ profile = [u \in User |-> IF u \in SeedProfiles THEN [n |-> 1, kept |-> 1]
                                                     ELSE [n |-> 0, kept |-> 0]]
  /\ queue = {} /\ running = {} /\ done = {} /\ blacklist = {} /\ revived = {}
  /\ now = 0
  /\ pc = [c \in Call |-> "idle"]
  /\ req = [c \in Call |-> NoRequest]
  /\ reply = [c \in Call |-> NoReply]
  /\ result = [c \in Call |-> NoToken]
  /\ answer = [c \in Call |-> "none"]
  /\ held = {[user |-> u, exp |-> JwtTtl] : u \in DOMAIN SeedEmail}
  /\ restarts = 0
  /\ closed = [c \in Call |-> 0]
  /\ barred = [c \in Call |-> 0]
  /\ orphan = [c \in Call |-> FALSE]

-----------------------------------------------------------------------------
(* Control                                                                 *)

(* MicroserviceProxy.send: publish and wait for the reply.                 *)
Await(c, pattern, u) ==
  /\ pc' = [pc EXCEPT ![c] = pattern]
  /\ queue' = queue \cup {[by |-> c, pattern |-> pattern, user |-> u]}
  /\ reply' = [reply EXCEPT ![c] = NoReply]
  /\ UNCHANGED answer

(* The handler is over; the client hears of it unless it was answered by   *)
(* the TimeoutInterceptor or is gone.                                      *)
End(c, status) ==
  /\ pc' = [pc EXCEPT ![c] = "done"]
  /\ reply' = [reply EXCEPT ![c] = NoReply]
  /\ answer' = [answer EXCEPT ![c] = IF @ = "none" THEN status ELSE @]
  /\ UNCHANGED queue

Replied(c, pattern, status) == pc[c] = pattern /\ reply[c].status = status

(* The client keeps the access token of a 2xx answer.                      *)
HandOver(c, t) == held' = IF answer[c] = "none" THEN held \cup {t} ELSE held

-----------------------------------------------------------------------------
(* Requests and guards                                                     *)

(* JwtAuthGuard.extractBearer gives what follows 'Bearer ', or null.       *)
Extracts(header) == header # "bearer"
Listed(t, header) == \E e \in blacklist : e.token = t /\ e.header = header

(* Revocations that were answered, of what the guard reads from a header.  *)
Revoking(d) == answer[d] = "ok" /\ req[d].op \in {"logout", "changePassword"}
Revocations(t, header) ==
  {d \in Call : Revoking(d) /\ req[d].token = t /\ req[d].header = header /\ Extracts(header)}

(* An admin may name any profile there is or was.                          *)
Known(op) ==
  IF op \in AdminOnly
    THEN UNION {{[user |-> u, n |-> n] : n \in 1 .. profile[u].n} : u \in User}
    ELSE {NoProfile}

OpenRoute(c) ==
  /\ \E op \in Ops \cap Public, e \in Email :
       /\ req' = [req EXCEPT ![c] = [NoRequest EXCEPT !.op = op, !.email = e]]
       /\ Await(c, IF op = "register" THEN "REGISTER" ELSE "LOGIN", NoUser)
  /\ UNCHANGED <<barred, orphan>>

GuardedRoute(c) ==
  /\ \E op \in Ops \ Public, t \in held, h \in Headers : \E id \in Known(op) :
       /\ req' = [req EXCEPT ![c] = [op |-> op, email |-> NoEmail, token |-> t, header |-> h,
                                     id |-> id]]
       /\ barred' \in {[barred EXCEPT ![c] = until] :
                        until \in IF Revocations(t, h) = {} THEN {0}
                                  ELSE {closed[d] : d \in Revocations(t, h)}}
       /\ orphan' = [orphan EXCEPT ![c] = account[t.user].deleted]
  /\ pc' = [pc EXCEPT ![c] = "guard"]
  /\ UNCHANGED <<queue, reply, answer>>

Arrive(c) ==
  /\ pc[c] = "idle"
  /\ OpenRoute(c) \/ GuardedRoute(c)
  /\ UNCHANGED <<workers, redis, now, result, held, restarts>>

(* JwtAuthGuard.canActivate: the blacklist, where the header starts with   *)
(* 'Bearer ', then the token's own expiry, then JwtStrategy.validate asks  *)
(* the auth worker.                                                        *)
Guard(c) ==
  LET t == req[c].token
      listed == Extracts(req[c].header) /\ Listed(t, req[c].header) IN
  /\ pc[c] = "guard"
  /\ \/ Extracts(req[c].header) /\ End(c, "failed")
     \/ (listed \/ now >= t.exp) /\ End(c, "refused")
     \/ ~listed /\ now < t.exp /\ Await(c, "VALIDATE", t.user)
  /\ UNCHANGED <<workers, redis, req, result, held, world>>

(* ThrottlerGuard, before every other guard, or the ValidationPipe of a    *)
(* public route: the request ends without a call.                          *)
TurnedAway(c) ==
  /\ pc[c] = "idle"
  /\ End(c, "refused")
  /\ UNCHANGED <<workers, redis, req, result, held, world>>

(* RolesGuard with the role the worker answered; ParseUuidPipe and the     *)
(* ValidationPipe where the route has an id or a body to refuse; then the  *)
(* handler starts.                                                         *)
Enter(c) ==
  LET op == req[c].op IN
  /\ Replied(c, "VALIDATE", "ok")
  /\ \/ op \in AdminOnly /\ req[c].token.user \notin Admins /\ End(c, "refused")
     \/ op \in AdminOnly /\ req[c].token.user \in Admins /\ Await(c, "FIND_ONE", NoUser)
     \/ op \in Route \ (Public \cup {"me"}) /\ End(c, "refused")
     \/ op = "me" /\ Await(c, "ME", req[c].token.user)
     \/ op = "updateMe" /\ Await(c, "UPDATE", req[c].token.user)
     \/ op = "changePassword" /\ Await(c, "CHANGE_PASSWORD", req[c].token.user)
     \/ /\ op = "logout"
        /\ pc' = [pc EXCEPT ![c] = "blacklist"]
        /\ reply' = [reply EXCEPT ![c] = NoReply]
        /\ UNCHANGED <<queue, answer>>
  /\ UNCHANGED <<workers, redis, req, result, held, world>>

(* A call that failed, timed out or was refused ends the handler with that *)
(* error, except where register compensates.  A timeout needs no reply,    *)
(* and the message stays; a failed publish is a message that never runs.   *)
(* JwtStrategy turns every error but a timeout into 401 or 403.            *)
Errors(c) ==
  {"failed"} \cup (IF pc[c] = "VALIDATE" THEN {"refused"}
                                         ELSE {"refused", "notFound"} \cap {reply[c].status})
Throws(c) ==
  /\ pc[c] \in Pattern
  /\ req[c].op = "register" => pc[c] = "REGISTER"
  /\ \E status \in Errors(c) : End(c, status)
  /\ UNCHANGED <<workers, redis, req, result, held, world>>

(* TimeoutInterceptor: 504 after ten seconds; the handler goes on.         *)
HandlerTimeout(c) ==
  /\ pc[c] \in (Pattern \ {"VALIDATE"}) \cup {"blacklist"}
  /\ answer[c] = "none"
  /\ answer' = [answer EXCEPT ![c] = "late"]
  /\ UNCHANGED <<workers, queue, redis, pc, req, reply, result, held, world>>

-----------------------------------------------------------------------------
(* Handlers                                                                *)

Registered(c) ==
  /\ Replied(c, "REGISTER", "ok")
  /\ result' = [result EXCEPT ![c] = reply[c].token]
  /\ Await(c, "CREATE_PROFILE", reply[c].token.user)
  /\ UNCHANGED <<workers, redis, req, held, world>>

ProfileAnswered(c) ==                                              \* mutant
  /\ Replied(c, "CREATE_PROFILE", "ok")
  /\ HandOver(c, reply[c].token)
  /\ End(c, "ok")
  /\ UNCHANGED <<workers, redis, req, result, world>>

ProfileCreated(c) ==
  /\ Replied(c, "CREATE_PROFILE", "ok")
  /\ HandOver(c, result[c])
  /\ End(c, "ok")
  /\ UNCHANGED <<workers, redis, req, result, world>>

(* catch (error): deactivate, best effort ...                              *)
Compensate(c) ==
  /\ pc[c] = "CREATE_PROFILE"
  /\ Await(c, "DEACTIVATE", result[c].user)
  /\ UNCHANGED <<workers, redis, req, result, held, world>>

(* ... and throw the error of createProfile, whatever became of that.      *)
CompensatedQuietly(c) ==                                           \* mutant
  /\ pc[c] = "DEACTIVATE" /\ req[c].op = "register"
  /\ HandOver(c, result[c])
  /\ End(c, "ok")
  /\ UNCHANGED <<workers, redis, req, result, world>>

Compensated(c) ==
  /\ pc[c] = "DEACTIVATE" /\ req[c].op = "register"
  /\ End(c, "failed")
  /\ UNCHANGED <<workers, redis, req, result, held, world>>

(* login, and refresh, which differs only in what the worker looks at.     *)
LoggedIn(c) ==
  /\ Replied(c, "LOGIN", "ok")
  /\ HandOver(c, reply[c].token)
  /\ End(c, "ok")
  /\ UNCHANGED <<workers, redis, req, result, world>>

(* The last call of a route was answered.                                  *)
Served(c) ==
  /\ \E pattern \in {"ME", "LOGOUT", "UPDATE", "REMOVE"} : Replied(c, pattern, "ok")
  /\ End(c, "ok")
  /\ UNCHANGED <<workers, redis, req, result, held, world>>

PasswordChanged(c) ==
  /\ Replied(c, "CHANGE_PASSWORD", "ok")
  /\ pc' = [pc EXCEPT ![c] = "blacklist"]
  /\ reply' = [reply EXCEPT ![c] = NoReply]
  /\ UNCHANGED <<workers, queue, answer, redis, req, result, held, world>>

(* revokeAccessToken: SET key '1' EX ttl, which replaces the key.  What    *)
(* replace('Bearer ', '') leaves of the header is what the guard extracts  *)
(* from it, or the whole header, which the guard never looks up.           *)
OtherEntries(r) == {e \in blacklist : ~(e.token = r.token /\ e.header = r.header)}
ShortEntry(r) ==                                                   \* mutant
  OtherEntries(r) \cup
    {[token |-> r.token, header |-> r.header, until |-> now + BlacklistTtl - 1]}
EntryUnstripped(r) ==                                              \* mutant
  OtherEntries(r) \cup {[token |-> r.token, header |-> "bearer", until |-> now + BlacklistTtl]}
WithEntry(r) ==
  OtherEntries(r) \cup {[token |-> r.token, header |-> r.header, until |-> now + BlacklistTtl]}

Blacklist(c) ==
  /\ pc[c] = "blacklist"
  /\ blacklist' = WithEntry(req[c])
  /\ closed' = [closed EXCEPT ![c] = now + BlacklistTtl]
  /\ \/ req[c].op = "logout" /\ Await(c, "LOGOUT", req[c].token.user)
     \/ req[c].op = "changePassword" /\ End(c, "ok")
  /\ UNCHANGED <<workers, req, result, held, world>>

(* Redis gave an error, before or after it ran the command.                *)
BlacklistFails(c) ==
  /\ pc[c] = "blacklist"
  /\ blacklist' \in {blacklist, WithEntry(req[c])}
  /\ End(c, "failed")
  /\ UNCHANGED <<workers, closed, req, result, held, world>>

ProfileFound(c) ==
  /\ Replied(c, "FIND_ONE", "ok")
  /\ Await(c, IF req[c].op = "remove" THEN "DEACTIVATE" ELSE "UPDATE", req[c].id.user)
  /\ UNCHANGED <<workers, redis, req, result, held, world>>

DeactivatedOrNot(c) ==                                             \* mutant
  /\ pc[c] = "DEACTIVATE" /\ req[c].op = "remove"
  /\ Await(c, "REMOVE", req[c].id.user)
  /\ UNCHANGED <<workers, redis, req, result, held, world>>

Deactivated(c) ==
  /\ Replied(c, "DEACTIVATE", "ok") /\ req[c].op = "remove"
  /\ Await(c, "REMOVE", req[c].id.user)
  /\ UNCHANGED <<workers, redis, req, result, held, world>>

-----------------------------------------------------------------------------
(* The workers                                                             *)

(* A handler ends: its reply reaches a gateway that still waits for it, the *)
(* message is not acknowledged.                                            *)
Run(m, status, t) ==
  /\ queue' = queue \ {m}
  /\ running' = {w \in running : w.m # m}
  /\ done' = done \cup {m}
  /\ reply' = [reply EXCEPT ![m.by] =
                IF pc[m.by] = m.pattern /\ @ = NoReply
                  THEN [status |-> status, token |-> t] ELSE @]
  /\ UNCHANGED <<redis, pc, req, result, answer, held, world>>

(* A handler read its row and goes on with the entity in memory.           *)
Load(m, active, row) ==
  /\ queue' = queue \ {m}
  /\ running' = running \cup {[m |-> m, at |-> "loaded", active |-> active, row |-> row,
                               columns |-> {}]}
  /\ UNCHANGED <<rows, done, redis, pc, req, reply, result, answer, held, world>>
Proceed(w, at, columns) ==
  /\ running' = (running \ {w}) \cup {[w EXCEPT !.at = at, !.columns = columns]}
  /\ UNCHANGED <<queue, done, redis, pc, req, reply, result, answer, held, world>>

(* find() skips rows that are soft-deleted.                                *)
Visible(u) == account[u].email # NoEmail /\ ~account[u].deleted
Usable(u) == Visible(u) /\ account[u].active
Owner(e) == {u \in User : Visible(u) /\ account[u].email = e}
AccessToken(u) == [user |-> u, exp |-> now + JwtTtl]

RunRegister(m) ==
  LET e == req[m.by].email IN
  /\ m.pattern = "REGISTER"
  /\ \/ Owner(e) # {} /\ Run(m, "refused", NoToken) /\ UNCHANGED account
     \/ /\ Owner(e) = {}
        /\ \E u \in User :
             /\ account[u].email = NoEmail
             /\ account' = [account EXCEPT ![u] = [email |-> e, active |-> TRUE, deleted |-> FALSE]]
             /\ Run(m, "ok", AccessToken(u))
  /\ UNCHANGED <<profile, revived>>

RunLogin(m) ==
  /\ m.pattern = "LOGIN"
  /\ \/ Run(m, "refused", NoToken)
     \/ \E u \in Owner(req[m.by].email) : Usable(u) /\ Run(m, "ok", AccessToken(u))
  /\ UNCHANGED rows

ValidateDeletedToo(m) ==                                           \* mutant
  /\ m.pattern = "VALIDATE"
  /\ Run(m, IF account[m.user].active THEN "ok" ELSE "refused", NoToken)
  /\ UNCHANGED rows

RunValidate(m) ==
  /\ m.pattern = "VALIDATE"
  /\ Run(m, IF Usable(m.user) THEN "ok" ELSE "refused", NoToken)
  /\ UNCHANGED rows

RunSession(m) ==
  /\ \/ m.pattern = "LOGOUT" /\ Run(m, "ok", NoToken)
     \/ m.pattern = "ME" /\ Run(m, IF Visible(m.user) THEN "ok" ELSE "notFound", NoToken)
  /\ UNCHANGED rows

(* changePassword and deactivate load the account; the latter sets         *)
(* isActive of the entity.                                                 *)
RunChangePassword(m) ==
  /\ m.pattern = "CHANGE_PASSWORD"
  /\ \/ ~Visible(m.user) /\ Run(m, "notFound", NoToken) /\ UNCHANGED rows
     \/ Visible(m.user) /\ Run(m, "refused", NoToken) /\ UNCHANGED rows
     \/ Visible(m.user) /\ Load(m, account[m.user].active, 0)

RunDeactivate(m) ==
  /\ m.pattern = "DEACTIVATE"
  /\ \/ ~Visible(m.user) /\ Run(m, "notFound", NoToken) /\ UNCHANGED rows
     \/ Visible(m.user) /\ Load(m, FALSE, 0)

(* save(): read the row again, deleted or not, and compare ...             *)
CompareAccount(w) ==
  LET a == account[w.m.user] IN
  /\ w.at = "loaded" /\ w.m.pattern \in {"CHANGE_PASSWORD", "DEACTIVATE"}
  /\ Proceed(w, "compared",
             {col \in {"isActive", "deletedAt"} :
                IF col = "isActive" THEN a.active # w.active ELSE a.deleted})
  /\ UNCHANGED rows

(* ... then UPDATE the columns that differ.  Writing deleted_at = NULL     *)
(* brings the row back into the partial unique index on the address.       *)
SaveAccount(w) ==
  LET u == w.m.user
      back == "deletedAt" \in w.columns
      saved == [account[u] EXCEPT !.active  = IF "isActive" \in w.columns THEN w.active ELSE @,
                                  !.deleted = IF back THEN FALSE ELSE @] IN
  /\ w.at = "compared" /\ w.m.pattern \in {"CHANGE_PASSWORD", "DEACTIVATE"}
  /\ \/ /\ ~saved.deleted /\ Owner(saved.email) \ {u} # {}
        /\ Run(w.m, "failed", NoToken)
        /\ UNCHANGED rows
     \/ /\ saved.deleted \/ Owner(saved.email) \ {u} = {}
        /\ account' = [account EXCEPT ![u] = saved]
        /\ revived' = IF back /\ account[u].deleted THEN revived \cup {u} ELSE revived
        /\ \/ w.m.pattern = "CHANGE_PASSWORD" /\ Run(w.m, "ok", NoToken)
           \/ w.m.pattern = "DEACTIVATE" /\ Proceed(w, "saved", {})
        /\ UNCHANGED profile

(* The end of deactivate: softRemove sets deleted_at, nothing else.        *)
SoftRemove(w) ==
  /\ w.at = "saved" /\ w.m.pattern = "DEACTIVATE"
  /\ account' = [account EXCEPT ![w.m.user].deleted = TRUE]
  /\ Run(w.m, "ok", NoToken)
  /\ UNCHANGED <<profile, revived>>

(* createProfile answers the profile there is, or creates one.             *)
RunCreateProfile(m) ==
  /\ m.pattern = "CREATE_PROFILE"
  /\ profile' = [profile EXCEPT ![m.user] =
                  IF @.kept # 0 THEN @ ELSE [n |-> @.n + 1, kept |-> @.n + 1]]
  /\ Run(m, "ok", NoToken)
  /\ UNCHANGED <<account, revived>>

(* FIND_ONE goes by the id in the request, UPDATE and REMOVE by account.   *)
RunFind(m) ==
  LET id == req[m.by].id IN
  /\ m.pattern = "FIND_ONE"
  /\ Run(m, IF profile[id.user].kept = id.n THEN "ok" ELSE "notFound", NoToken)
  /\ UNCHANGED rows

LoadProfile(m) ==
  /\ m.pattern \in {"UPDATE", "REMOVE"}
  /\ \/ profile[m.user].kept = 0 /\ Run(m, "notFound", NoToken) /\ UNCHANGED rows
     \/ profile[m.user].kept # 0 /\ Load(m, FALSE, profile[m.user].kept)

CompareProfile(w) ==
  /\ w.at = "loaded" /\ w.m.pattern = "UPDATE"
  /\ Proceed(w, "compared",
             IF profile[w.m.user].kept = w.row THEN {} ELSE {"deletedAt"})
  /\ UNCHANGED rows

(* A profile that was removed comes back, unless there is a new one.       *)
SaveProfile(w) ==
  LET kept == profile[w.m.user].kept IN
  /\ w.at = "compared" /\ w.m.pattern = "UPDATE"
  /\ \/ /\ w.columns # {} /\ kept \notin {0, w.row}
        /\ Run(w.m, "failed", NoToken)
        /\ UNCHANGED profile
     \/ /\ w.columns # {} => kept \in {0, w.row}
        /\ profile' = [profile EXCEPT ![w.m.user].kept = IF w.columns # {} THEN w.row ELSE @]
        /\ Run(w.m, "ok", NoToken)
  /\ UNCHANGED <<account, revived>>

RemoveProfile(w) ==
  /\ w.at = "loaded" /\ w.m.pattern = "REMOVE"
  /\ profile' = [profile EXCEPT ![w.m.user].kept = IF @ = w.row THEN 0 ELSE @]
  /\ Run(w.m, "ok", NoToken)
  /\ UNCHANGED <<account, revived>>

StatementFails(w) == Run(w.m, "failed", NoToken) /\ UNCHANGED rows

Start(m) ==
  \/ RunRegister(m) \/ RunLogin(m) \/ RunValidate(m) \/ RunSession(m)
  \/ RunChangePassword(m) \/ RunDeactivate(m)
  \/ RunCreateProfile(m) \/ RunFind(m) \/ LoadProfile(m)

Continue(w) ==
  \/ CompareAccount(w) \/ SaveAccount(w) \/ SoftRemove(w)
  \/ CompareProfile(w) \/ SaveProfile(w) \/ RemoveProfile(w)
  \/ StatementFails(w)

-----------------------------------------------------------------------------
(* Restarts and time                                                       *)

(* RabbitMQ delivers every message of a worker that came back once more;   *)
(* what it was doing is gone.                                              *)
WorkerRestart ==
  /\ restarts < MaxRestart
  /\ restarts' = restarts + 1
  /\ \E patterns \in {AuthPattern, UserPattern} :
       LET cut == {w \in running : w.m.pattern \in patterns}
           again == {m \in done : m.pattern \in patterns} IN
       /\ queue' = queue \cup again \cup {w.m : w \in cut}
       /\ running' = running \ cut
       /\ done' = done \ again
  /\ UNCHANGED <<rows, redis, now, pc, req, reply, result, answer, held, barred, orphan>>

(* What the gateway was doing is gone, Redis and the queues are not.       *)
GatewayRestart ==
  /\ restarts < MaxRestart
  /\ restarts' = restarts + 1
  /\ pc' = [c \in Call |-> IF pc[c] = "idle" THEN "idle" ELSE "done"]
  /\ answer' = [c \in Call |->
                 IF pc[c] \notin {"idle", "done"} /\ answer[c] = "none" THEN "lost" ELSE answer[c]]
  /\ reply' = [c \in Call |-> NoReply]
  /\ UNCHANGED <<workers, queue, redis, now, req, result, held, barred, orphan>>

(* Redis drops a key whose time has come.                                  *)
Tick ==
  /\ \E moment \in Moments :
       /\ moment > now
       /\ now' = moment
       /\ blacklist' = {e \in blacklist : e.until > moment}
  /\ UNCHANGED <<workers, queue, closed, pc, req, reply, result, answer, held, restarts, barred,
                 orphan>>

Handle(c) ==
  \/ TurnedAway(c) \/ Guard(c) \/ Enter(c) \/ Throws(c) \/ HandlerTimeout(c)
  \/ Registered(c) \/ ProfileCreated(c) \/ Compensate(c) \/ Compensated(c) \/ LoggedIn(c)
  \/ Served(c) \/ PasswordChanged(c) \/ Blacklist(c) \/ BlacklistFails(c) \/ ProfileFound(c)
  \/ Deactivated(c)

Next ==
  \/ \E c \in Call : Arrive(c) \/ Handle(c)
  \/ \E m \in queue : Start(m)
  \/ \E w \in running : Continue(w)
  \/ WorkerRestart
  \/ GatewayRestart
  \/ Tick

Spec == Init /\ [][Next]_vars

-----------------------------------------------------------------------------
(* Properties                                                              *)

(* Typing: messages, replies and tokens handed out are what they claim.    *)
WorldOK ==
  /\ account \in [User -> [email : Email \cup {NoEmail}, active : BOOLEAN, deleted : BOOLEAN]]
  /\ profile \in [User -> [n : Nat, kept : Nat]]
  /\ revived \in SUBSET User
  /\ blacklist \in SUBSET [token : Token, header : Header, until : Nat]
  /\ closed \in [Call -> Nat]
  /\ now \in Time
  /\ held \in SUBSET Token
  /\ restarts \in 0 .. MaxRestart
MessagesOK == queue \in SUBSET Message /\ running \in SUBSET Work /\ done \in SUBSET Message
RequestsOK ==
  /\ pc \in [Call -> Pattern \cup {"idle", "guard", "blacklist", "done"}]
  /\ req \in [Call -> Request]
  /\ reply \in [Call -> Reply]
  /\ result \in [Call -> Token \cup {NoToken}]
  /\ answer \in [Call -> Status]
  /\ barred \in [Call -> Nat]
  /\ orphan \in [Call -> BOOLEAN]
TypeOK == WorldOK /\ MessagesOK /\ RequestsOK

(* Every message ever sent: none is lost or acknowledged.                  *)
Sent == queue \cup done \cup {w.m : w \in running}
Asked(pattern, u) == \E m \in Sent : m.pattern = pattern /\ m.user = u

(* DELETE takes the account away before the profile: where a profile was   *)
(* removed and none is kept, the account is deleted, or was and came back  *)
(* by the save of a handler that had loaded it before.                     *)
Gone(u) == account[u].deleted \/ u \in revived
ProfileRemoved(u) == profile[u].n > 0 /\ profile[u].kept = 0
RemovedProfileOfRemovedAccount == \A u \in User : ProfileRemoved(u) => Gone(u)

(* 201 means account and profile are there, and stay unless a DELETE of an *)
(* admin got as far as asking for their removal: no compensation of this   *)
(* request takes them away.                                                *)
Deleting(u) ==
  \E m \in Sent : m.pattern = "DEACTIVATE" /\ m.user = u /\ req[m.by].op = "remove"
RegisteredIsUsable ==
  \A c \in Call :
    req[c].op = "register" /\ answer[c] = "ok" =>
      LET u == result[c].user IN
      /\ profile[u].kept # 0 \/ Asked("REMOVE", u)
      /\ Usable(u) \/ Deleting(u)
      /\ [by |-> c, pattern |-> "DEACTIVATE", user |-> u] \notin Sent

(* A request whose token was blacklisted on arrival, by an answered logout *)
(* or password change with the header written alike, does not get past the *)
(* guard while the entry lives; and never if the entry lives as long as    *)
(* the token, which is a matter of the setting.                            *)
Inside == (Pattern \ {"VALIDATE"}) \cup {"blacklist"}
Admitted(c) == pc[c] \in Inside \/ answer[c] \in {"ok", "notFound", "late"}
BarredStaysOutside ==
  \A c \in Call :
    barred[c] > 0 /\ (pc[c] = "VALIDATE" \/ Admitted(c))
      => now >= barred[c] /\ BlacklistTtl < JwtTtl

(* A request that arrives for an account that is deleted reaches no        *)
(* handler, unless a late save writes the account back meanwhile.          *)
DeletedStaysOutside ==
  \A c \in Call : orphan[c] /\ Admitted(c) => req[c].token.user \in revived

(* users.swagger.ts:68, "Soft-delete a user profile (admin)": a DELETE     *)
(* that answers 404 when no other request is served and no removal is      *)
(* under way has nothing to delete.                                        *)
Quiet == \A d \in Call : pc[d] \in {"idle", "done"}
NotFoundMeansRemoved ==
  \A c \in Call :
    /\ req[c].op = "remove" /\ answer[c] = "notFound" /\ Quiet
    /\ \A m \in Sent \ done : m.pattern # "REMOVE"
    => profile[req[c].id.user].kept # req[c].id.n

-----------------------------------------------------------------------------
(* The inductive invariant of typing and of the order of a removal         *)

(* A handler has what its stage uses: the token a guarded request brought, *)
(* the token of a reply, the account it registered.                        *)
PayloadOK(c) ==
  /\ pc[c] \in {"guard", "blacklist", "CHANGE_PASSWORD"} => req[c].token \in Token
  /\ pc[c] \in {"REGISTER", "CREATE_PROFILE"} => req[c].op = "register"
  /\ req[c].op \in Route \ Public => req[c].token \in Token
  /\ pc[c] = "FIND_ONE" => req[c].op \in AdminOnly
  /\ req[c].op \in AdminOnly => req[c].id.user \in User
  /\ pc[c] \in {"REGISTER", "LOGIN"} /\ reply[c].status = "ok" => reply[c].token \in Token
  /\ pc[c] = "CREATE_PROFILE" => result[c] \in Token
  /\ pc[c] = "DEACTIVATE" /\ req[c].op = "register" => result[c] \in Token
PayloadsOK == \A c \in Call : PayloadOK(c)

(* A message names an account or a new one's address; a removal            *)
(* deactivates the account of its profile, and sends REMOVE when that is   *)
(* gone.                                                                   *)
MessageInOrder(m) ==
  /\ pc[m.by] # "idle"
  /\ m.pattern \notin {"REGISTER", "LOGIN", "FIND_ONE"} => m.user \in User
  /\ m.pattern = "REGISTER" => req[m.by].email # NoEmail
  /\ m.pattern = "REMOVE" => Gone(m.user)
  /\ m.pattern = "DEACTIVATE" /\ req[m.by].op = "remove" => m.user = req[m.by].id.user
DeactivationDone(c) ==
  req[c].op = "remove" /\ Replied(c, "DEACTIVATE", "ok") => Gone(req[c].id.user)

(* What is under way was loaded from a row, and the account of a row that  *)
(* is not there yet was never deleted.                                     *)
WorkInOrder(w) ==
  /\ w.m.pattern \in {"CHANGE_PASSWORD", "DEACTIVATE"} => account[w.m.user].email # NoEmail
  /\ w.m.pattern \in {"UPDATE", "REMOVE"} => w.row # 0
RemovalOrder ==
  /\ \A m \in Sent : MessageInOrder(m)
  /\ \A w \in running : WorkInOrder(w)
  /\ \A c \in Call : DeactivationDone(c)
  /\ \A u \in User : account[u].email = NoEmail => ~account[u].deleted

RemovalInvariant ==
  TypeOK /\ PayloadsOK /\ RemovalOrder /\ RemovedProfileOfRemovedAccount

-----------------------------------------------------------------------------
(* What keeps barred requests and those of deleted accounts outside        *)

(* No token lives longer than one signed now, no entry is to keep one out  *)
(* longer than one written now.                                            *)
Young(t) == t \in Token => t.exp <= now + JwtTtl
TokensYoung ==
  /\ \A t \in held : Young(t)
  /\ \A c \in Call : /\ Young(req[c].token) /\ Young(reply[c].token) /\ Young(result[c])
                     /\ closed[c] <= now + BlacklistTtl /\ barred[c] <= now + BlacklistTtl

(* Where a route can be, and that nothing happened to a request to come.   *)
RouteStage(c) ==
  /\ pc[c] = "idle" => answer[c] = "none" /\ closed[c] = 0 /\ barred[c] = 0 /\ ~orphan[c]
  /\ req[c].op = "logout" => pc[c] \in {"guard", "VALIDATE", "blacklist", "LOGOUT", "done"}
  /\ req[c].op = "changePassword" =>
       pc[c] \in {"guard", "VALIDATE", "CHANGE_PASSWORD", "blacklist", "done"}

(* The token of request c is kept out until then: there is an entry for    *)
(* its header, which is shorter than the token's life by no more than an   *)
(* entry is shorter than a token.                                          *)
KeptOut(c, until) ==
  LET t == req[c].token IN
  /\ t \in Token
  /\ t.exp + BlacklistTtl <= until + JwtTtl
  /\ \/ now >= until
     \/ \E e \in blacklist : e.token = t /\ e.header = req[c].header /\ e.until >= until
RevocationHolds(c) ==
  /\ closed[c] > 0 => KeptOut(c, closed[c])
  /\ req[c].op \in {"logout", "changePassword"} /\ (answer[c] = "ok" \/ pc[c] = "LOGOUT")
       => closed[c] > 0

Unserved(c) == answer[c] \in {"none", "refused", "failed", "lost"}
BarredAtDoor(c) ==
  barred[c] > 0 =>
    \/ now >= barred[c] /\ BlacklistTtl < JwtTtl
    \/ /\ pc[c] \in {"guard", "done"} /\ Unserved(c)
       /\ Extracts(req[c].header) /\ KeptOut(c, barred[c])
OrphanAtDoor(c) ==
  orphan[c] =>
    LET u == req[c].token.user IN
    /\ req[c].token \in Token
    /\ \/ u \in revived
       \/ /\ account[u].deleted
          /\ pc[c] \in {"guard", "VALIDATE", "done"} /\ Unserved(c)
          /\ ~Replied(c, "VALIDATE", "ok")

ValidatesBearer(m) ==
  m.pattern = "VALIDATE" => req[m.by].token \in Token /\ m.user = req[m.by].token.user

BarInvariant ==
  /\ RemovalInvariant /\ TokensYoung
  /\ \A c \in Call : RouteStage(c) /\ RevocationHolds(c) /\ BarredAtDoor(c) /\ OrphanAtDoor(c)
  /\ \A m \in Sent : ValidatesBearer(m)

-----------------------------------------------------------------------------
(* What keeps a registered account usable                                  *)

(* The request c was given account u by REGISTER.                          *)
Registrant(c, u) ==
  \/ Replied(c, "REGISTER", "ok") /\ reply[c].token.user = u
  \/ result[c] \in Token /\ result[c].user = u

(* Only DEACTIVATE makes an account unusable, a save of changePassword     *)
(* included, and only REMOVE takes a profile away.                         *)
StaysUsable(u) == Usable(u) \/ Asked("DEACTIVATE", u)
StaysKept(u) == profile[u].kept # 0 \/ Asked("REMOVE", u)
LoadedActive(w) ==
  w.m.pattern = "CHANGE_PASSWORD" => w.active \/ Asked("DEACTIVATE", w.m.user)

(* Where register can be, and when it was answered 201.                    *)
RegisterStage(c) ==
  /\ answer[c] = "ok" => pc[c] = "done"
  /\ pc[c] = "idle" => req[c] = NoRequest
  /\ pc[c] \in {"idle", "REGISTER"} => result[c] = NoToken
  /\ req[c].op = "register" => pc[c] \in {"REGISTER", "CREATE_PROFILE", "DEACTIVATE", "done"}
  /\ Replied(c, "CREATE_PROFILE", "ok") => StaysKept(result[c].user)
  /\ req[c].op = "register" /\ answer[c] = "ok" =>
       result[c] \in Token /\ StaysKept(result[c].user)

(* A message of register is about the account of its request, and a        *)
(* request that sent the compensation is not answered 201.                 *)
Compensates(m) == m.pattern = "DEACTIVATE" /\ req[m.by].op = "register"
RegisterMessage(m) ==
  /\ m.pattern = "DEACTIVATE" => req[m.by].op \in {"register", "remove"}
  /\ m.pattern = "CREATE_PROFILE" \/ Compensates(m) =>
       result[m.by] \in Token /\ m.user = result[m.by].user
  /\ Compensates(m) => pc[m.by] \in {"DEACTIVATE", "done"} /\ answer[m.by] # "ok"

(* REGISTER gives every request an account of its own.                     *)
AccountsApart ==
  /\ \A c, d \in Call : \A u \in User : Registrant(c, u) /\ Registrant(d, u) => c = d
  /\ \A c \in Call : \A u \in User : Registrant(c, u) => account[u].email # NoEmail

RegistrationInvariant ==
  /\ RemovalInvariant
  /\ \A u \in User : account[u].email # NoEmail => StaysUsable(u)
  /\ \A w \in running : LoadedActive(w)
  /\ \A c \in Call : RegisterStage(c)
  /\ \A m \in Sent : RegisterMessage(m)
  /\ AccountsApart

=============================================================================
