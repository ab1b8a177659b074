------------------------- MODULE AuthSessionProofs -------------------------
(***************************************************************************)
(* Rotation is safe: for any number of requests, accounts and seconds a    *)
(* session never has two live tokens, its live token is the newest, and a  *)
(* token is rotated only while its account may.                            *)
(*                                                                         *)
(* The argument: between its checks and its commit a refresh holds the row *)
(* of its token and of its account (RotationsSound), so the token it       *)
(* replaces is the live one of its session; everything else either only    *)
(* revokes tokens or opens a session of its own (SessionsSound).           *)
(*                                                                         *)
(* On it rest that a revocation of all sessions covers every earlier token *)
(* and that the worker implements the ledger of SessionLedger.             *)
(***************************************************************************)
EXTENDS AuthServiceProofs

-----------------------------------------------------------------------------
(* Steps on tokens                                                         *)

LEMMA SessionsUnchanged ==
  ASSUME TypeOK, SessionsSound, UNCHANGED <<tokens, session>>, now' \in Time, now <= now'
  PROVE  SessionsSound'
<1>1. (OneLiveTokenPerSession /\ LiveTokenIsNewest /\ RootsIssued)'
  BY DEF SessionsSound, OneLiveTokenPerSession, LiveTokenIsNewest, RootsIssued, Live, Issued
<1>2. IssuedInThePast'
  BY DEF SessionsSound, IssuedInThePast, Issued, TypeOK, RequestsOK, Token, Time
<1> QED BY <1>1, <1>2 DEF SessionsSound

(* Revoking rows leaves fewer live tokens and the same issued ones.        *)
LEMMA SessionsRevoked ==
  ASSUME TypeOK, SessionsSound, NEW S, RevokeRows(S), UNCHANGED <<session, now>>
  PROVE  SessionsSound'
<1>1. \A t \in Token : (Live(t)' => Live(t)) /\ (Issued(t)' <=> Issued(t))
  BY DEF TypeOK, DatabaseOK, RevokeRows, Live, Issued
<1> QED BY <1>1 DEF SessionsSound, OneLiveTokenPerSession, LiveTokenIsNewest,
                    RootsIssued, IssuedInThePast, TypeOK, DatabaseOK

(* A token no row has, inserted as a session of its own, is alone in it.   *)
LEMMA SessionsOpened ==
  ASSUME TypeOK, SessionsSound, NEW n, n.iat = now, ~Issued(n), Insert(n), UNCHANGED now
  PROVE  SessionsSound'
<1>1. \A t \in Token : /\ t # n => /\ Live(t)' <=> Live(t)
                                   /\ Issued(t)' <=> Issued(t)
                                   /\ session'[t] = session[t]
                       /\ t = n => session'[t] = n /\ Issued(t)'
  BY DEF TypeOK, DatabaseOK, Insert, Live, Issued
<1>2. \A t \in Token : t # n /\ Issued(t) => session[t] # n
  BY DEF SessionsSound, RootsIssued
<1>3. \A t \in Token : Live(t) => Issued(t)
  BY DEF Live, Issued
<1>4. OneLiveTokenPerSession'
  BY <1>1, <1>2, <1>3 DEF SessionsSound, OneLiveTokenPerSession
<1>5. LiveTokenIsNewest'
  <2>1. \A t \in Token : t.iat <= t.iat
    BY DEF Token, Time
  <2> QED BY <1>1, <1>2, <1>3, <2>1 DEF SessionsSound, LiveTokenIsNewest
<1>6. RootsIssued'
  BY <1>1, <1>2 DEF SessionsSound, RootsIssued, TypeOK, DatabaseOK
<1>7. IssuedInThePast'
  BY <1>1 DEF SessionsSound, IssuedInThePast, TypeOK, RequestsOK, Time
<1> QED BY <1>4, <1>5, <1>6, <1>7 DEF SessionsSound

(* Replacing the live token of a session by a new one continues it.        *)
LEMMA SessionsRotated ==
  ASSUME TypeOK, SessionsSound, NEW t \in Token, NEW n \in Token,
         Live(t), ~Issued(n), n.iat = now,
         tokens' = [tokens EXCEPT ![t] = "revoked", ![n] = "live"],
         session' = [session EXCEPT ![n] = session[t]], UNCHANGED now
  PROVE  SessionsSound'
<1>1. t # n /\ Issued(t)
  BY DEF Live, Issued
<1>2. \A s \in Token : /\ s # t /\ s # n => /\ Live(s)' <=> Live(s)
                                            /\ Issued(s)' <=> Issued(s)
                       /\ s # n => session'[s] = session[s]
  BY DEF TypeOK, DatabaseOK, Live, Issued
<1>3. ~Live(t)' /\ Issued(t)' /\ Live(n)' /\ Issued(n)' /\ session'[n] = session[t]
  BY <1>1 DEF TypeOK, DatabaseOK, Live, Issued
<1>4. \A s \in Token : Live(s) /\ session[s] = session[t] => s = t
  BY DEF SessionsSound, OneLiveTokenPerSession
<1>5. OneLiveTokenPerSession'
  BY <1>2, <1>3, <1>4 DEF SessionsSound, OneLiveTokenPerSession
<1>6. LiveTokenIsNewest'
  <2> SUFFICES ASSUME NEW s \in Token, NEW r \in Token,
                      Live(r)', Issued(s)', session'[s] = session'[r]
               PROVE  s.iat <= r.iat
    BY DEF LiveTokenIsNewest
  <2>1. CASE r = n
    <3>1. s = n \/ Issued(s)
      BY <1>1, <1>2
    <3>2. s.iat <= now
      BY <3>1 DEF SessionsSound, IssuedInThePast, TypeOK, RequestsOK, Time
    <3> QED BY <2>1, <3>2
  <2>2. CASE r # n
    <3>1. Live(r) /\ session[r] # session[t]
      BY <1>2, <1>3, <1>4, <2>2
    <3>2. s # n /\ Issued(s) /\ session[s] = session[r]
      BY <1>1, <1>2, <1>3, <2>2, <3>1
    <3> QED BY <3>1, <3>2 DEF SessionsSound, LiveTokenIsNewest
  <2> QED BY <2>1, <2>2
<1>7. RootsIssued'
  BY <1>1, <1>2, <1>3 DEF SessionsSound, RootsIssued, TypeOK, DatabaseOK
<1>8. IssuedInThePast'
  BY <1>1, <1>2, <1>3 DEF SessionsSound, IssuedInThePast, TypeOK, RequestsOK, Time
<1> QED BY <1>5, <1>6, <1>7, <1>8 DEF SessionsSound

-----------------------------------------------------------------------------
(* Steps on locks                                                          *)

(* Only a moves, and it does not start to rotate.                          *)
Quiet(a) ==
  /\ pc'[a] # "rotate"
  /\ \A c \in Call \ {a} : pc'[c] = pc[c] /\ ent'[c] = ent[c] /\ req'[c] = req[c]

LEMMA QuietFinish ==
  ASSUME TypeOK, NEW a \in Actor, NEW r, Finish(a, r), UNCHANGED req
  PROVE  Quiet(a)
BY DEF Quiet, Finish, TypeOK, HandlersOK, Actor

LEMMA QuietProceed ==
  ASSUME TypeOK, NEW a \in Actor, NEW s, s # "rotate", Proceed(a, s), UNCHANGED <<ent, req>>
  PROVE  Quiet(a)
BY DEF Quiet, Proceed, TypeOK, HandlersOK, Actor

LEMMA QuietHold ==
  ASSUME TypeOK, NEW a \in Actor, NEW s, s # "rotate", NEW e,
         Proceed(a, s), Hold(a, e), UNCHANGED req
  PROVE  Quiet(a)
BY DEF Quiet, Proceed, Hold, TypeOK, HandlersOK, Actor

(* Locked rows stay as they are, apart from a's own.                       *)
LEMMA LocksKept ==
  ASSUME TypeOK, RotationsSound, NEW a \in Actor, Quiet(a),
         \A c \in Call \ {a} : pc[c] = "rotate" =>
            /\ users'[req[c].token.user] = users[req[c].token.user]
            /\ tokens'[req[c].token] = tokens[req[c].token]
  PROVE  RotationsSound'
<1>1. \A c \in Call : pc'[c] = "rotate" =>
        c # a /\ pc[c] = "rotate" /\ ent'[c] = ent[c] /\ req'[c] = req[c]
  BY DEF Quiet
<1>2. LocksHeld'
  BY <1>1 DEF RotationsSound, LocksHeld, Live, Kept
<1>3. OneRotationPerUser'
  BY <1>1 DEF RotationsSound, OneRotationPerUser
<1> QED BY <1>2, <1>3 DEF RotationsSound

LEMMA LocksKeptDb ==
  ASSUME TypeOK, RotationsSound, NEW a \in Actor, Quiet(a), UNCHANGED <<users, tokens>>
  PROVE  RotationsSound'
BY LocksKept

(* An update of a user row waits for the lock on it.                       *)
LEMMA LocksKeptUser ==
  ASSUME TypeOK, RotationsSound, NEW a \in Actor, Quiet(a), UNCHANGED tokens,
         NEW u, NEW row, users' = [users EXCEPT ![u] = row],
         ~UserLocked(u) \/ users[u].life = "unused"
  PROVE  RotationsSound'
<1> SUFFICES ASSUME NEW c \in Call \ {a}, pc[c] = "rotate"
             PROVE  users'[req[c].token.user] = users[req[c].token.user]
  BY LocksKept
<1>1. Kept(req[c].token.user)
  BY DEF RotationsSound, LocksHeld
<1>2. req[c].token.user # u
  BY <1>1 DEF UserLocked, Kept
<1> QED BY <1>2 DEF TypeOK, DatabaseOK

(* So does an update of a token row.                                       *)
LEMMA LocksKeptRevoked ==
  ASSUME TypeOK, RotationsSound, NEW a \in Actor, Quiet(a), UNCHANGED users,
         NEW S, RevokeRows(S), \A t \in S : ~TokenLocked(t)
  PROVE  RotationsSound'
<1> SUFFICES ASSUME NEW c \in Call \ {a}, pc[c] = "rotate"
             PROVE  tokens'[req[c].token] = tokens[req[c].token]
  BY LocksKept
<1>1. req[c].token \notin S
  BY DEF TokenLocked
<1>2. req[c].token \in Token
  BY PayloadType DEF RotationsSound, LocksHeld, TypeOK, RequestsOK
<1> QED BY <1>1, <1>2 DEF RevokeRows

(* An inserted row is a new one, so nobody's token.                        *)
LEMMA LocksKeptInserted ==
  ASSUME TypeOK, RotationsSound, NEW a \in Actor, Quiet(a), UNCHANGED users,
         NEW n, ~Issued(n), Insert(n)
  PROVE  RotationsSound'
<1> SUFFICES ASSUME NEW c \in Call \ {a}, pc[c] = "rotate"
             PROVE  tokens'[req[c].token] = tokens[req[c].token]
  BY LocksKept
<1>1. Live(req[c].token)
  BY DEF RotationsSound, LocksHeld
<1>2. req[c].token # n
  BY <1>1 DEF Live, Issued
<1> QED BY <1>2 DEF Insert, TypeOK, DatabaseOK

-----------------------------------------------------------------------------
(* The invariant holds initially and is preserved                          *)

LEMMA InitSessions ==
  ASSUME Init
  PROVE  SessionInvariant
<1>1. SessionsSound
  BY BoundAssumption DEF Init, SessionsSound, OneLiveTokenPerSession, LiveTokenIsNewest,
     RootsIssued, IssuedInThePast, Live, Issued, Token, Time
<1>2. RotationsSound
  BY ActorAssumption DEF Init, RotationsSound, LocksHeld, OneRotationPerUser, Actor
<1> QED BY <1>1, <1>2 DEF SessionInvariant

(* A step that leaves tokens and the clock alone concerns only the locks.  *)
LEMMA QuietDb ==
  ASSUME TypeOK, SessionInvariant, NEW a \in Actor, Quiet(a),
         UNCHANGED <<users, tokens, session, now>>
  PROVE  SessionInvariant'
<1>1. now' \in Time /\ now <= now'
  BY DEF TypeOK, RequestsOK, Time
<1> QED BY <1>1, SessionsUnchanged, LocksKeptDb DEF SessionInvariant

LEMMA QuietUser ==
  ASSUME TypeOK, SessionInvariant, NEW a \in Actor, Quiet(a),
         UNCHANGED <<tokens, session, now>>,
         NEW u, NEW row, users' = [users EXCEPT ![u] = row],
         ~UserLocked(u) \/ users[u].life = "unused"
  PROVE  SessionInvariant'
<1>1. now' \in Time /\ now <= now'
  BY DEF TypeOK, RequestsOK, Time
<1> QED BY <1>1, SessionsUnchanged, LocksKeptUser DEF SessionInvariant

LEMMA QuietRevoked ==
  ASSUME TypeOK, SessionInvariant, NEW a \in Actor, Quiet(a),
         UNCHANGED <<users, session, now>>,
         NEW S, RevokeRows(S), \A t \in S : ~TokenLocked(t)
  PROVE  SessionInvariant'
BY SessionsRevoked, LocksKeptRevoked DEF SessionInvariant

LEMMA RestartSessions ==
  ASSUME TypeOK, SessionInvariant, Restart
  PROVE  SessionInvariant'
<1>1. now' \in Time /\ now <= now'
  BY DEF Restart, TypeOK, RequestsOK, Time
<1>2. SessionsSound'
  BY <1>1, SessionsUnchanged DEF SessionInvariant, Restart, db
<1>3. \A c \in Call : pc'[c] # "rotate"
  BY DEF Restart, Actor
<1> QED BY <1>2, <1>3 DEF SessionInvariant, RotationsSound, LocksHeld, OneRotationPerUser

(* The two halves of save(), of a handler or of ensureAdmin.               *)
LEMMA SaveSessions ==
  ASSUME TypeOK, SessionInvariant, NEW a \in Actor, SaveDiff(a) \/ SaveWrite(a)
  PROVE  SessionInvariant'
<1>1. CASE SaveDiff(a)
  BY <1>1, QuietProceed, QuietDb DEF SaveDiff, db, env
<1>2. CASE SaveWrite(a)
  <2>1. CASE Restart
    BY <2>1, RestartSessions
  <2>2. CASE Finish(a, "error") /\ UNCHANGED <<db, env>>
    BY <2>2, QuietFinish, QuietDb DEF db, env
  <2>3. ASSUME NEW row, users' = [users EXCEPT ![ent[a].id] = row],
               ~UserLocked(ent[a].id),
               \/ a = Boot /\ Finish(Boot, "ok")
               \/ a # Boot /\ Proceed(a, "collect") /\ UNCHANGED heap,
               UNCHANGED <<tokens, session, env>>
        PROVE  SessionInvariant'
    <3>1. Quiet(a)
      BY <2>3, QuietFinish, QuietProceed DEF env, heap
    <3> QED BY <2>3, <3>1, QuietUser DEF env
  <2> QED BY <1>2, <2>1, <2>2, <2>3 DEF SaveWrite
<1> QED BY <1>1, <1>2

(* The three steps of a refresh.                                           *)
LEMMA RefreshSessions ==
  ASSUME TypeOK, SessionInvariant, NEW c \in Call,
         RefreshVerify(c) \/ RefreshLock(c) \/ Rotate(c)
  PROVE  SessionInvariant'
<1>0. c \in Actor
  BY DEF Actor
<1>1. CASE RefreshVerify(c)
  BY <1>0, <1>1, QuietFinish, QuietProceed, QuietDb DEF RefreshVerify, db, env, heap
<1> DEFINE t == req[c].token
<1>t. ASSUME RefreshLock(c) \/ Rotate(c) PROVE t \in Token
  BY <1>t, PayloadType DEF RefreshLock, Rotate, At, TypeOK, RequestsOK
<1>2. CASE RefreshLock(c)
  <2>1. UNCHANGED <<users, tokens, session, now, req>>
    BY <1>2 DEF RefreshLock, db, env
  <2>2. ASSUME NEW r, Finish(c, r) PROVE SessionInvariant'
    BY <1>0, <2>1, <2>2, QuietFinish, QuietDb
  <2>3. ASSUME Stored(t), users[t.user].isActive, Hold(c, Load(t.user)), Proceed(c, "rotate")
        PROVE  SessionInvariant'
    <3>1. t \in Token /\ t.user \in UserId
      BY <1>t, <1>2 DEF Token
    <3>2. \A d \in Call : pc[d] = "rotate" => req[d].token.user # t.user
      BY <1>2 DEF RefreshLock, UserLocked
    <3>3. /\ \A d \in Call \ {c} : pc'[d] = pc[d] /\ ent'[d] = ent[d]
          /\ ent'[c] = Load(t.user)
      BY <1>0, <2>3 DEF Hold, Proceed, TypeOK, HandlersOK, Actor
    <3>4. Load(t.user).id = t.user /\ Load(t.user).row.role = users[t.user].role
      BY <3>1 DEF Load, TypeOK, DatabaseOK, Row
    <3>5. LocksHeld'
      BY <1>2, <2>1, <2>3, <3>3, <3>4
      DEF SessionInvariant, RotationsSound, LocksHeld, RefreshLock, At, Stored, Live, Kept
    <3>6. OneRotationPerUser'
      BY <2>1, <3>2, <3>3 DEF SessionInvariant, RotationsSound, OneRotationPerUser
    <3>7. SessionsSound'
      BY <2>1, SessionsUnchanged DEF SessionInvariant, TypeOK, RequestsOK, Time
    <3> QED BY <3>5, <3>6, <3>7 DEF SessionInvariant, RotationsSound
  <2> QED BY <1>2, <2>2, <2>3 DEF RefreshLock
<1>3. CASE Rotate(c)
  <2> DEFINE n == SignedFor(ent[c])
  <2>1. UNCHANGED <<users, now, req>>
    BY <1>3 DEF Rotate, env
  <2>2. Quiet(c)
    BY <1>0, <1>3, <2>1, QuietFinish DEF Rotate
  <2>3. CASE Issued(n) /\ UNCHANGED <<tokens, session>>
    BY <1>0, <2>1, <2>2, <2>3, QuietDb
  <2>4. CASE /\ ~Issued(n)
             /\ tokens' = [tokens EXCEPT ![t] = "revoked", ![n] = "live"]
             /\ session' = [session EXCEPT ![n] = session[t]]
    <3>1. t \in Token /\ t.user \in UserId
      BY <1>t, <1>3 DEF Token
    <3>2. pc[c] = "rotate"
      BY <1>3 DEF Rotate, At
    <3>3. Live(t) /\ ent[c].id = t.user
      BY <3>2 DEF SessionInvariant, RotationsSound, LocksHeld
    <3>4. n \in Token /\ n.iat = now
      BY <3>1, <3>3 DEF SignedFor, Token, TypeOK, HandlersOK, RequestsOK, Entity, Row, Actor
    <3>5. SessionsSound'
      BY <2>1, <2>4, <3>1, <3>3, <3>4, SessionsRotated DEF SessionInvariant
    <3>6. ASSUME NEW d \in Call \ {c}, pc[d] = "rotate"
          PROVE  tokens'[req[d].token] = tokens[req[d].token]
      <4>1. Live(req[d].token) /\ req[d].token.user # t.user
        BY <3>2, <3>6 DEF SessionInvariant, RotationsSound, LocksHeld, OneRotationPerUser
      <4>2. req[d].token # t /\ req[d].token # n
        BY <2>4, <4>1 DEF Live, Issued
      <4>3. req[d].token \in Token
        BY <3>6, PayloadType DEF SessionInvariant, RotationsSound, LocksHeld, TypeOK, RequestsOK
      <4> QED BY <2>4, <4>2, <4>3 DEF TypeOK, DatabaseOK
    <3>7. RotationsSound'
      BY <1>0, <2>1, <2>2, <3>6, LocksKept DEF SessionInvariant
    <3> QED BY <3>5, <3>7 DEF SessionInvariant
  <2> QED BY <1>3, <2>3, <2>4 DEF Rotate
<1> QED BY <1>1, <1>2, <1>3

(* Every other step of a handler, of ensureAdmin and of the environment.   *)
LEMMA HandlerSessions ==
  ASSUME TypeOK, SessionInvariant, NEW c \in Call, Send(c) \/ Handle(c) \/ StatementFails(c)
  PROVE  SessionInvariant'
<1>0. c \in Actor
  BY DEF Actor
<1>1. CASE Send(c)
  <2>1. Quiet(c)
    BY <1>0, <1>1 DEF Send, Quiet, Proceed, heap, TypeOK, HandlersOK, RequestsOK, Actor
  <2> QED BY <1>0, <1>1, <2>1, QuietDb DEF Send, db
<1>2. CASE StatementFails(c)
  BY <1>0, <1>2, QuietFinish, QuietDb DEF StatementFails, db, env
<1>3. CASE RegisterFind(c)
  BY <1>0, <1>3, QuietFinish, QuietProceed, QuietDb DEF RegisterFind, db, env, heap
<1>4. CASE RegisterInsert(c)
  <2>1. UNCHANGED <<tokens, session, now, req>>
    BY <1>4 DEF RegisterInsert, env
  <2>2. CASE Finish(c, "conflict") /\ UNCHANGED users
    BY <1>0, <2>1, <2>2, QuietFinish, QuietDb
  <2>3. ASSUME NEW u, NEW row, users[u].life = "unused",
               users' = [users EXCEPT ![u] = row],
               Hold(c, [id |-> u, row |-> row]), Proceed(c, "issue")
        PROVE  SessionInvariant'
    <3>1. Quiet(c)
      BY <1>0, <2>1, <2>3, QuietHold
    <3> QED BY <1>0, <2>1, <2>3, <3>1, QuietUser
  <2> QED BY <1>4, <2>2, <2>3 DEF RegisterInsert
<1>5. CASE Login(c)
  BY <1>0, <1>5, QuietFinish, QuietHold, QuietDb DEF Login, db, env
<1>6. CASE Issue(c)
  <2> DEFINE n == SignedFor(ent[c])
  <2>1. UNCHANGED <<users, now, req>> /\ Quiet(c)
    BY <1>0, <1>6, QuietFinish DEF Issue, env
  <2>2. CASE UNCHANGED <<tokens, session>>
    BY <1>0, <2>1, <2>2, QuietDb
  <2>3. CASE ~Issued(n) /\ Insert(n)
    <3>1. n.iat = now
      BY DEF SignedFor
    <3> QED BY <1>0, <2>1, <2>3, <3>1, SessionsOpened, LocksKeptInserted
            DEF SessionInvariant
  <2> QED BY <1>6, <2>2, <2>3 DEF Issue
<1>7. CASE RefreshVerify(c) \/ RefreshLock(c) \/ Rotate(c)
  BY <1>7, RefreshSessions
<1>8. CASE LogoutAll(c) \/ Collect(c)
  BY <1>0, <1>8, QuietProceed, QuietDb DEF LogoutAll, Collect, db, env
<1>9. CASE LogoutOne(c)
  <2>1. Quiet(c) /\ UNCHANGED <<users, session, now>>
    BY <1>0, <1>9, QuietFinish DEF LogoutOne, env
  <2> QED BY <1>0, <1>9, <2>1, QuietRevoked DEF LogoutOne
<1>10. CASE Revoke(c)
  <2>1. Quiet(c) /\ UNCHANGED <<users, session, now>>
    BY <1>0, <1>10, QuietFinish, QuietProceed DEF Revoke, env
  <2> QED BY <1>0, <1>10, <2>1, QuietRevoked DEF Revoke, NoLockOn
<1>11. CASE ChangeFind(c) \/ DeactivateFind(c)
  BY <1>0, <1>11, QuietFinish, QuietHold, QuietDb DEF ChangeFind, DeactivateFind, db, env
<1>12. CASE SaveDiff(c) \/ SaveWrite(c)
  BY <1>0, <1>12, SaveSessions
<1>13. CASE Remove(c)
  <2>1. Quiet(c) /\ UNCHANGED <<tokens, session, now>> /\ ~UserLocked(ent[c].id)
    BY <1>0, <1>13, QuietFinish DEF Remove, env
  <2>2. users' = [users EXCEPT ![ent[c].id] = [users[ent[c].id] EXCEPT !.life = "deleted"]]
    BY <1>13 DEF Remove
  <2> QED BY <1>0, <2>1, <2>2, QuietUser
<1> QED BY <1>1, <1>2, <1>3, <1>4, <1>5, <1>6, <1>7, <1>8, <1>9, <1>10, <1>11, <1>12, <1>13
        DEF Handle

LEMMA BootSessions ==
  ASSUME TypeOK, SessionInvariant, EnsureAdmin
  PROVE  SessionInvariant'
<1>0. Boot \in Actor
  BY DEF Actor
<1>1. CASE BootFind
  BY <1>0, <1>1, QuietFinish, QuietProceed, QuietHold, QuietDb DEF BootFind, db, env, heap
<1>2. CASE BootInsert
  <2>1. CASE Restart
    BY <2>1, RestartSessions
  <2>2. ASSUME NEW u, users[u].life = "unused", Finish(Boot, "ok"),
               users' = [users EXCEPT ![u] = NewRow(AdminEmail, AdminPassword, "admin")],
               UNCHANGED <<tokens, session, env>>
        PROVE  SessionInvariant'
    <3>1. Quiet(Boot)
      BY <1>0, <2>2, QuietFinish DEF env
    <3> QED BY <1>0, <2>2, <3>1, QuietUser DEF env
  <2> QED BY <1>2, <2>1, <2>2 DEF BootInsert
<1>3. CASE SaveDiff(Boot) \/ SaveWrite(Boot)
  BY <1>0, <1>3, SaveSessions
<1> QED BY <1>1, <1>2, <1>3 DEF EnsureAdmin

LEMMA NextSessions ==
  ASSUME TypeOK, SessionInvariant, [Next]_vars
  PROVE  SessionInvariant'
<1>1. CASE Tick
  <2>0. now' \in Time /\ now <= now'
    BY <1>1, BoundAssumption DEF Tick, Time, TypeOK, RequestsOK
  <2>1. SessionsSound'
    BY <1>1, <2>0, SessionsUnchanged DEF SessionInvariant, Tick, db
  <2>2. RotationsSound'
    BY <1>1 DEF SessionInvariant, Tick, db, heap, RotationsSound, LocksHeld,
                OneRotationPerUser, Live, Kept
  <2> QED BY <2>1, <2>2 DEF SessionInvariant
<1>2. CASE UNCHANGED vars
  <2>0. now' \in Time /\ now <= now'
    BY <1>2 DEF vars, Time, TypeOK, RequestsOK
  <2>1. SessionsSound'
    BY <1>2, <2>0, SessionsUnchanged DEF SessionInvariant, vars
  <2>2. RotationsSound'
    BY <1>2 DEF SessionInvariant, vars, RotationsSound, LocksHeld,
                OneRotationPerUser, Live, Kept
  <2> QED BY <2>1, <2>2 DEF SessionInvariant
<1> QED BY <1>1, <1>2, HandlerSessions, BootSessions, RestartSessions DEF Next

-----------------------------------------------------------------------------
(* The theorems                                                            *)

LEMMA SessionsAlways == Spec => [](TypeOK /\ SessionInvariant)
<1>1. Init => TypeOK /\ SessionInvariant
  BY InitType, InitSessions
<1>2. TypeOK /\ SessionInvariant /\ [Next]_vars => TypeOK' /\ SessionInvariant'
  BY NextType, NextSessions
<1> QED BY <1>1, <1>2, PTL DEF Spec

(* However often one refresh token is presented at once, a session never   *)
(* forks: of the tokens that descend from one login at most one is live.   *)
THEOREM SessionsDoNotFork == Spec => []OneLiveTokenPerSession
<1>1. SessionInvariant => OneLiveTokenPerSession
  BY DEF SessionInvariant, SessionsSound
<1> QED BY <1>1, SessionsAlways, PTL

(* The live token of a session is the last one issued in it.               *)
THEOREM NoOlderTokenReturns == Spec => []LiveTokenIsNewest
<1>1. SessionInvariant => LiveTokenIsNewest
  BY DEF SessionInvariant, SessionsSound
<1> QED BY <1>1, SessionsAlways, PTL

(* How a step may change the tokens: it revokes rows, opens a session or   *)
(* rotates, and nothing else.                                              *)
LEMMA TokenStep ==
  ASSUME [Next]_vars
  PROVE  \/ UNCHANGED <<tokens, session>>
         \/ \E S : RevokeRows(S) /\ UNCHANGED session
         \/ \E c \in Call : ~Issued(SignedFor(ent[c])) /\ Insert(SignedFor(ent[c]))
         \/ \E c \in Call : Rotate(c)
<1>1. ASSUME NEW c \in Call, Handle(c)
      PROVE  \/ UNCHANGED <<tokens, session>>
             \/ \E S : RevokeRows(S) /\ UNCHANGED session
             \/ ~Issued(SignedFor(ent[c])) /\ Insert(SignedFor(ent[c]))
             \/ Rotate(c)
  <2>1. CASE RegisterFind(c) \/ RegisterInsert(c) \/ Login(c) \/ RefreshVerify(c)
    BY <2>1 DEF RegisterFind, RegisterInsert, Login, RefreshVerify, db
  <2>2. CASE RefreshLock(c) \/ LogoutAll(c) \/ ChangeFind(c) \/ DeactivateFind(c)
    BY <2>2 DEF RefreshLock, LogoutAll, ChangeFind, DeactivateFind, db
  <2>3. CASE SaveDiff(c) \/ SaveWrite(c) \/ Collect(c) \/ Remove(c)
    BY <2>3 DEF SaveDiff, SaveWrite, Restart, Collect, Remove, db
  <2>4. CASE LogoutOne(c) \/ Revoke(c)
    BY <2>4 DEF LogoutOne, Revoke
  <2>5. CASE Issue(c)
    BY <2>5 DEF Issue
  <2> QED BY <1>1, <2>1, <2>2, <2>3, <2>4, <2>5 DEF Handle
<1>2. ASSUME NEW c \in Call, Send(c) \/ StatementFails(c)
      PROVE  UNCHANGED <<tokens, session>>
  BY <1>2 DEF Send, StatementFails, db
<1>3. ASSUME EnsureAdmin \/ Tick \/ Restart \/ UNCHANGED vars
      PROVE  UNCHANGED <<tokens, session>>
  BY <1>3 DEF EnsureAdmin, BootFind, BootInsert, SaveDiff, SaveWrite, Tick, Restart, db, vars
<1> QED BY <1>1, <1>2, <1>3 DEF Next

(* A rotation commits only for an account that is active and not deleted,  *)
(* with its current role: the join of refresh locks the account as well.   *)
THEOREM RotationNeedsActiveUser == Spec => RotationOnlyForActiveUser
<1> DEFINE A == \A t, n \in Token :
                  Live(t) /\ tokens'[t] = "revoked" /\ ~Issued(n) /\ tokens'[n] = "live"
                    => Kept(t.user) /\ users[t.user].isActive /\ n.role = users[t.user].role
<1>1. ASSUME TypeOK, SessionInvariant, [Next]_vars
      PROVE  A
  <2> SUFFICES ASSUME NEW t \in Token, NEW n \in Token,
                      Live(t), tokens'[t] = "revoked", ~Issued(n), tokens'[n] = "live"
               PROVE  Kept(t.user) /\ users[t.user].isActive /\ n.role = users[t.user].role
    OBVIOUS
  <2>1. tokens' # tokens
    BY DEF Live
  <2>2. ~\E S : RevokeRows(S)
    BY DEF RevokeRows, Issued
  <2>3. ~\E m : Insert(m)
    BY <1>1 DEF Insert, Live, TypeOK, DatabaseOK
  <2>4. PICK c \in Call : Rotate(c)
    BY <1>1, <2>1, <2>2, <2>3, TokenStep
  <2>5. /\ pc[c] = "rotate"
        /\ tokens' = [tokens EXCEPT ![req[c].token] = "revoked", ![SignedFor(ent[c])] = "live"]
    BY <2>1, <2>4 DEF Rotate, At
  <2>6. t = req[c].token /\ n = SignedFor(ent[c])
    BY <1>1, <2>5 DEF Live, Issued, TypeOK, DatabaseOK
  <2> QED BY <1>1, <2>5, <2>6
          DEF SessionInvariant, RotationsSound, LocksHeld, SignedFor
<1>2. TypeOK /\ SessionInvariant /\ [Next]_vars => [A]_vars
  BY <1>1
<1> QED BY <1>2, SessionsAlways, PTL DEF Spec, RotationOnlyForActiveUser

-----------------------------------------------------------------------------
(* Revocation covers what was there                                        *)

(* A token that is issued stays so, and becomes live only when issued.     *)
LEMMA TokensAge ==
  ASSUME TypeOK, [Next]_vars, NEW t \in Token, Issued(t)
  PROVE  Issued(t)' /\ (Live(t)' => Live(t))
<1>1. CASE UNCHANGED <<tokens, session>>
  BY <1>1 DEF Issued, Live
<1>2. CASE \E S : RevokeRows(S)
  BY <1>2 DEF RevokeRows, Issued, Live
<1>3. CASE \E n : ~Issued(n) /\ Insert(n)
  BY <1>3 DEF Insert, Issued, Live, TypeOK, DatabaseOK
<1>4. CASE \E c \in Call : Rotate(c)
  <2>1. PICK c \in Call : Rotate(c)
    BY <1>4
  <2>2. CASE UNCHANGED tokens
    BY <2>2 DEF Issued, Live
  <2>3. CASE /\ ~Issued(SignedFor(ent[c]))
             /\ tokens' = [tokens EXCEPT ![req[c].token] = "revoked",
                                       ![SignedFor(ent[c])] = "live"]
    BY <2>3 DEF Issued, Live, TypeOK, DatabaseOK
  <2> QED BY <2>1, <2>2, <2>3 DEF Rotate
<1> QED BY <1>1, <1>2, <1>3, <1>4, TokenStep

(* What holds of a request goes on to hold while its handler sleeps.       *)
LEMMA RevocationsElsewhere ==
  ASSUME TypeOK, RevocationsSound, [Next]_vars, NEW a \in Actor, Elsewhere(a),
         NEW c \in Call \ {a}
  PROVE  StageOK(c)' /\ SeenOK(c)' /\ BatchOK(c)' /\ CoveredOK(c)'
<1>1. StageOK(c) /\ SeenOK(c) /\ BatchOK(c) /\ CoveredOK(c) /\ seen[c] \subseteq Token
  BY DEF RevocationsSound, TypeOK, RequestsOK
<1>2. /\ pc'[c] = pc[c] /\ result'[c] = result[c] /\ ent'[c] = ent[c]
      /\ batch'[c] = batch[c] /\ req'[c] = req[c] /\ seen'[c] = seen[c]
  BY DEF Elsewhere, Actor
<1>3. StageOK(c)'
  BY <1>1, <1>2 DEF StageOK
<1>4. Names(req[c]) => \A t \in seen[c] : Issued(t)' /\ (Live(t)' => Live(t))
  BY <1>1, TokensAge DEF SeenOK
<1>5. SeenOK(c)'
  BY <1>1, <1>2, <1>4 DEF SeenOK
<1>6. RevokesAll(req[c]) => Names(req[c])
  BY DEF RevokesAll, Names
<1>7. BatchOK(c)'
  BY <1>1, <1>2, <1>4, <1>6 DEF BatchOK, StageOK
<1>8. CoveredOK(c)'
  BY <1>1, <1>2, <1>4, <1>6 DEF CoveredOK
<1> QED BY <1>3, <1>5, <1>7, <1>8

(* A step of its handler leaves the tokens of a request what they are.     *)
LEMMA RevocationsOwn ==
  ASSUME TypeOK, RevocationsSound, [Next]_vars, NEW c \in Call, Elsewhere(c),
         UNCHANGED <<req, seen>>, StageOK(c)', BatchOK(c)', CoveredOK(c)'
  PROVE  RevocationsSound'
<1>1. SeenOK(c) /\ seen[c] \subseteq Token
  BY DEF RevocationsSound, TypeOK, RequestsOK
<1>2. SeenOK(c)'
  BY <1>1, TokensAge DEF SeenOK
<1>3. \A d \in Call \ {c} : StageOK(d)' /\ SeenOK(d)' /\ BatchOK(d)' /\ CoveredOK(d)'
  BY RevocationsElsewhere DEF Actor
<1> QED BY <1>2, <1>3 DEF RevocationsSound

(* A handler that ends, but not well, or does not come to revoke.          *)
LEMMA RevocationsIfOver ==
  ASSUME TypeOK, RevocationsSound, [Next]_vars, NEW c \in Call, NEW r, r # "ok",
         Finish(c, r), UNCHANGED <<req, seen>>
  PROVE  RevocationsSound'
<1>1. Elsewhere(c) /\ pc'[c] = "done" /\ result'[c] = r
  BY FinishElsewhere DEF Actor
<1> QED BY <1>1, RevocationsOwn DEF StageOK, BatchOK, CoveredOK

LEMMA RevocationsIfAnswered ==
  ASSUME TypeOK, RevocationsSound, [Next]_vars, NEW c \in Call, ~RevokesAll(req[c]),
         Finish(c, "ok"), UNCHANGED <<req, seen>>
  PROVE  RevocationsSound'
<1>1. Elsewhere(c) /\ pc'[c] = "done" /\ result'[c] = "ok"
  BY FinishElsewhere DEF Actor
<1> QED BY <1>1, RevocationsOwn DEF StageOK, BatchOK, CoveredOK

LEMMA RevocationsIfWaiting ==
  ASSUME TypeOK, RevocationsSound, [Next]_vars, NEW c \in Call, Elsewhere(c),
         UNCHANGED <<req, seen>>, result'[c] = result[c], pc[c] # "done",
         pc'[c] \notin {"revoke", "remove"}, StageOK(c)'
  PROVE  RevocationsSound'
<1>1. result[c] # "ok"
  BY DEF RevocationsSound, StageOK
<1> QED BY <1>1, RevocationsOwn DEF BatchOK, CoveredOK

(* The steps that end the sessions.                                        *)
LEMMA CollectCovers ==
  ASSUME TypeOK, RevocationsSound, [Next]_vars, NEW c \in Call, LogoutAll(c) \/ Collect(c)
  PROVE  RevocationsSound'
<1> DEFINE B == LiveTokensOf(req[c].user)
<1>1. /\ pc[c] # "done" /\ RevokesAll(req[c]) /\ Names(req[c])
      /\ batch' = [batch EXCEPT ![c] = B]
      /\ Proceed(c, "revoke") /\ UNCHANGED <<ent, diff, req, seen, tokens>>
  BY DEF RevocationsSound, StageOK, LogoutAll, Collect, RevokesAll, Names, At, db, env
<1>2. /\ Elsewhere(c) /\ pc'[c] = "revoke" /\ batch'[c] = B
      /\ UNCHANGED <<result, ent, req, seen>>
  BY <1>1, BatchElsewhere DEF Actor
<1>3. result[c] # "ok" /\ SeenOK(c) /\ seen[c] \subseteq Token
  BY <1>1 DEF RevocationsSound, StageOK, TypeOK, RequestsOK
<1>4. \A t \in seen[c] : Live(t) => t \in B
  BY <1>1, <1>3 DEF SeenOK, LiveTokensOf, TokensOf, Live
<1>5. \A t \in seen[c] : Live(t)' => t \in B
  BY <1>1, <1>4 DEF Live
<1> HIDE DEF B
<1>6. StageOK(c)' /\ CoveredOK(c)'
  BY <1>1, <1>2, <1>3 DEF StageOK, CoveredOK
<1>7. BatchOK(c)'
  BY <1>2, <1>5 DEF BatchOK
<1> QED BY <1>2, <1>6, <1>7, RevocationsOwn

LEMMA RevokeCovers ==
  ASSUME TypeOK, RevocationsSound, [Next]_vars, NEW c \in Call, Revoke(c)
  PROVE  RevocationsSound'
<1>1. /\ pc[c] = "revoke" /\ RevokeRows(batch[c]) /\ UNCHANGED <<req, seen>>
      /\ Names(req[c])
  BY DEF Revoke, env, RevocationsSound, StageOK, RevokesAll, Names
<1>2. result[c] # "ok" /\ SeenOK(c) /\ BatchOK(c) /\ seen[c] \subseteq Token
  BY <1>1 DEF RevocationsSound, StageOK, TypeOK, RequestsOK
<1>3. \A t \in seen[c] : ~Live(t)'
  BY <1>1, <1>2 DEF SeenOK, BatchOK, RevokeRows, Live
<1>4. CASE Finish(c, "ok")
  <2>1. Elsewhere(c) /\ pc'[c] = "done" /\ result'[c] = "ok" /\ UNCHANGED <<req, seen>>
    BY <1>1, <1>4, FinishElsewhere DEF Actor
  <2>2. StageOK(c)' /\ BatchOK(c)' /\ CoveredOK(c)'
    BY <1>3, <2>1 DEF StageOK, BatchOK, CoveredOK
  <2> QED BY <2>1, <2>2, RevocationsOwn
<1>5. CASE /\ req[c].op = "deactivate"
           /\ batch' = [batch EXCEPT ![c] = {}]
           /\ Proceed(c, "remove")
           /\ UNCHANGED <<ent, diff>>
  <2>1. /\ Elsewhere(c) /\ pc'[c] = "remove" /\ UNCHANGED <<result, ent, req, seen>>
    BY <1>1, <1>5, BatchElsewhere DEF Actor
  <2>2. StageOK(c)' /\ BatchOK(c)' /\ CoveredOK(c)'
    BY <1>2, <1>3, <1>5, <2>1 DEF StageOK, BatchOK, CoveredOK
  <2> QED BY <2>1, <2>2, RevocationsOwn
<1> QED BY <1>4, <1>5 DEF Revoke

LEMMA RemoveCovers ==
  ASSUME TypeOK, RevocationsSound, [Next]_vars, NEW c \in Call, Remove(c)
  PROVE  RevocationsSound'
<1>1. /\ pc[c] = "remove" /\ Finish(c, "ok") /\ UNCHANGED <<req, seen, tokens>>
  BY DEF Remove, env
<1>2. Elsewhere(c) /\ pc'[c] = "done" /\ result'[c] = "ok" /\ UNCHANGED <<req, seen>>
  BY <1>1, FinishElsewhere DEF Actor
<1>3. CoveredOK(c)
  BY DEF RevocationsSound
<1>4. StageOK(c)' /\ BatchOK(c)' /\ CoveredOK(c)'
  BY <1>1, <1>2, <1>3 DEF StageOK, BatchOK, CoveredOK, Live
<1> QED BY <1>2, <1>4, RevocationsOwn

(* The steps before.                                                       *)
LEMMA HandlerRevocations ==
  ASSUME TypeOK, RevocationsSound, [Next]_vars, NEW c \in Call, Handle(c)
  PROVE  RevocationsSound'
<1>0. c \in Actor /\ c # Boot /\ StageOK(c)
  BY ActorAssumption DEF Actor, RevocationsSound
<1>1. ASSUME NEW r, r # "ok", Finish(c, r), UNCHANGED env
      PROVE  RevocationsSound'
  BY <1>1, RevocationsIfOver DEF env
<1>2. ASSUME Finish(c, "ok"), UNCHANGED env, ~RevokesAll(req[c])
      PROVE  RevocationsSound'
  BY <1>2, RevocationsIfAnswered DEF env
<1>3. ASSUME NEW s, s \in {"insert", "lock", "rotate"} \/ (s = "collect" /\ pc[c] = "write"),
             Proceed(c, s), UNCHANGED heap, UNCHANGED env, pc[c] # "done"
      PROVE  RevocationsSound'
  <2>1. /\ Elsewhere(c) /\ UNCHANGED <<req, seen, ent, result>> /\ pc'[c] = s
    BY <1>0, <1>3, ProceedElsewhere DEF env
  <2>2. StageOK(c)'
    BY <1>0, <1>3, <2>1 DEF StageOK
  <2> QED BY <1>3, <2>1, <2>2, RevocationsIfWaiting
<1>4. ASSUME NEW s, NEW e, Proceed(c, s), Hold(c, e), UNCHANGED env, pc[c] # "done",
             \/ s = "rotate"
             \/ s = "issue" /\ req[c].op \in {"register", "login"}
             \/ /\ s = "save" /\ e.id = req[c].user
                /\ req[c].op \in {"changePassword", "deactivate"}
      PROVE  RevocationsSound'
  <2>1. /\ Elsewhere(c) /\ UNCHANGED <<req, seen, result>> /\ pc'[c] = s /\ ent'[c] = e
    BY <1>0, <1>4, HoldElsewhere DEF env
  <2>2. StageOK(c)'
    BY <1>0, <1>4, <2>1 DEF StageOK
  <2> QED BY <1>4, <2>1, <2>2, RevocationsIfWaiting
<1>5. CASE RegisterFind(c) \/ RefreshVerify(c)
  BY <1>1, <1>3, <1>5 DEF RegisterFind, RefreshVerify, At
<1>6. CASE RegisterInsert(c) \/ Login(c) \/ RefreshLock(c)
  BY <1>1, <1>4, <1>6 DEF RegisterInsert, Login, RefreshLock, At
<1>7. CASE Issue(c) \/ Rotate(c) \/ LogoutOne(c)
  <2>1. ~RevokesAll(req[c]) /\ UNCHANGED env
    BY <1>0, <1>7 DEF Issue, Rotate, LogoutOne, At, StageOK, RevokesAll
  <2>2. \/ Finish(c, "ok")
        \/ \E r : r # "ok" /\ Finish(c, r)
    BY <1>7 DEF Issue, Rotate, LogoutOne
  <2> QED BY <1>1, <1>2, <2>1, <2>2
<1>8. CASE LogoutAll(c) \/ Collect(c)
  BY <1>8, CollectCovers
<1>9. CASE Revoke(c)
  BY <1>9, RevokeCovers
<1>10. CASE Remove(c)
  BY <1>10, RemoveCovers
<1>11. CASE ChangeFind(c)
  <2> DEFINE e == [id |-> req[c].user,
                   row |-> [users[req[c].user] EXCEPT !.password = req[c].next]]
  <2>1. CASE \E r : r # "ok" /\ Finish(c, r)
    BY <1>1, <1>11, <2>1 DEF ChangeFind
  <2>2. CASE Hold(c, e) /\ Proceed(c, "save")
    BY <1>4, <1>11, <2>2 DEF ChangeFind, At
  <2> QED BY <1>11, <2>1, <2>2 DEF ChangeFind
<1>12. CASE DeactivateFind(c)
  <2> DEFINE e == [id |-> req[c].user,
                   row |-> [Load(req[c].user).row EXCEPT !.isActive = FALSE]]
  <2>1. CASE \E r : r # "ok" /\ Finish(c, r)
    BY <1>1, <1>12, <2>1 DEF DeactivateFind
  <2>2. CASE Hold(c, e) /\ Proceed(c, "save")
    BY <1>4, <1>12, <2>2 DEF DeactivateFind, At
  <2> QED BY <1>12, <2>1, <2>2 DEF DeactivateFind
<1>13. CASE SaveDiff(c)
  <2>1. /\ pc[c] = "save" /\ Proceed(c, "write") /\ UNCHANGED <<ent, batch, req, seen>>
        /\ diff' = [diff EXCEPT ![c] = Differing(ent[c].row, users[ent[c].id])]
    BY <1>13 DEF SaveDiff, env
  <2>2. Elsewhere(c) /\ pc'[c] = "write" /\ UNCHANGED <<result, ent, req, seen>>
    BY <1>0, <2>1, DiffElsewhere
  <2>3. StageOK(c)'
    BY <1>0, <2>1, <2>2 DEF StageOK
  <2> QED BY <2>1, <2>2, <2>3, RevocationsIfWaiting
<1>14. CASE SaveWrite(c)
  <2>1. CASE Finish(c, "error") /\ UNCHANGED env
    BY <1>1, <2>1
  <2>2. CASE Proceed(c, "collect") /\ UNCHANGED heap /\ UNCHANGED env
    BY <1>3, <1>14, <2>2 DEF SaveWrite
  <2> QED BY <1>0, <1>14, <2>1, <2>2 DEF SaveWrite
<1> QED BY <1>5, <1>6, <1>7, <1>8, <1>9, <1>10, <1>11, <1>12, <1>13, <1>14 DEF Handle

(* ensureAdmin ends no session, and a restart answers nobody.              *)
LEMMA RestartRevocations ==
  ASSUME TypeOK, RevocationsSound, Restart
  PROVE  RevocationsSound'
<1>1. /\ \A c \in Call : pc'[c] \in {"idle", "start"} /\ result'[c] = "none"
      /\ UNCHANGED <<req, seen, tokens>>
  BY DEF Restart, Actor, db
<1>2. \A c \in Call : StageOK(c)' /\ BatchOK(c)' /\ CoveredOK(c)'
  BY <1>1 DEF StageOK, BatchOK, CoveredOK
<1>3. \A c \in Call : SeenOK(c)'
  BY <1>1 DEF RevocationsSound, SeenOK, Issued
<1> QED BY <1>2, <1>3 DEF RevocationsSound

LEMMA BootRevocations ==
  ASSUME TypeOK, RevocationsSound, [Next]_vars, EnsureAdmin
  PROVE  RevocationsSound'
<1>0. Boot \in Actor /\ Boot \notin Call
  BY ActorAssumption DEF Actor
<1>1. ASSUME Elsewhere(Boot)
      PROVE  RevocationsSound'
  BY <1>0, <1>1, RevocationsElsewhere DEF RevocationsSound
<1>2. ASSUME NEW r, Finish(Boot, r), UNCHANGED env
      PROVE  RevocationsSound'
  BY <1>0, <1>1, <1>2, FinishElsewhere DEF env
<1>3. CASE BootFind
  <2>1. \/ \E r : Finish(Boot, r)
        \/ \E s : Proceed(Boot, s) /\ UNCHANGED heap
        \/ \E s, e : Proceed(Boot, s) /\ Hold(Boot, e)
    BY <1>3 DEF BootFind
  <2>2. UNCHANGED env
    BY <1>3 DEF BootFind
  <2> QED BY <1>0, <1>1, <1>2, <2>1, <2>2, ProceedElsewhere, HoldElsewhere DEF env
<1>4. CASE BootInsert
  BY <1>2, <1>4, RestartRevocations DEF BootInsert
<1>5. CASE SaveDiff(Boot)
  BY <1>0, <1>1, <1>5, DiffElsewhere DEF SaveDiff, env
<1>6. CASE SaveWrite(Boot)
  BY <1>2, <1>6, RestartRevocations DEF SaveWrite
<1> QED BY <1>3, <1>4, <1>5, <1>6 DEF EnsureAdmin

LEMMA SendRevocations ==
  ASSUME TypeOK, RevocationsSound, [Next]_vars, NEW c \in Call, Send(c)
  PROVE  RevocationsSound'
<1>1. PICK r : /\ req' = [req EXCEPT ![c] = r]
               /\ seen' = [seen EXCEPT ![c] = IF Names(r) THEN TokensOf(r.user) ELSE {}]
  BY DEF Send
<1>2. /\ pc[c] = "idle" /\ pc' = [pc EXCEPT ![c] = "start"]
      /\ UNCHANGED <<result, ent, diff, batch, tokens>>
  BY DEF Send, Proceed, heap, db
<1>3. Elsewhere(c) /\ pc'[c] = "start"
  BY <1>1, <1>2 DEF Elsewhere, TypeOK, HandlersOK, RequestsOK, Actor
<1>4. req'[c] = r /\ seen'[c] = IF Names(r) THEN TokensOf(r.user) ELSE {}
  BY <1>1 DEF TypeOK, RequestsOK
<1>5. result'[c] # "ok"
  BY <1>2 DEF RevocationsSound, StageOK
<1>6. StageOK(c)' /\ BatchOK(c)' /\ CoveredOK(c)'
  BY <1>3, <1>5 DEF StageOK, BatchOK, CoveredOK
<1>7. SeenOK(c)'
  BY <1>2, <1>4 DEF SeenOK, Names, TokensOf, Issued
<1>8. \A d \in Call \ {c} : StageOK(d)' /\ SeenOK(d)' /\ BatchOK(d)' /\ CoveredOK(d)'
  BY <1>3, RevocationsElsewhere DEF Actor
<1> QED BY <1>6, <1>7, <1>8 DEF RevocationsSound

LEMMA NextRevocations ==
  ASSUME TypeOK, RevocationsSound, [Next]_vars
  PROVE  RevocationsSound'
<1>1. ASSUME NEW c \in Call, StatementFails(c)
      PROVE  RevocationsSound'
  BY <1>1, RevocationsIfOver DEF StatementFails, env
<1>2. CASE Tick \/ UNCHANGED vars
  BY <1>2 DEF Tick, heap, db, vars, RevocationsSound, StageOK, SeenOK, BatchOK, CoveredOK,
              Issued, Live
<1> QED BY <1>1, <1>2, HandlerRevocations, BootRevocations, RestartRevocations,
           SendRevocations DEF Next

(* What was there when a logout of every session, a change of password or  *)
(* a deactivation was sent is not usable after its answer, although the    *)
(* rows its UPDATE will touch are fixed before it waits for a rotation.    *)
THEOREM RevocationCovers == Spec => []RevokeAllCoversEarlierTokens
<1>1. Init => TypeOK /\ RevocationsSound
  <2>1. Init => RevocationsSound
    BY DEF Init, RevocationsSound, StageOK, SeenOK, BatchOK, CoveredOK, NoRequest, Names, Actor
  <2> QED BY <2>1, InitType
<1>2. TypeOK /\ RevocationsSound /\ [Next]_vars => TypeOK' /\ RevocationsSound'
  BY NextType, NextRevocations
<1>3. RevocationsSound => RevokeAllCoversEarlierTokens
  BY DEF RevocationsSound, CoveredOK, RevokeAllCoversEarlierTokens
<1> QED BY <1>1, <1>2, <1>3, PTL DEF Spec

-----------------------------------------------------------------------------
(* The worker implements the ledger of sessions                            *)

(* What the refinement mapping reads off the rows, now and after a step.   *)
LEMMA CurrentIsLive ==
  ASSUME OneLiveTokenPerSession, NEW s \in Token
  PROVE  /\ \A t \in Token : Current[s] = t <=> Live(t) /\ session[t] = s
         /\ Current[s] \in Token \cup {NoToken}
         /\ Current[s] = NoToken <=> \A t \in Token : ~(Live(t) /\ session[t] = s)
<1>0. Current[s] = CurrentOf(s) /\ NoToken \notin Token
  BY NullAssumption DEF Current
<1>1. CASE \E t \in Token : Live(t) /\ session[t] = s
  <2> DEFINE t == CHOOSE t \in Token : Live(t) /\ session[t] = s
  <2>1. t \in Token /\ Live(t) /\ session[t] = s
    BY <1>1, Zenon
  <2>2. Current[s] = t
    BY <1>0, <1>1 DEF CurrentOf
  <2> HIDE DEF t
  <2> QED BY <1>0, <2>1, <2>2 DEF OneLiveTokenPerSession
<1>2. CASE ~\E t \in Token : Live(t) /\ session[t] = s
  BY <1>0, <1>2 DEF CurrentOf
<1> QED BY <1>1, <1>2

LEMMA CurrentIsLiveNext ==
  ASSUME OneLiveTokenPerSession', NEW s \in Token
  PROVE  /\ \A t \in Token : Current'[s] = t <=> tokens'[t] = "live" /\ session'[t] = s
         /\ Current'[s] \in Token \cup {NoToken}
         /\ Current'[s] = NoToken
              <=> \A t \in Token : ~(tokens'[t] = "live" /\ session'[t] = s)
<1>0. Current'[s] = CurrentOf(s)' /\ NoToken \notin Token
  BY NullAssumption DEF Current
<1> DEFINE P(t) == tokens'[t] = "live" /\ session'[t] = s
<1>1. CASE \E t \in Token : P(t)
  <2> DEFINE t == CHOOSE t \in Token : P(t)
  <2>1. t \in Token /\ P(t)
    BY <1>1, Zenon
  <2>2. Current'[s] = t
    BY <1>0, <1>1 DEF CurrentOf, Live
  <2> HIDE DEF t
  <2> QED BY <1>0, <2>1, <2>2 DEF OneLiveTokenPerSession, Live
<1>2. CASE ~\E t \in Token : P(t)
  BY <1>0, <1>2 DEF CurrentOf, Live
<1> QED BY <1>1, <1>2

(* A session whose live tokens are the same ones keeps its current token.  *)
LEMMA CurrentKept ==
  ASSUME OneLiveTokenPerSession, OneLiveTokenPerSession', NEW s \in Token,
         \A t \in Token : Live(t)' /\ session'[t] = s <=> Live(t) /\ session[t] = s
  PROVE  Current'[s] = Current[s]
BY CurrentIsLive, CurrentIsLiveNext DEF Live

LEMMA LedgerUnchanged ==
  ASSUME UNCHANGED <<tokens, session>>
  PROVE  UNCHANGED Ledger!ledger
BY DEF Ledger!ledger, Current, CurrentOf, Live, Spent

LEMMA LedgerInit ==
  ASSUME Init
  PROVE  Ledger!Init
<1>1. OneLiveTokenPerSession
  BY InitSessions DEF SessionInvariant, SessionsSound
<1>2. \A s \in Token : session[s] = s /\ tokens[s] # "revoked"
  BY DEF Init
<1>3. \A s \in Token : Current[s] \in {s, NoToken}
  BY <1>1, <1>2, CurrentIsLive
<1>4. Current \in [Token -> Token \cup {NoToken}]
  BY <1>1, CurrentIsLive DEF Current
<1>5. Spent = {}
  BY <1>2 DEF Spent
<1> QED BY <1>3, <1>4, <1>5 DEF Ledger!Init

(* An inserted token opens the session it is the first of.                 *)
LEMMA InsertOpens ==
  ASSUME TypeOK, SessionsSound, SessionsSound', NEW n \in Token, ~Issued(n), Insert(n)
  PROVE  Ledger!Open(n)
<1>0. OneLiveTokenPerSession /\ OneLiveTokenPerSession' /\ NoToken \notin Token
  BY NullAssumption DEF SessionsSound
<1>1. /\ \A t \in Token \ {n} : /\ tokens'[t] = tokens[t] /\ session'[t] = session[t]
      /\ tokens'[n] = "live" /\ session'[n] = n /\ tokens[n] = "absent"
  BY DEF TypeOK, DatabaseOK, Insert, Issued
<1>2. Ledger!Unused(n)
  <2>1. \A s \in Token : Current[s] # n
    BY <1>0, <1>1, CurrentIsLive DEF Live
  <2>2. n \notin Spent
    BY <1>1 DEF Spent
  <2> QED BY <2>1, <2>2 DEF Ledger!Unused
<1>3. \A t \in Token : session[t] = n => ~Live(t)
  BY <1>1 DEF SessionsSound, RootsIssued, Issued, Live
<1>4. Current[n] = NoToken
  BY <1>0, <1>3, CurrentIsLive
<1>5. Current'[n] = n
  BY <1>0, <1>1, CurrentIsLiveNext DEF Live
<1>6. ASSUME NEW s \in Token, s # n
      PROVE  Current'[s] = Current[s]
  BY <1>0, <1>1, <1>6, CurrentKept DEF Live
<1>7. Current' = [Current EXCEPT ![n] = n]
  BY <1>5, <1>6 DEF Current
<1>8. Spent' = Spent
  BY <1>1 DEF Spent
<1> QED BY <1>2, <1>4, <1>7, <1>8 DEF Ledger!Open

(* A rotation passes its session on.                                       *)
LEMMA RotationPasses ==
  ASSUME TypeOK, SessionsSound, SessionsSound', NEW t \in Token, NEW n \in Token,
         Live(t), ~Issued(n),
         tokens' = [tokens EXCEPT ![t] = "revoked", ![n] = "live"],
         session' = [session EXCEPT ![n] = session[t]]
  PROVE  Ledger!Rotate(session[t], n)
<1> DEFINE s == session[t]
<1>0. /\ OneLiveTokenPerSession /\ OneLiveTokenPerSession' /\ NoToken \notin Token
      /\ s \in Token /\ t # n
  BY NullAssumption DEF SessionsSound, TypeOK, DatabaseOK, Live, Issued
<1>1. /\ \A r \in Token \ {t, n} : tokens'[r] = tokens[r]
      /\ \A r \in Token \ {n} : session'[r] = session[r]
      /\ tokens'[n] = "live" /\ session'[n] = s /\ tokens'[t] = "revoked"
      /\ tokens[n] = "absent" /\ tokens[t] = "live"
  BY <1>0 DEF TypeOK, DatabaseOK, Live, Issued
<1>2. Ledger!Unused(n)
  <2>1. \A r \in Token : Current[r] # n
    BY <1>0, <1>1, CurrentIsLive DEF Live
  <2>2. n \notin Spent
    BY <1>1 DEF Spent
  <2> QED BY <2>1, <2>2 DEF Ledger!Unused
<1>3. Current[s] = t
  BY <1>0, CurrentIsLive
<1>4. Current'[s] = n
  <2>1. s \in Token /\ tokens'[n] = "live" /\ session'[n] = s
    BY <1>0, <1>1
  <2> HIDE DEF s
  <2>2. \A x \in Token : Current'[s] = x <=> tokens'[x] = "live" /\ session'[x] = s
    BY <1>0, <2>1, CurrentIsLiveNext
  <2> QED BY <2>1, <2>2
<1>5. ASSUME NEW r \in Token, r # s
      PROVE  Current'[r] = Current[r]
  <2>1. \A x \in Token : Live(x)' /\ session'[x] = r <=> Live(x) /\ session[x] = r
    BY <1>1, <1>5 DEF Live
  <2> QED BY <1>0, <2>1, CurrentKept
<1>6. Current' = [Current EXCEPT ![s] = n]
  BY <1>0, <1>4, <1>5 DEF Current
<1>7. Spent' = Spent \cup {Current[s]}
  <2>1. \A x \in Token : tokens'[x] = "revoked" <=> tokens[x] = "revoked" \/ x = t
    BY <1>0, <1>1
  <2> QED BY <1>3, <2>1 DEF Spent
<1> QED BY <1>0, <1>2, <1>3, <1>6, <1>7 DEF Ledger!Rotate

(* Revoking rows closes the sessions of those that were live.              *)
LEMMA RevocationCloses ==
  ASSUME TypeOK, SessionsSound, SessionsSound', NEW R, RevokeRows(R), UNCHANGED session
  PROVE  \E S \in SUBSET Token : Ledger!Close(S)
<1> DEFINE S == {s \in Token : \E t \in Token : t \in R /\ Live(t) /\ session[t] = s}
<1>0. OneLiveTokenPerSession /\ OneLiveTokenPerSession' /\ NoToken \notin Token
  BY NullAssumption DEF SessionsSound
<1>1. \A t \in Token : /\ tokens'[t] = IF t \in R /\ Issued(t) THEN "revoked" ELSE tokens[t]
                       /\ session'[t] = session[t] /\ session[t] \in Token
  BY DEF RevokeRows, TypeOK, DatabaseOK
<1>2. \A s \in S : Current[s] # NoToken
  BY <1>0, CurrentIsLive
<1>3. ASSUME NEW s \in Token, s \in S
      PROVE  Current'[s] = NoToken
  <2>1. PICK t \in Token : t \in R /\ Live(t) /\ session[t] = s
    BY <1>3
  <2>2. \A x \in Token : tokens'[x] = "live" /\ session'[x] = s => x = t
    BY <1>0, <1>1, <2>1 DEF OneLiveTokenPerSession, Live
  <2>3. tokens'[t] # "live"
    BY <1>1, <2>1 DEF Live, Issued
  <2> HIDE DEF S
  <2>4. Current'[s] = NoToken
          <=> \A x \in Token : ~(tokens'[x] = "live" /\ session'[x] = s)
    BY <1>0, CurrentIsLiveNext
  <2> QED BY <2>2, <2>3, <2>4
<1>4. ASSUME NEW s \in Token, s \notin S
      PROVE  Current'[s] = Current[s]
  <2>1. \A x \in Token : Live(x)' /\ session'[x] = s <=> Live(x) /\ session[x] = s
    BY <1>1, <1>4 DEF Live
  <2> QED BY <1>0, <2>1, CurrentKept
<1>5. Current' = [s \in Token |-> IF s \in S THEN NoToken ELSE Current[s]]
  BY <1>3, <1>4 DEF Current
<1>6. Spent' = Spent \cup {Current[s] : s \in S}
  <2>1. \A x \in Token : x \in {Current[s] : s \in S} <=> x \in R /\ Live(x)
    <3> TAKE x \in Token
    <3>1. ASSUME x \in R, Live(x) PROVE x \in {Current[s] : s \in S}
      <4>1. session[x] \in S /\ Current[session[x]] = x
        BY <1>0, <1>1, <3>1, CurrentIsLive
      <4> QED BY <4>1
    <3>2. ASSUME NEW s \in S, x = Current[s] PROVE x \in R /\ Live(x)
      <4>1. PICK t \in Token : t \in R /\ Live(t) /\ session[t] = s
        OBVIOUS
      <4> QED BY <1>0, <3>2, <4>1, CurrentIsLive
    <3> QED BY <3>1, <3>2
  <2>2. {Current[s] : s \in S} \subseteq Token
    BY <1>0, <1>2, CurrentIsLive
  <2>3. \A x \in Token : tokens'[x] = "revoked" <=> tokens[x] = "revoked" \/ (x \in R /\ Live(x))
    BY <1>1 DEF Live, Issued, TypeOK, DatabaseOK
  <2> HIDE DEF S
  <2> QED BY <2>1, <2>2, <2>3 DEF Spent
<1> HIDE DEF S
<1>7. Ledger!Close(S)
  BY <1>2, <1>5, <1>6 DEF Ledger!Close
<1> QED BY <1>7 DEF S

LEMMA StepOfTheLedger ==
  ASSUME TypeOK, SessionInvariant, SessionInvariant', [Next]_vars
  PROVE  [Ledger!Next]_(Ledger!ledger)
<1>0. SessionsSound /\ SessionsSound'
  BY DEF SessionInvariant
<1>1. CASE UNCHANGED <<tokens, session>>
  BY <1>1, LedgerUnchanged
<1>2. ASSUME NEW R, RevokeRows(R), UNCHANGED session
      PROVE  Ledger!Next
  BY <1>0, <1>2, RevocationCloses DEF Ledger!Next
<1>3. ASSUME NEW c \in Call, ~Issued(SignedFor(ent[c])), Insert(SignedFor(ent[c]))
      PROVE  [Ledger!Next]_(Ledger!ledger)
  <2> DEFINE n == SignedFor(ent[c])
  <2>1. CASE n \in Token
    BY <1>0, <1>3, <2>1, InsertOpens DEF Ledger!Next
  <2>2. CASE n \notin Token
    <3>1. UNCHANGED <<tokens, session>>
      BY <1>3, <2>2 DEF Insert, TypeOK, DatabaseOK
    <3> QED BY <3>1, LedgerUnchanged
  <2> QED BY <2>1, <2>2
<1>4. ASSUME NEW c \in Call, Rotate(c)
      PROVE  [Ledger!Next]_(Ledger!ledger)
  <2> DEFINE t == req[c].token
             n == SignedFor(ent[c])
  <2>1. CASE UNCHANGED <<tokens, session>>
    BY <2>1, LedgerUnchanged
  <2>2. CASE /\ ~Issued(n)
             /\ tokens' = [tokens EXCEPT ![t] = "revoked", ![n] = "live"]
             /\ session' = [session EXCEPT ![n] = session[t]]
    <3>1. t \in Token /\ t.user \in UserId
      BY <1>4, PayloadType DEF Rotate, At, TypeOK, RequestsOK, Token
    <3>2. Live(t) /\ ent[c].id = t.user
      BY <1>4 DEF Rotate, At, SessionInvariant, RotationsSound, LocksHeld
    <3>3. n \in Token
      BY <3>1, <3>2
      DEF SignedFor, Token, TypeOK, HandlersOK, RequestsOK, Entity, Row, Actor
    <3>4. session[t] \in Token
      BY <3>1 DEF TypeOK, DatabaseOK
    <3>5. Ledger!Rotate(session[t], n)
      BY <1>0, <2>2, <3>1, <3>2, <3>3, RotationPasses
    <3> QED BY <3>3, <3>4, <3>5 DEF Ledger!Next
  <2> QED BY <1>4, <2>1, <2>2 DEF Rotate
<1> QED BY <1>1, <1>2, <1>3, <1>4, TokenStep

(* The rows of refresh_tokens implement the ledger: a session is opened by *)
(* a login, holds one usable token, passes it on to a new one and is       *)
(* closed; a token that is spent never becomes usable again.               *)
THEOREM SessionsAreALedger == Spec => KeepsLedger
<1>1. Init => Ledger!Init
  BY LedgerInit
<1>2. /\ TypeOK /\ SessionInvariant /\ TypeOK' /\ SessionInvariant' /\ [Next]_vars
      => [Ledger!Next]_(Ledger!ledger)
  BY StepOfTheLedger
<1> QED BY <1>1, <1>2, SessionsAlways, PTL DEF Spec, Ledger!Spec, KeepsLedger

=============================================================================
