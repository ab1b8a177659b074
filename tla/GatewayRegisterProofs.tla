----------------------- MODULE GatewayRegisterProofs -----------------------
(***************************************************************************)
(* An account that POST /auth/register answered 201 for is usable: it has  *)
(* a profile and is active, unless a DELETE of an admin asked for the      *)
(* removal of the one or the other, and no compensation of its own request *)
(* takes it away, for any number of requests and any interleaving of late, *)
(* lost and repeated calls, stale saves and restarts.                      *)
(*                                                                         *)
(* The argument: only DEACTIVATE makes an account unusable (StaysUsable):  *)
(* what a changePassword writes back it loaded from a usable account       *)
(* (LoadedActive).  DEACTIVATE is only sent for the account an admin       *)
(* deletes, or by a register for its own account, and that one is past     *)
(* answering 201 (RegisterMessage).  REGISTER gives each request an        *)
(* account nobody else was given (AccountsApart), so a compensation is     *)
(* about the account of the request that sent it.                          *)
(***************************************************************************)
EXTENDS GatewayProofs

USE DEF Public, AdminOnly, Route, AuthPattern, UserPattern, Pattern

-----------------------------------------------------------------------------
(* What the steps of a request do                                          *)

(* The handler of register is in one of its own actions.                   *)
LEMMA RegisterActs ==
  ASSUME NEW c \in Call, RegisterStage(c), req[c].op = "register", Handle(c)
  PROVE  /\ pc[c] \in {"REGISTER", "CREATE_PROFILE", "DEACTIVATE"}
         /\ \/ Throws(c) /\ pc[c] = "REGISTER"
            \/ HandlerTimeout(c) \/ Registered(c) \/ ProfileCreated(c)
            \/ Compensate(c) \/ Compensated(c)
<1>1. pc[c] \in {"REGISTER", "CREATE_PROFILE", "DEACTIVATE", "done"}
  BY DEF RegisterStage
<1> QED BY <1>1 DEF Handle, TurnedAway, Guard, Enter, Throws, HandlerTimeout, Registered,
     ProfileCreated, Compensate, Compensated, LoggedIn, Served, PasswordChanged, Blacklist,
     BlacklistFails, ProfileFound, Deactivated, Replied

(* Any other handler keeps result, and sends DEACTIVATE only for a removal. *)
LEMMA OthersAct ==
  ASSUME TypeOK, PayloadsOK, NEW c \in Call, req[c].op # "register", Handle(c)
  PROVE  /\ UNCHANGED result
         /\ pc'[c] \notin {"REGISTER", "CREATE_PROFILE"}
         /\ \A m \in queue' \ queue :
              m.pattern # "CREATE_PROFILE" /\ (m.pattern = "DEACTIVATE" => req[c].op = "remove")
<1>1. pc[c] \notin {"REGISTER", "CREATE_PROFILE"} /\ req[c].op \in Route \cup {"none"}
  BY PayloadType DEF PayloadsOK, PayloadOK, TypeOK
<1>2. UNCHANGED result
  BY <1>1 DEF Handle, TurnedAway, Guard, Enter, Throws, HandlerTimeout, Registered,
     ProfileCreated, Compensate, Compensated, LoggedIn, Served, PasswordChanged, Blacklist,
     BlacklistFails, ProfileFound, Deactivated, Replied
<1>3. \/ \E s : End(c, s)
      \/ \E p \in Pattern \ {"REGISTER", "CREATE_PROFILE"} : \E u :
           Await(c, p, u) /\ (p = "DEACTIVATE" => req[c].op = "remove")
      \/ pc' = [pc EXCEPT ![c] = "blacklist"] /\ UNCHANGED queue
      \/ UNCHANGED <<pc, queue>>
  BY <1>1 DEF Handle, TurnedAway, Guard, Enter, Throws, HandlerTimeout, Registered,
     ProfileCreated, Compensate, Compensated, LoggedIn, Served, PasswordChanged, Blacklist,
     BlacklistFails, ProfileFound, Deactivated, Replied
<1>4. CASE \E s : End(c, s)
  BY <1>2, <1>4 DEF End, TypeOK, RequestsOK
<1>5. ASSUME NEW p \in Pattern \ {"REGISTER", "CREATE_PROFILE"}, NEW u, Await(c, p, u),
             p = "DEACTIVATE" => req[c].op = "remove"
      PROVE  /\ pc'[c] = p
             /\ \A m \in queue' \ queue : m.pattern = p
  BY <1>5 DEF Await, TypeOK, RequestsOK
<1> QED BY <1>1, <1>2, <1>3, <1>4, <1>5 DEF TypeOK, RequestsOK

(* A handler that is over does nothing, and one that answers 2xx is over.  *)
LEMMA HandleEnds ==
  ASSUME TypeOK, NEW c \in Call, Handle(c)
  PROVE  /\ pc[c] # "done"
         /\ answer'[c] = "ok" => answer[c] = "ok" \/ pc'[c] = "done"
<1>1. pc[c] # "done"
  BY DEF Handle, TurnedAway, Guard, Enter, Throws, HandlerTimeout, Registered,
     ProfileCreated, Compensate, Compensated, LoggedIn, Served, PasswordChanged, Blacklist,
     BlacklistFails, ProfileFound, Deactivated, Replied
<1>2. \/ \E s : End(c, s)
      \/ UNCHANGED answer
      \/ answer' = [answer EXCEPT ![c] = "late"]
  BY DEF Handle, TurnedAway, Guard, Enter, Throws, HandlerTimeout, Registered, ProfileCreated,
         Compensate, Compensated, LoggedIn, Served, PasswordChanged, Blacklist, BlacklistFails,
         ProfileFound, Deactivated, Await
<1> QED BY <1>1, <1>2 DEF End, TypeOK, RequestsOK

(* No message is ever dropped.                                             *)
LEMMA MessagesStay ==
  ASSUME TypeOK, [Next]_vars
  PROVE  Sent \subseteq Sent'
<1>1. ASSUME NEW m \in Sent, Works(m)  PROVE Sent' = Sent
  BY <1>1, WorkKeeps
<1>2. ASSUME NEW c \in Call, Handle(c)
      PROVE  queue \subseteq queue' /\ UNCHANGED <<running, done>>
  BY <1>2, HandleMoves, HandleKeeps DEF Frame
<1>3. ASSUME NEW c \in Call, Arrive(c)
      PROVE  queue \subseteq queue' /\ UNCHANGED <<running, done>>
  BY <1>3, ArriveOthers
<1>4. CASE WorkerRestart \/ GatewayRestart \/ Tick \/ UNCHANGED vars
  BY <1>4, EnvironmentSent
<1> QED BY <1>1, <1>2, <1>3, <1>4, StepKinds DEF Sent

LEMMA AskedStays ==
  ASSUME TypeOK, [Next]_vars, NEW p, NEW u, Asked(p, u)
  PROVE  Asked(p, u)'
BY MessagesStay DEF Asked

(* What a request is, it stays; the account it was given, too.             *)
LEMMA RequestStays ==
  ASSUME TypeOK, [Next]_vars, NEW d \in Call, RegisterStage(d)
  PROVE  /\ req[d].op # "none" => req'[d] = req[d]
         /\ pc[d] # "idle" => req'[d] = req[d] /\ pc'[d] # "idle"
         /\ result'[d] = result[d] \/ Registered(d)
         /\ result[d] \in Token => result'[d] = result[d]
<1>0. /\ pc[d] = "idle" => req[d].op = "none"
      /\ pc[d] = "REGISTER" => result[d] \notin Token
  BY NullAssumption DEF RegisterStage, NoRequest
<1>1. ASSUME NEW c \in Call, Arrive(c)
      PROVE  result'[d] = result[d] /\ (pc[d] # "idle" => req'[d] = req[d] /\ pc'[d] = pc[d])
  BY <1>1, ArriveOthers
<1>2. ASSUME NEW c \in Call, Handle(c)
      PROVE  /\ req'[d] = req[d] /\ (pc[d] # "idle" => pc'[d] # "idle")
             /\ result'[d] = result[d] \/ Registered(d)
  <2>1. CASE c # d
    BY <1>2, <2>1, HandleOthers
  <2>2. CASE c = d
    <3>1. UNCHANGED result \/ Registered(c)
      BY <1>2 DEF Handle, TurnedAway, Guard, Enter, Throws, HandlerTimeout,
         ProfileCreated, Compensate, Compensated, LoggedIn, Served, PasswordChanged, Blacklist,
         BlacklistFails, ProfileFound, Deactivated
    <3> QED BY <1>2, <2>2, <3>1, HandleKeeps, HandleMoves DEF Frame
  <2> QED BY <2>1, <2>2
<1>3. ASSUME NEW m \in Sent, Works(m)
      PROVE  UNCHANGED <<pc, req, result>>
  BY <1>3, WorkKeeps
<1>4. CASE WorkerRestart \/ GatewayRestart \/ Tick
  BY <1>0, <1>4 DEF WorkerRestart, GatewayRestart, Tick
<1>5. ASSUME result[d] \in Token
      PROVE  ~Registered(d)
  BY <1>0, <1>5 DEF Registered, Replied
<1>6. CASE UNCHANGED vars
  BY <1>6 DEF vars
<1> QED BY <1>0, <1>1, <1>2, <1>3, <1>4, <1>5, <1>6, StepKinds

-----------------------------------------------------------------------------
(* What the steps do to an account, its profile and its registrant         *)

(* Only DEACTIVATE makes a usable account anything else.                   *)
LEMMA UsableStep ==
  ASSUME RegistrationInvariant, [Next]_vars, NEW u \in User, account'[u].email # NoEmail
  PROVE  StaysUsable(u)'
<1>0. /\ TypeOK /\ RemovalOrder
      /\ account[u].email # NoEmail => StaysUsable(u)
      /\ \A w \in running : LoadedActive(w)
  BY DEF RegistrationInvariant, RemovalInvariant
<1>1. CASE Asked("DEACTIVATE", u)
  BY <1>0, <1>1, AskedStays DEF StaysUsable
<1> SUFFICES ASSUME ~Asked("DEACTIVATE", u)
             PROVE  Usable(u)'
  BY <1>1 DEF StaysUsable
<1>2. account[u].email # NoEmail => account[u].active /\ ~account[u].deleted
  BY <1>0 DEF StaysUsable, Usable, Visible
<1>3. CASE account'[u] = account[u]
  BY <1>2, <1>3 DEF Usable, Visible
<1>4. ASSUME NEW m \in queue, RunRegister(m)  PROVE Usable(u)'
  <2>1. CASE UNCHANGED account
    BY <1>3, <2>1
  <2>2. ASSUME NEW v \in User, account'[v].active = TRUE, account'[v].deleted = FALSE,
               \A x \in User \ {v} : account'[x] = account[x]
        PROVE  Usable(u)'
    BY <1>3, <2>2 DEF Usable, Visible
  <2> QED BY <1>0, <1>4, <2>1, <2>2, RegisterEffect
<1>5. ASSUME NEW w \in running, SaveAccount(w)  PROVE Usable(u)'
  <2>1. CASE u # w.m.user
    BY <1>0, <1>3, <1>5, <2>1, SaveEffect
  <2>2. CASE u = w.m.user
    <3>1. w.m \in Sent /\ w.m.pattern = "CHANGE_PASSWORD"
      BY <1>5, <2>2 DEF SaveAccount, Sent, Asked
    <3>2. w.active
      BY <1>0, <2>2, <3>1 DEF LoadedActive
    <3>3. /\ account'[u].email = account[u].email
          /\ account'[u].active \in {account[u].active, w.active}
          /\ account'[u].deleted => account[u].deleted
      BY <1>0, <1>5, SaveEffect
    <3>4. account[u].email # NoEmail /\ account[u].active /\ ~account[u].deleted
      BY <1>2, <3>3
    <3>5. account'[u].active
      BY <3>2, <3>3, <3>4
    <3> QED BY <3>3, <3>4, <3>5 DEF Usable, Visible
  <2> QED BY <2>1, <2>2
<1>6. ASSUME NEW w \in running, SoftRemove(w)  PROVE Usable(u)'
  <2>1. u # w.m.user
    BY <1>6 DEF SoftRemove, Sent, Asked
  <2> QED BY <1>0, <1>3, <1>6, <2>1, SoftRemoveEffect
<1>7. ASSUME NEW w, SaveProfile(w) \/ RemoveProfile(w) \/ RunCreateProfile(w)
      PROVE  UNCHANGED account
  BY <1>7 DEF SaveProfile, RemoveProfile, RunCreateProfile
<1> QED BY <1>3, <1>4, <1>5, <1>6, <1>7, RowSteps DEF rows

(* A change of password loads a usable account, or one DEACTIVATE was sent *)
(* for.                                                                    *)
LEMMA LoadedStep ==
  ASSUME RegistrationInvariant, [Next]_vars, NEW w \in running'
  PROVE  LoadedActive(w)'
<1>0. /\ TypeOK /\ RemovalOrder
      /\ \A u \in User : account[u].email # NoEmail => StaysUsable(u)
      /\ \A v \in running : LoadedActive(v)
  BY DEF RegistrationInvariant, RemovalInvariant
<1>1. ASSUME NEW v \in running, w.m = v.m, w.active = v.active  PROVE LoadedActive(w)'
  BY <1>0, <1>1, AskedStays DEF LoadedActive
<1>2. ASSUME NEW m \in Sent, Works(m)  PROVE LoadedActive(w)'
  <2>1. ASSUME w.m = m, m.pattern = "CHANGE_PASSWORD", Visible(m.user),
               w.active = account[m.user].active
        PROVE  LoadedActive(w)'
    <3>1. m.user \in User
      BY <1>0, <2>1 DEF RemovalOrder, MessageInOrder
    <3>2. account[m.user].active \/ Asked("DEACTIVATE", m.user)
      BY <1>0, <2>1, <3>1 DEF Visible, StaysUsable, Usable
    <3> QED BY <1>0, <2>1, <3>2, AskedStays DEF LoadedActive
  <2>2. CASE w.m.pattern # "CHANGE_PASSWORD"
    BY <2>2 DEF LoadedActive
  <2> QED BY <1>0, <1>1, <1>2, <2>1, <2>2, LoadEffect
<1>3. CASE w \in running
  BY <1>1, <1>3
<1>4. ASSUME NEW c \in Call, Arrive(c) \/ Handle(c)  PROVE running' = running
  BY <1>0, <1>4, ArriveOthers, HandleKeeps DEF Frame
<1>5. ASSUME WorkerRestart \/ GatewayRestart \/ Tick \/ UNCHANGED vars
      PROVE  running' \subseteq running
  BY <1>5, EnvironmentSent
<1> QED BY <1>0, <1>2, <1>3, <1>4, <1>5, StepKinds

(* Only REMOVE takes a profile away and leaves none.                       *)
LEMMA KeptStep ==
  ASSUME TypeOK, RemovalOrder, [Next]_vars, NEW u \in User, StaysKept(u)
  PROVE  StaysKept(u)'
<1>1. CASE Asked("REMOVE", u)
  BY <1>1, AskedStays DEF StaysKept
<1> SUFFICES ASSUME ~Asked("REMOVE", u), profile[u].kept # 0
             PROVE  profile'[u].kept # 0
  BY <1>1 DEF StaysKept
<1>2. CASE profile'[u] = profile[u]
  BY <1>2
<1>3. ASSUME NEW m \in queue, RunCreateProfile(m)  PROVE profile'[u].kept # 0
  BY <1>3 DEF RunCreateProfile, TypeOK, WorldOK
<1>4. ASSUME NEW w \in running, SaveProfile(w)  PROVE profile'[u].kept # 0
  <2>1. w.row # 0
    BY <1>4 DEF SaveProfile, RemovalOrder, WorkInOrder
  <2> QED BY <1>4, <2>1 DEF SaveProfile, TypeOK, WorldOK
<1>5. ASSUME NEW w \in running, RemoveProfile(w)  PROVE profile'[u] = profile[u]
  <2>1. w.m.user # u
    BY <1>5 DEF RemoveProfile, Sent, Asked
  <2> QED BY <1>5, <2>1 DEF RemoveProfile, TypeOK, WorldOK
<1>6. ASSUME NEW w, RunRegister(w) \/ SaveAccount(w) \/ SoftRemove(w)
      PROVE  UNCHANGED profile
  BY <1>6 DEF RunRegister, SaveAccount, SoftRemove, rows
<1> QED BY <1>2, <1>3, <1>4, <1>5, <1>6, RowSteps DEF rows

(* REGISTER gives an account nobody had.                                   *)
LEMMA RegistrantStep ==
  ASSUME TypeOK, PayloadsOK, RemovalOrder, [Next]_vars, NEW c \in Call, RegisterStage(c),
         NEW u \in User, Registrant(c, u)', ~Registrant(c, u)
  PROVE  /\ account[u].email = NoEmail /\ account'[u].email # NoEmail
         /\ \A d \in Call \ {c} : reply'[d] = reply[d] /\ result'[d] = result[d]
         /\ UNCHANGED pc
<1>1. CASE pc'[c] = "REGISTER" /\ reply'[c].status = "ok" /\ reply'[c].token.user = u
  <2>1. ~(reply'[c] = reply[c] /\ pc'[c] = pc[c])
    BY <1>1 DEF Registrant, Replied
  <2>2. ASSUME NEW d \in Call, Arrive(d)  PROVE FALSE
    BY <1>1, <2>1, <2>2, ArriveOthers DEF NoReply
  <2>3. ASSUME NEW d \in Call, Handle(d)  PROVE FALSE
    BY <1>1, <2>1, <2>3, HandleMoves, HandleOthers
  <2>4. ASSUME WorkerRestart \/ GatewayRestart \/ Tick \/ UNCHANGED vars  PROVE FALSE
    BY <1>1, <2>1, <2>4 DEF WorkerRestart, GatewayRestart, Tick, vars, NoReply
  <2>5. PICK m \in Sent : Works(m)
    BY <2>2, <2>3, <2>4, StepKinds
  <2>6. UNCHANGED <<pc, result>>
    BY <2>5, WorkKeeps
  <2>7. reply'[c] # reply[c]
    BY <2>1, <2>6
  <2>8. c = m.by /\ m.pattern = "REGISTER" /\ RunRegister(m)
    BY <1>1, <2>5, <2>6, <2>7, WorkAnswers
  <2>9. \A d \in Call \ {c} : reply'[d] = reply[d]
    BY <2>5, <2>8, WorkAnswers
  <2>10. ~Run(m, "refused", NoToken)
    BY <1>1, <2>7, RunReply
  <2>11. PICK v \in User :
           /\ account[v].email = NoEmail /\ Run(m, "ok", AccessToken(v))
           /\ account'[v].email = req[m.by].email
    BY <2>8, <2>10, RegisterEffect
  <2>12. reply'[c].token = AccessToken(v)
    BY <2>7, <2>11, RunReply
  <2>13. v = u
    BY <1>1, <2>12 DEF AccessToken
  <2>14. req[m.by].email # NoEmail
    BY <2>5, <2>8 DEF RemovalOrder, MessageInOrder
  <2> QED BY <2>6, <2>9, <2>11, <2>13, <2>14
<1>2. CASE result'[c] \in Token /\ result'[c].user = u
  <2>1. CASE result'[c] = result[c]
    BY <1>2, <2>1 DEF Registrant
  <2>2. CASE Registered(c)
    <3>1. result'[c] = reply[c].token /\ Replied(c, "REGISTER", "ok")
      BY <2>2 DEF Registered, TypeOK, RequestsOK
    <3> QED BY <1>2, <3>1 DEF Registrant
  <2> QED BY <2>1, <2>2, RequestStays
<1> QED BY <1>1, <1>2 DEF Registrant, Replied

-----------------------------------------------------------------------------
(* The stages of register                                                  *)

(* What was kept for a registered account stays kept.                      *)
LEMMA ResultKept ==
  ASSUME TypeOK, RemovalOrder, [Next]_vars, NEW d \in Call, result[d] \in Token,
         StaysKept(result[d].user), result'[d] = result[d]
  PROVE  StaysKept(result[d].user)'
<1>1. PICK u \in User : u = result[d].user
  BY DEF Token
<1>2. StaysKept(u)'
  BY <1>1, KeptStep
<1>3. u = result'[d].user
  BY <1>1
<1> QED BY <1>2, <1>3 DEF StaysKept, Asked

LEMMA SameStage ==
  ASSUME TypeOK, PayloadsOK, RemovalOrder, [Next]_vars, NEW d \in Call, RegisterStage(d),
         pc'[d] = pc[d], req'[d] = req[d], reply'[d] = reply[d], result'[d] = result[d],
         answer'[d] = "ok" => answer[d] = "ok"
  PROVE  RegisterStage(d)'
<1>1. Replied(d, "CREATE_PROFILE", "ok") => result[d] \in Token
  BY DEF PayloadsOK, PayloadOK, Replied
<1> QED BY <1>1, ResultKept DEF RegisterStage, Replied

LEMMA HandleStage ==
  ASSUME RegistrationInvariant, NEW c \in Call, Handle(c)
  PROVE  RegisterStage(c)'
<1>0. /\ TypeOK /\ PayloadsOK /\ RemovalOrder /\ RegisterStage(c) /\ [Next]_vars
      /\ UNCHANGED req /\ pc'[c] # "idle" /\ pc[c] # "done" /\ answer[c] # "ok"
      /\ answer'[c] = "ok" => pc'[c] = "done"
  BY HandleKeeps, HandleMoves, HandleEnds
     DEF Frame, RegisterStage, RegistrationInvariant, RemovalInvariant, Next
<1>1. CASE req[c].op # "register"
  <2>1. UNCHANGED result /\ pc'[c] \notin {"REGISTER", "CREATE_PROFILE"}
    BY <1>0, <1>1, OthersAct
  <2> QED BY <1>0, <1>1, <2>1 DEF RegisterStage, Replied
<1>2. ASSUME req[c].op = "register", NEW s, End(c, s), s # "ok"
      PROVE  RegisterStage(c)'
  <2>1. pc'[c] = "done" /\ answer'[c] # "ok"
    BY <1>0, <1>2 DEF End, TypeOK, RequestsOK
  <2> QED BY <1>0, <1>2, <2>1 DEF RegisterStage, Replied
<1>3. ASSUME NEW p \in {"CREATE_PROFILE", "DEACTIVATE"}, NEW u, Await(c, p, u)
      PROVE  RegisterStage(c)'
  <2>1. pc'[c] = p /\ reply'[c] = NoReply /\ answer'[c] # "ok"
    BY <1>0, <1>3 DEF Await, TypeOK, RequestsOK
  <2> QED BY <1>0, <2>1 DEF RegisterStage, Replied, NoReply
<1>4. CASE req[c].op = "register"
  <2>1. CASE Throws(c) /\ pc[c] = "REGISTER"
    BY <1>2, <1>4, <2>1 DEF Throws, Errors
  <2>2. CASE HandlerTimeout(c)
    <3>1. answer'[c] = "late" /\ UNCHANGED <<pc, reply, result>>
      BY <1>0, <2>2 DEF HandlerTimeout, TypeOK, RequestsOK
    <3> QED BY <1>0, <3>1, SameStage
  <2>3. CASE Registered(c)
    BY <1>3, <2>3 DEF Registered
  <2>4. CASE ProfileCreated(c)
    <3>1. result[c] \in Token /\ StaysKept(result[c].user) /\ UNCHANGED result
      BY <1>0, <2>4 DEF ProfileCreated, PayloadsOK, PayloadOK, RegisterStage, Replied
    <3>2. pc'[c] = "done"
      BY <1>0, <2>4 DEF ProfileCreated, End, TypeOK, RequestsOK
    <3>3. StaysKept(result[c].user)'
      BY <1>0, <3>1, ResultKept
    <3> QED BY <1>0, <3>1, <3>2, <3>3 DEF RegisterStage, Replied
  <2>5. CASE Compensate(c)
    BY <1>3, <2>5 DEF Compensate
  <2>6. CASE Compensated(c)
    BY <1>2, <1>4, <2>6 DEF Compensated
  <2> QED BY <1>0, <1>4, <2>1, <2>2, <2>3, <2>4, <2>5, <2>6, RegisterActs
<1> QED BY <1>1, <1>4

LEMMA WorkStage ==
  ASSUME RegistrationInvariant, NEW m \in Sent, Works(m), NEW d \in Call
  PROVE  RegisterStage(d)'
<1>0. /\ TypeOK /\ PayloadsOK /\ RemovalOrder /\ RegisterStage(d) /\ RegisterMessage(m)
      /\ [Next]_vars
  BY DEF RegistrationInvariant, RemovalInvariant, Works, Next
<1>1. UNCHANGED <<pc, req, result, answer>>
  BY <1>0, WorkKeeps
<1>2. result[d] \in Token /\ StaysKept(result[d].user) => StaysKept(result[d].user)'
  BY <1>0, <1>1, ResultKept
<1>3. Replied(d, "CREATE_PROFILE", "ok") => result[d] \in Token
  BY <1>0 DEF PayloadsOK, PayloadOK, Replied
<1>4. Replied(d, "CREATE_PROFILE", "ok")' => StaysKept(result[d].user)'
  <2>1. CASE reply'[d] = reply[d]
    BY <1>0, <1>1, <1>2, <1>3, <2>1 DEF RegisterStage, Replied
  <2>2. CASE reply'[d] # reply[d]
    <3> SUFFICES ASSUME Replied(d, "CREATE_PROFILE", "ok")'
                 PROVE  StaysKept(result[d].user)'
      OBVIOUS
    <3>1. d = m.by /\ RunCreateProfile(m)
      BY <1>0, <1>1, <2>2, WorkAnswers DEF Replied
    <3>2. m.user = result'[d].user /\ m.user \in User
      BY <1>0, <1>1, <3>1 DEF RegisterMessage, RunCreateProfile, Token
    <3>3. profile'[m.user].kept # 0
      BY <1>0, <3>1, <3>2 DEF RunCreateProfile, TypeOK, WorldOK
    <3> QED BY <3>2, <3>3 DEF StaysKept
  <2> QED BY <2>1, <2>2
<1> QED BY <1>0, <1>1, <1>2, <1>4 DEF RegisterStage, Replied

LEMMA StageStep ==
  ASSUME RegistrationInvariant, [Next]_vars, NEW d \in Call
  PROVE  RegisterStage(d)'
<1>0. TypeOK /\ PayloadsOK /\ RemovalOrder /\ RegisterStage(d)
  BY DEF RegistrationInvariant, RemovalInvariant
<1>2. ASSUME pc'[d] = pc[d], req'[d] = req[d], reply'[d] = reply[d], result'[d] = result[d],
             answer'[d] = "ok" => answer[d] = "ok"
      PROVE  RegisterStage(d)'
  BY <1>0, <1>2, SameStage
<1>3. ASSUME NEW c \in Call, Arrive(c)
      PROVE  RegisterStage(d)'
  <2>1. CASE c # d
    BY <1>0, <1>2, <1>3, <2>1, ArriveOthers
  <2>2. CASE c = d
    <3>1. /\ pc[d] = "idle" /\ pc'[d] \in {"REGISTER", "LOGIN", "guard"}
          /\ UNCHANGED <<answer, result>> /\ (req'[d].op = "register" => pc'[d] = "REGISTER")
      BY <1>0, <1>3, <2>2, ArriveOthers
    <3> QED BY <1>0, <3>1 DEF RegisterStage, Replied
  <2> QED BY <2>1, <2>2
<1>4. ASSUME NEW c \in Call, Handle(c)
      PROVE  RegisterStage(d)'
  <2>1. CASE c # d
    BY <1>0, <1>2, <1>4, <2>1, HandleOthers, HandleAnswers
  <2>2. CASE c = d
    BY <1>4, <2>2, HandleStage
  <2> QED BY <2>1, <2>2
<1>5. ASSUME NEW m \in Sent, Works(m)
      PROVE  RegisterStage(d)'
  BY <1>5, WorkStage
<1>6. CASE WorkerRestart \/ Tick \/ UNCHANGED vars
  BY <1>2, <1>6 DEF WorkerRestart, Tick, vars
<1>7. CASE GatewayRestart
  <2>1. /\ pc'[d] = (IF pc[d] = "idle" THEN "idle" ELSE "done")
        /\ answer'[d] = "ok" => answer[d] = "ok"
        /\ UNCHANGED <<req, result>>
    BY <1>7 DEF GatewayRestart
  <2>2. result[d] \in Token /\ StaysKept(result[d].user) => StaysKept(result[d].user)'
    BY <1>0, <2>1, ResultKept
  <2> QED BY <1>0, <2>1, <2>2 DEF RegisterStage, Replied
<1> QED BY <1>0, <1>3, <1>4, <1>5, <1>6, <1>7, StepKinds

-----------------------------------------------------------------------------
(* The messages of register                                                *)

(* A register that compensates never comes to answer 201.                  *)
LEMMA CompensationStays ==
  ASSUME TypeOK, [Next]_vars, NEW c \in Call, RegisterStage(c), req[c].op = "register",
         pc[c] \in {"DEACTIVATE", "done"}, answer[c] # "ok"
  PROVE  pc'[c] \in {"DEACTIVATE", "done"} /\ answer'[c] # "ok"
<1>1. ASSUME NEW d \in Call, Arrive(d)
      PROVE  pc'[c] = pc[c] /\ answer'[c] = answer[c]
  BY <1>1, ArriveOthers
<1>2. ASSUME NEW d \in Call, Handle(d), d # c
      PROVE  pc'[c] = pc[c] /\ answer'[c] = answer[c]
  BY <1>2, HandleOthers, HandleAnswers
<1>3. CASE Handle(c)
  <2>1. HandlerTimeout(c) \/ Compensated(c)
    BY <1>3, RegisterActs DEF Registered, ProfileCreated, Compensate, Replied
  <2> QED BY <2>1 DEF HandlerTimeout, Compensated, End, TypeOK, RequestsOK
<1>4. ASSUME NEW m \in Sent, Works(m)
      PROVE  UNCHANGED <<pc, answer>>
  BY <1>4, WorkKeeps
<1>5. CASE WorkerRestart \/ GatewayRestart \/ Tick \/ UNCHANGED vars
  BY <1>5 DEF WorkerRestart, GatewayRestart, Tick, vars
<1> QED BY <1>1, <1>2, <1>3, <1>4, <1>5, StepKinds

LEMMA SentByRegister ==
  ASSUME RegistrationInvariant, NEW c \in Call, Handle(c), NEW m \in queue' \ queue
  PROVE  RegisterMessage(m)'
<1>0. /\ TypeOK /\ PayloadsOK /\ RemovalOrder /\ RegisterStage(c) /\ PayloadOK(c)
      /\ UNCHANGED req
  BY HandleKeeps DEF RegistrationInvariant, RemovalInvariant, PayloadsOK, Frame
<1>1. m.by = c
  BY <1>0, HandleSends
<1>2. CASE req[c].op # "register"
  BY <1>0, <1>1, <1>2, OthersAct DEF RegisterMessage, Compensates
<1>3. CASE req[c].op = "register"
  <2>1. CASE Registered(c)
    <3>1. m.pattern = "CREATE_PROFILE" /\ m.user = reply[c].token.user
      BY <2>1 DEF Registered, Await
    <3>2. result'[c] = reply[c].token /\ reply[c].token \in Token
      BY <1>0, <2>1 DEF Registered, Replied, PayloadOK, TypeOK, RequestsOK
    <3> QED BY <1>1, <3>1, <3>2 DEF RegisterMessage, Compensates
  <2>2. CASE Compensate(c)
    <3>1. m.pattern = "DEACTIVATE" /\ m.user = result[c].user /\ UNCHANGED <<answer, result>>
      BY <2>2 DEF Compensate, Await
    <3>2. result[c] \in Token /\ answer[c] # "ok" /\ pc'[c] = "DEACTIVATE"
      BY <1>0, <2>2 DEF Compensate, Await, PayloadOK, RegisterStage, TypeOK, RequestsOK
    <3> QED BY <1>0, <1>1, <1>3, <3>1, <3>2 DEF RegisterMessage, Compensates
  <2>3. ~(HandlerTimeout(c) \/ ProfileCreated(c) \/ Compensated(c) \/ Throws(c))
    BY DEF HandlerTimeout, ProfileCreated, Compensated, Throws, End
  <2> QED BY <1>0, <1>3, <2>1, <2>2, <2>3, RegisterActs
<1> QED BY <1>2, <1>3

LEMMA RegisterMessageStep ==
  ASSUME RegistrationInvariant, [Next]_vars, NEW m \in Sent'
  PROVE  RegisterMessage(m)'
<1>0. /\ TypeOK /\ PayloadsOK
      /\ \A c \in Call : RegisterStage(c)
      /\ \A n \in Sent : RegisterMessage(n) /\ pc[n.by] # "idle"
  BY DEF RegistrationInvariant, RemovalInvariant, RemovalOrder, MessageInOrder
<1>1. CASE m \in Sent
  <2> DEFINE c == m.by
  <2>0. c \in Call
    BY <1>0, <1>1, SentType DEF Message
  <2>1. /\ RegisterStage(c) /\ RegisterMessage(m)
        /\ req'[c] = req[c] /\ (result[c] \in Token => result'[c] = result[c])
    BY <1>0, <1>1, <2>0, RequestStays
  <2>2. Compensates(m) => pc'[c] \in {"DEACTIVATE", "done"} /\ answer'[c] # "ok"
    BY <1>0, <2>0, <2>1, CompensationStays DEF Compensates, RegisterMessage
  <2> QED BY <2>1, <2>2 DEF RegisterMessage, Compensates
<1>2. CASE m \notin Sent
  <2>1. ASSUME NEW c \in Call, Arrive(c)
        PROVE  RegisterMessage(m)'
    <3>1. m.pattern \in {"REGISTER", "LOGIN"}
      BY <1>0, <1>2, <2>1, ArriveOthers DEF Sent
    <3> QED BY <3>1 DEF RegisterMessage, Compensates
  <2>2. ASSUME NEW c \in Call, Handle(c)
        PROVE  RegisterMessage(m)'
    <3>1. m \in queue' \ queue
      BY <1>2, <2>2, HandleKeeps DEF Sent, Frame
    <3> QED BY <2>2, <3>1, SentByRegister
  <2>3. ASSUME NEW n \in Sent, Works(n)
        PROVE  FALSE
    BY <1>0, <1>2, <2>3, WorkKeeps
  <2>4. CASE WorkerRestart \/ GatewayRestart \/ Tick \/ UNCHANGED vars
    BY <1>2, <2>4, EnvironmentSent
  <2> QED BY <1>0, <2>1, <2>2, <2>3, <2>4, StepKinds
<1> QED BY <1>1, <1>2

-----------------------------------------------------------------------------
(* An account of one's own                                                 *)

LEMMA ApartStep ==
  ASSUME RegistrationInvariant, [Next]_vars
  PROVE  AccountsApart'
<1>0. /\ TypeOK /\ PayloadsOK /\ RemovalOrder /\ AccountsApart
      /\ \A c \in Call : RegisterStage(c)
  BY DEF RegistrationInvariant, RemovalInvariant
<1>1. ASSUME NEW c \in Call, NEW d \in Call, NEW u \in User, c # d,
             Registrant(c, u)', Registrant(d, u)', ~Registrant(c, u)
      PROVE  FALSE
  <2>1. /\ account[u].email = NoEmail /\ UNCHANGED pc
        /\ reply'[d] = reply[d] /\ result'[d] = result[d]
    BY <1>0, <1>1, RegistrantStep
  <2>2. Registrant(d, u)
    BY <1>1, <2>1 DEF Registrant, Replied
  <2> QED BY <1>0, <2>1, <2>2 DEF AccountsApart
<1>2. ASSUME NEW c \in Call, NEW d \in Call, NEW u \in User, Registrant(c, u)', Registrant(d, u)'
      PROVE  c = d
  BY <1>0, <1>1, <1>2 DEF AccountsApart
<1>3. ASSUME NEW c \in Call, NEW u \in User, Registrant(c, u)'
      PROVE  account'[u].email # NoEmail
  <2>1. CASE Registrant(c, u)
    BY <1>0, <2>1, AccountStays DEF AccountsApart
  <2>2. CASE ~Registrant(c, u)
    BY <1>0, <1>3, <2>2, RegistrantStep
  <2> QED BY <2>1, <2>2
<1> QED BY <1>2, <1>3 DEF AccountsApart

-----------------------------------------------------------------------------
(* The theorem                                                             *)

LEMMA RegistrationInit ==
  ASSUME Init
  PROVE  RegistrationInvariant
<1>1. RemovalInvariant
  BY RemovalInit
<1>2. /\ Sent = {} /\ running = {}
      /\ \A c \in Call : /\ pc[c] = "idle" /\ req[c] = NoRequest /\ result[c] = NoToken
                         /\ answer[c] = "none"
      /\ \A u \in User : account[u].active /\ ~account[u].deleted
  BY DEF Init, Sent
<1>3. ASSUME NEW c \in Call
      PROVE  RegisterStage(c) /\ \A u \in User : ~Registrant(c, u)
  BY <1>2, NullAssumption DEF RegisterStage, Registrant, Replied, NoRequest
<1> QED BY <1>1, <1>2, <1>3
     DEF RegistrationInvariant, AccountsApart, StaysUsable, Usable, Visible

LEMMA RegistrationStep ==
  ASSUME RegistrationInvariant, [Next]_vars
  PROVE  RegistrationInvariant'
<1>1. RemovalInvariant'
  BY RemovalStep DEF RegistrationInvariant
<1>2. \A u \in User : account'[u].email # NoEmail => StaysUsable(u)'
  BY UsableStep
<1>3. \A w \in running' : LoadedActive(w)'
  BY LoadedStep
<1>4. \A c \in Call : RegisterStage(c)'
  BY StageStep
<1>5. \A m \in Sent' : RegisterMessage(m)'
  BY RegisterMessageStep
<1> QED BY <1>1, <1>2, <1>3, <1>4, <1>5, ApartStep DEF RegistrationInvariant

(* 201 means a usable account: its profile is kept unless REMOVE was sent  *)
(* for it, the account is usable unless an admin's DELETE deactivates it,  *)
(* and no compensation of the request was ever sent, whatever calls timed  *)
(* out, came late, ran again or saved what they had loaded before.         *)
THEOREM RegisteredStaysUsable == Spec => []RegisteredIsUsable
<1>1. ASSUME RegistrationInvariant  PROVE RegisteredIsUsable
  <2> SUFFICES ASSUME NEW c \in Call, req[c].op = "register", answer[c] = "ok"
               PROVE  LET u == result[c].user IN
                      /\ profile[u].kept # 0 \/ Asked("REMOVE", u)
                      /\ Usable(u) \/ Deleting(u)
                      /\ [by |-> c, pattern |-> "DEACTIVATE", user |-> u] \notin Sent
    BY DEF RegisteredIsUsable
  <2> DEFINE u == result[c].user
  <2>1. /\ result[c] \in Token /\ StaysKept(u) /\ u \in User
        /\ AccountsApart /\ \A m \in Sent : RegisterMessage(m)
        /\ TypeOK
    BY <1>1 DEF RegistrationInvariant, RemovalInvariant, RegisterStage, Token
  <2>2. Registrant(c, u)
    BY <2>1 DEF Registrant
  <2>3. StaysUsable(u)
    BY <1>1, <2>1, <2>2 DEF RegistrationInvariant, AccountsApart
  <2>4. ASSUME NEW m \in Sent, m.pattern = "DEACTIVATE", m.user = u
        PROVE  req[m.by].op = "remove" /\ m.by # c
    <3>1. m.by \in Call /\ req[m.by].op \in {"register", "remove"}
      BY <2>1, <2>4, SentType DEF Message, RegisterMessage
    <3>2. ASSUME Compensates(m)  PROVE FALSE
      <4>1. Registrant(m.by, u) /\ answer[m.by] # "ok"
        BY <2>1, <2>4, <3>2 DEF RegisterMessage, Registrant
      <4> QED BY <2>1, <2>2, <3>1, <4>1 DEF AccountsApart
    <3> QED BY <2>4, <3>1, <3>2 DEF Compensates
  <2>5. Usable(u) \/ Deleting(u)
    BY <2>3, <2>4 DEF StaysUsable, Asked, Deleting
  <2>6. [by |-> c, pattern |-> "DEACTIVATE", user |-> u] \notin Sent
    BY <2>4
  <2> QED BY <2>1, <2>5, <2>6 DEF StaysKept
<1>2. RegistrationInvariant /\ [Next]_vars => RegistrationInvariant'
  BY RegistrationStep
<1>3. RegistrationInvariant => RegisteredIsUsable
  BY <1>1
<1> QED BY <1>2, <1>3, RegistrationInit, PTL DEF Spec

=============================================================================
