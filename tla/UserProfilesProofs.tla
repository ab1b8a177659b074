------------------------ MODULE UserProfilesProofs ------------------------
(***************************************************************************)
(* UserProfiles for any requests, accounts, columns and restarts: typing,  *)
(* one kept profile per account, createProfile answers one profile and     *)
(* loses no race, and updates in turn add up.                              *)
(***************************************************************************)
EXTENDS UserProfiles, FiniteSetTheorems, TLAPS

-----------------------------------------------------------------------------
(* Typing                                                                  *)

LEMMA RowTypes ==
  /\ BlankRow \in Row
  /\ \A row \in Row, e \in Row, columns \in SUBSET Column : Written(row, e, columns) \in Row
BY SeedAssumption DEF BlankRow, Row, Written, Fields

LEMMA PayloadType ==
  ASSUME NEW q \in Request \cup {NoRequest}
  PROVE  /\ q.op \in {"create", "remove", "find", "update"} => q \in Request /\ q.user \in UserId
         /\ q.op = "update" => q.patch \in [Field -> Value \cup {NoValue}]
BY DEF Request, NoRequest

LEMMA PatchedType ==
  ASSUME NEW fields \in Fields, NEW patch \in [Field -> Value \cup {NoValue}]
  PROVE  Patched(fields, patch) \in Fields
BY DEF Patched, Fields

LEMMA KeptIsRow ==
  ASSUME NEW u, NEW r \in KeptRows(u)
  PROVE  r \in RowId /\ profiles[r].life = "kept" /\ profiles[r].user = u
BY DEF KeptRows, Kept

LEMMA FinishType ==
  ASSUME TypeOK, NEW c \in Call, NEW s \in {"ok", "notFound", "clash", "failed"},
         NEW r \in RowId \cup {NoRow}, Finish(c, s, r), profiles' \in [RowId -> Row],
         UNCHANGED <<req, env>>
  PROVE  TypeOK'
BY RowTypes DEF TypeOK, Finish, Reply, env

LEMMA ProceedType ==
  ASSUME TypeOK, NEW c \in Call, Proceed(c, "start") \/ Proceed(c, "insert")
           \/ Proceed(c, "clashed") \/ Proceed(c, "refused") \/ Proceed(c, "write"),
         UNCHANGED <<profiles, held, ent>>, diff' \in [Call -> SUBSET Column],
         req' \in [Call -> Request \cup {NoRequest}], before' \in [Call -> SUBSET Call],
         crashes' = crashes
  PROVE  TypeOK'
BY DEF TypeOK, Proceed

LEMMA HoldType ==
  ASSUME TypeOK, NEW c \in Call, NEW s \in {"save", "remove"}, NEW r \in RowId, NEW e \in Row,
         Hold(c, r, e), Proceed(c, s), UNCHANGED <<profiles, req, env>>
  PROVE  TypeOK'
BY DEF TypeOK, Proceed, Hold, env

LEMMA ActionType ==
  ASSUME TypeOK, NEW c \in Call, Send(c) \/ Handle(c) \/ StatementFails(c)
  PROVE  TypeOK'
<1>0. /\ profiles \in [RowId -> Row] /\ req[c] \in Request \cup {NoRequest}
      /\ held[c] \in RowId \cup {NoRow} /\ ent[c] \in Row /\ diff \in [Call -> SUBSET Column]
      /\ req \in [Call -> Request \cup {NoRequest}] /\ before \in [Call -> SUBSET Call]
  BY DEF TypeOK
<1>1. CASE Send(c)
  <2>1. req' \in [Call -> Request \cup {NoRequest}] /\ before' \in [Call -> SUBSET Call]
    BY <1>0, <1>1 DEF Send
  <2> QED BY <1>0, <1>1, <2>1, ProceedType DEF Send, heap
<1>2. CASE CreateFind(c)
  <2>1. CASE \E r \in KeptRows(req[c].user) : Finish(c, "ok", r)
    BY <1>0, <1>2, <2>1, FinishType, KeptIsRow DEF CreateFind
  <2>2. CASE Proceed(c, "insert") /\ UNCHANGED heap
    BY <1>0, <1>2, <2>2, ProceedType DEF CreateFind, heap, env
  <2> QED BY <1>2, <2>1, <2>2 DEF CreateFind
<1>3. CASE CreateInsert(c)
  <2>1. CASE Proceed(c, "clashed") /\ UNCHANGED <<profiles, heap>>
    BY <1>0, <1>3, <2>1, ProceedType DEF CreateInsert, heap, env
  <2>2. ASSUME NEW r \in RowId,
               profiles' = [profiles EXCEPT ![r] =
                 [user |-> req[c].user, fields |-> Initial, life |-> "kept"]],
               Finish(c, "ok", r)
        PROVE  TypeOK'
    <3>1. req[c].user \in UserId
      BY <1>0, <1>3, PayloadType DEF CreateInsert, At
    <3>2. profiles' \in [RowId -> Row]
      BY <1>0, <2>2, <3>1, SeedAssumption DEF Row
    <3> QED BY <1>3, <2>2, <3>2, FinishType DEF CreateInsert
  <2> QED BY <1>3, <2>1, <2>2 DEF CreateInsert
<1>4. CASE CreateAgain(c)
  BY <1>0, <1>4, FinishType, KeptIsRow DEF CreateAgain
<1>5. CASE UpdateFind(c)
  <2>1. CASE Finish(c, "notFound", NoRow)
    BY <1>0, <1>5, <2>1, FinishType DEF UpdateFind
  <2>2. ASSUME NEW r \in KeptRows(req[c].user),
               Hold(c, r, [profiles[r] EXCEPT !.fields = Patched(@, req[c].patch)]),
               Proceed(c, "save")
        PROVE  TypeOK'
    <3>1. r \in RowId /\ profiles[r] \in Row /\ profiles[r].fields \in Fields
      BY <1>0, KeptIsRow DEF Row
    <3>2. Patched(profiles[r].fields, req[c].patch) \in Fields
      BY <1>0, <1>5, <3>1, PayloadType, PatchedType DEF UpdateFind, At
    <3>3. [profiles[r] EXCEPT !.fields = Patched(@, req[c].patch)] \in Row
      BY <3>1, <3>2 DEF Row
    <3> QED BY <1>5, <2>2, <3>1, <3>3, HoldType DEF UpdateFind
  <2> QED BY <1>5, <2>1, <2>2 DEF UpdateFind
<1>6. CASE SaveDiff(c)
  <2>1. diff' \in [Call -> SUBSET Column]
    BY <1>0, <1>6 DEF SaveDiff, Column
  <2> QED BY <1>0, <1>6, <2>1, ProceedType DEF SaveDiff, env
<1>7. CASE SaveWrite(c)
  <2>1. CASE /\ profiles' = [profiles EXCEPT ![held[c]] = Written(profiles[held[c]], ent[c], diff[c])]
             /\ Finish(c, "ok", held[c])
    <3>1. profiles' \in [RowId -> Row]
      BY <1>0, <2>1, RowTypes
    <3> QED BY <1>0, <1>7, <2>1, <3>1, FinishType DEF SaveWrite
  <2>2. CASE UNCHANGED profiles /\ Finish(c, "clash", NoRow)
    BY <1>0, <1>7, <2>2, FinishType DEF SaveWrite
  <2> QED BY <1>7, <2>1, <2>2 DEF SaveWrite
<1>8. CASE RemoveFind(c)
  <2>1. CASE Finish(c, "notFound", NoRow)
    BY <1>0, <1>8, <2>1, FinishType DEF RemoveFind
  <2>2. ASSUME NEW r \in KeptRows(req[c].user), Hold(c, r, profiles[r]), Proceed(c, "remove")
        PROVE  TypeOK'
    BY <1>0, <1>8, <2>2, HoldType, KeptIsRow DEF RemoveFind
  <2> QED BY <1>8, <2>1, <2>2 DEF RemoveFind
<1>9. CASE Remove(c)
  <2>1. profiles' \in [RowId -> Row]
    BY <1>0, <1>9 DEF Remove, Row
  <2> QED BY <1>0, <1>9, <2>1, FinishType DEF Remove
<1>10. CASE Find(c)
  BY <1>0, <1>10, FinishType, KeptIsRow DEF Find
<1>11. CASE StatementFails(c)
  <2>1. CASE Proceed(c, "refused") /\ UNCHANGED heap
    BY <1>0, <1>11, <2>1, ProceedType DEF StatementFails, heap, env
  <2>2. CASE Finish(c, "failed", NoRow)
    BY <1>0, <1>11, <2>2, FinishType DEF StatementFails
  <2> QED BY <1>11, <2>1, <2>2 DEF StatementFails
<1> QED BY <1>1, <1>2, <1>3, <1>4, <1>5, <1>6, <1>7, <1>8, <1>9, <1>10, <1>11 DEF Handle

LEMMA InitType == Init => TypeOK
<1> SUFFICES ASSUME Init PROVE TypeOK
  OBVIOUS
<1>1. \A r \in DOMAIN SeedOwner :
        [user |-> SeedOwner[r], fields |-> Initial, life |-> "kept"] \in Row
  BY SeedAssumption DEF Row
<1>2. profiles \in [RowId -> Row]
  BY <1>1, RowTypes DEF Init
<1> QED BY <1>2, RowTypes, CrashAssumption DEF Init, TypeOK, NoReply, Reply

LEMMA TypeStep == TypeOK /\ [Next]_vars => TypeOK'
<1> SUFFICES ASSUME TypeOK, [Next]_vars PROVE TypeOK'
  OBVIOUS
<1>1. ASSUME NEW c \in Call, Send(c) \/ Handle(c) \/ StatementFails(c) PROVE TypeOK'
  BY <1>1, ActionType
<1>2. CASE Restart
  BY <1>2, RowTypes, CrashAssumption DEF TypeOK, Restart, NoReply, Reply
<1>3. CASE UNCHANGED vars
  BY <1>3 DEF TypeOK, vars, env
<1> QED BY <1>1, <1>2, <1>3 DEF Next

(* Every variable keeps its type.                                          *)
THEOREM ProfilesTypeCorrect == Spec => []TypeOK
<1> QED BY InitType, TypeStep, PTL DEF Spec

-----------------------------------------------------------------------------
(* One handler at a time                                                   *)

LEMMA OthersStay ==
  ASSUME TypeOK, NEW c \in Call, Send(c) \/ Handle(c) \/ StatementFails(c),
         NEW d \in Call \ {c}
  PROVE  /\ pc'[d] = pc[d] /\ req'[d] = req[d] /\ reply'[d] = reply[d] /\ before'[d] = before[d]
         /\ held'[d] = held[d] /\ ent'[d] = ent[d] /\ diff'[d] = diff[d]
BY DEF TypeOK, Send, Handle, CreateFind, CreateInsert, CreateAgain, UpdateFind, SaveDiff,
       SaveWrite, RemoveFind, Remove, Find, StatementFails, Proceed, Hold, Finish, heap, env

LEMMA HandlerKeepsRequests ==
  ASSUME NEW c \in Call, Handle(c) \/ StatementFails(c)
  PROVE  UNCHANGED <<req, before, crashes>>
BY DEF Handle, CreateFind, CreateInsert, CreateAgain, UpdateFind, SaveDiff,
       SaveWrite, RemoveFind, Remove, Find, StatementFails, env

(* A request stays what it is once it was sent.                            *)
LEMMA RequestsStay ==
  ASSUME ProfileInvariant, [Next]_vars
  PROVE  /\ \A c \in Call : pc[c] # "idle" => req'[c] = req[c] /\ before'[c] = before[c]
         /\ \A c \in Call : pc[c] = "idle" => req[c].op = "none"
         /\ \A u : RemovalAsked(u) => RemovalAsked(u)'
<1>1. ASSUME NEW c \in Call, pc[c] # "idle"  PROVE req'[c] = req[c] /\ before'[c] = before[c]
  <2>1. CASE \E d \in Call : Handle(d) \/ StatementFails(d)
    BY <2>1, HandlerKeepsRequests
  <2>2. CASE \E d \in Call : Send(d)
    BY <1>1, <2>2, OthersStay DEF Send, ProfileInvariant
  <2>3. CASE Restart \/ UNCHANGED vars
    BY <2>3 DEF Restart, vars
  <2> QED BY <2>1, <2>2, <2>3 DEF Next
<1>2. ASSUME NEW c \in Call, pc[c] = "idle"  PROVE req[c].op = "none"
  BY <1>2 DEF ProfileInvariant, StageOK, NoRequest
<1>3. ASSUME NEW u, RemovalAsked(u)  PROVE RemovalAsked(u)'
  <2>1. PICK c \in Call : req[c].op = "remove" /\ req[c].user = u
    BY <1>3 DEF RemovalAsked
  <2>2. req'[c] = req[c]
    BY <1>1, <1>2, <2>1
  <2> QED BY <2>1, <2>2 DEF RemovalAsked
<1> QED BY <1>1, <1>2, <1>3

-----------------------------------------------------------------------------
(* What a step does to the rows                                            *)

Inserts(c, r) ==
  /\ pc[c] = "insert" /\ pc'[c] = "done" /\ KeptRows(req[c].user) = {} /\ profiles[r].life = "unused"
  /\ profiles' = [profiles EXCEPT ![r] =
                   [user |-> req[c].user, fields |-> Initial, life |-> "kept"]]
Saves(c) ==
  LET row == Written(profiles[held[c]], ent[c], diff[c]) IN
  /\ pc[c] = "write" /\ pc'[c] = "done"
  /\ ~(row.life = "kept" /\ UserTaken(row.user, held[c]))
  /\ profiles' = [profiles EXCEPT ![held[c]] = row]
Removes(c) ==
  /\ pc[c] = "remove" /\ pc'[c] = "done"
  /\ profiles' = [profiles EXCEPT ![held[c]].life = "deleted"]

LEMMA RowSteps ==
  ASSUME TypeOK, [Next]_vars
  PROVE  \/ profiles' = profiles
         \/ \E c \in Call, r \in RowId : Inserts(c, r)
         \/ \E c \in Call : Saves(c) \/ Removes(c)
<1>0. ASSUME NEW c \in Call, NEW st, NEW r, Finish(c, st, r)  PROVE pc'[c] = "done"
  BY <1>0 DEF Finish, TypeOK
<1>1. ASSUME NEW c \in Call, CreateInsert(c)
      PROVE  profiles' = profiles \/ \E r \in RowId : Inserts(c, r)
  <2>1. KeptRows(req[c].user) \ {NoRow} = KeptRows(req[c].user)
    BY NullAssumption DEF KeptRows
  <2> QED BY <1>0, <1>1, <2>1 DEF CreateInsert, UserTaken, Inserts, At
<1>2. ASSUME NEW c \in Call, SaveWrite(c)  PROVE profiles' = profiles \/ Saves(c)
  BY <1>0, <1>2 DEF SaveWrite, Saves
<1>3. ASSUME NEW c \in Call, Remove(c)  PROVE Removes(c)
  BY <1>0, <1>3 DEF Remove, Removes
<1>4. ASSUME NEW c \in Call, Send(c) \/ CreateFind(c) \/ CreateAgain(c) \/ UpdateFind(c)
               \/ SaveDiff(c) \/ RemoveFind(c) \/ Find(c) \/ StatementFails(c)
      PROVE  profiles' = profiles
  BY <1>4 DEF Send, CreateFind, CreateAgain, UpdateFind, SaveDiff, RemoveFind, Find, StatementFails
<1>5. CASE Restart \/ UNCHANGED vars
  BY <1>5 DEF Restart, vars
<1> QED BY <1>1, <1>2, <1>3, <1>4, <1>5 DEF Next, Handle

(* A row belongs to one account from its insert on.                        *)
LEMMA RowsKeepOwner ==
  ASSUME ProfileInvariant, [Next]_vars, NEW r \in RowId, profiles[r].life # "unused"
  PROVE  profiles'[r].user = profiles[r].user /\ profiles'[r].life # "unused"
<1>0. profiles \in [RowId -> Row] /\ \A c \in Call : ent[c] \in Row /\ StageOK(c)
  BY DEF ProfileInvariant, TypeOK
<1>1. ASSUME NEW c \in Call, NEW s \in RowId, Inserts(c, s)
      PROVE  profiles'[r] = profiles[r]
  BY <1>0, <1>1 DEF Inserts
<1>2. ASSUME NEW c \in Call, Saves(c)
      PROVE  profiles'[r].user = profiles[r].user /\ profiles'[r].life # "unused"
  BY <1>0, <1>2 DEF Saves, StageOK, Written
<1>3. ASSUME NEW c \in Call, Removes(c)
      PROVE  profiles'[r].user = profiles[r].user /\ profiles'[r].life # "unused"
  BY <1>0, <1>3 DEF Removes, Row
<1> QED BY <1>1, <1>2, <1>3, RowSteps DEF ProfileInvariant

(* The kept rows of an account: as they were, one alone, or fewer when a   *)
(* removal was asked for.                                                  *)
LEMMA KeptSteps ==
  ASSUME ProfileInvariant, [Next]_vars, NEW u \in UserId
  PROVE  \/ KeptRows(u)' = KeptRows(u)
         \/ \E r \in RowId : KeptRows(u)' = {r} /\ KeptRows(u) \subseteq {r}
         \/ RemovalAsked(u) /\ KeptRows(u)' \subseteq KeptRows(u)
<1>0. profiles \in [RowId -> Row] /\ \A c \in Call : ent[c] \in Row /\ StageOK(c)
  BY DEF ProfileInvariant, TypeOK
<1>1. CASE profiles' = profiles
  BY <1>1 DEF KeptRows, Kept
<1>2. ASSUME NEW c \in Call, NEW r \in RowId, Inserts(c, r)
      PROVE  \/ KeptRows(u)' = KeptRows(u)
             \/ KeptRows(u)' = {r} /\ KeptRows(u) = {}
  BY <1>0, <1>2 DEF Inserts, KeptRows, Kept
<1>3. ASSUME NEW c \in Call, Saves(c)
      PROVE  \/ KeptRows(u)' = KeptRows(u)
             \/ \E r \in RowId : KeptRows(u)' = {r} /\ KeptRows(u) \subseteq {r}
  <2> DEFINE h == held[c]
             row == Written(profiles[h], ent[c], diff[c])
  <2>1. /\ h \in RowId /\ profiles[h].user = req[c].user
        /\ row.user = profiles[h].user
        /\ row.life = "kept" \/ (row.life = profiles[h].life /\ profiles[h].life # "kept")
    BY <1>0, <1>3 DEF Saves, StageOK, Written
  <2>2. profiles' = [profiles EXCEPT ![h] = row]
    BY <1>3 DEF Saves
  <2>3. CASE profiles[h].user # u \/ row.life # "kept"
    BY <1>0, <2>1, <2>2, <2>3 DEF KeptRows, Kept
  <2>4. CASE profiles[h].user = u /\ row.life = "kept"
    <3>1. KeptRows(u) \ {h} = {}
      BY <1>3, <2>1, <2>4 DEF Saves, UserTaken
    <3>2. KeptRows(u)' = {h}
      BY <1>0, <2>1, <2>2, <2>4, <3>1 DEF KeptRows, Kept
    <3> QED BY <2>1, <3>1, <3>2
  <2> QED BY <2>3, <2>4
<1>4. ASSUME NEW c \in Call, Removes(c)
      PROVE  \/ KeptRows(u)' = KeptRows(u)
             \/ RemovalAsked(u) /\ KeptRows(u)' \subseteq KeptRows(u)
  <2>1. /\ held[c] \in RowId /\ profiles[held[c]].user = req[c].user
        /\ req[c].op = "remove"
    BY <1>0, <1>4 DEF Removes, StageOK
  <2>2. KeptRows(u)' \subseteq KeptRows(u)
    BY <1>0, <1>4, <2>1 DEF Removes, KeptRows, Kept, Row
  <2>3. CASE req[c].user = u
    BY <2>1, <2>2, <2>3 DEF RemovalAsked
  <2>4. CASE req[c].user # u
    BY <1>0, <1>4, <2>1, <2>4 DEF Removes, KeptRows, Kept, Row
  <2> QED BY <2>3, <2>4
<1> QED BY <1>1, <1>2, <1>3, <1>4, RowSteps DEF ProfileInvariant

LEMMA OneProfileStep ==
  ASSUME ProfileInvariant, [Next]_vars
  PROVE  OneProfile'
<1> SUFFICES ASSUME NEW u \in UserId, NEW r \in KeptRows(u)', NEW s \in KeptRows(u)'
             PROVE  r = s
  BY DEF OneProfile
<1>1. \A x, y \in KeptRows(u) : x = y
  BY DEF ProfileInvariant, OneProfile
<1> QED BY <1>1, KeptSteps

(* While no removal is asked for, a profile that is there stays the one.   *)
LEMMA ProfileStays ==
  ASSUME ProfileInvariant, [Next]_vars, NEW u \in UserId, ~RemovalAsked(u)'
  PROVE  /\ ~RemovalAsked(u)
         /\ KeptRows(u) # {} => KeptRows(u)' = KeptRows(u)
BY KeptSteps, RequestsStay

-----------------------------------------------------------------------------
(* Stages                                                                  *)

(* What the step of a handler itself leaves behind.                        *)
LEMMA OwnStage ==
  ASSUME ProfileInvariant, NEW c \in Call, Send(c) \/ Handle(c) \/ StatementFails(c)
  PROVE  StageOK(c)'
<1>0. TypeOK /\ StageOK(c) /\ pc[c] \in {"idle", "start", "insert", "clashed", "refused",
                                         "save", "write", "remove", "done"}
  BY DEF ProfileInvariant, TypeOK
<1>1. ASSUME NEW s, NEW r, Finish(c, s, r), UNCHANGED <<req, env>>, pc[c] # "idle"
      PROVE  StageOK(c)'
  BY <1>0, <1>1 DEF Finish, StageOK, env, TypeOK
<1>2. ASSUME NEW s \in {"insert", "clashed", "refused"}, Proceed(c, s), UNCHANGED <<req, env>>,
             req[c].op = "create", pc[c] # "idle", pc[c] # "done"
      PROVE  StageOK(c)'
  BY <1>0, <1>2 DEF Proceed, StageOK, env, TypeOK
<1>3. ASSUME NEW s \in {"save", "remove"}, NEW r \in KeptRows(req[c].user), NEW e,
             Proceed(c, s), Hold(c, r, e), UNCHANGED <<profiles, req, env>>, e.life = "kept",
             req[c].op = IF s = "save" THEN "update" ELSE "remove", pc[c] = "start"
      PROVE  StageOK(c)'
  BY <1>0, <1>3, KeptIsRow DEF Proceed, Hold, StageOK, env, TypeOK
<1>4. CASE Send(c)
  <2>1. /\ pc'[c] = "start" /\ req'[c] \in Request /\ reply'[c] = reply[c]
    BY <1>0, <1>4 DEF Send, Proceed, TypeOK
  <2> QED BY <1>0, <1>4, <2>1 DEF StageOK, Send
<1>5. CASE CreateFind(c)
  BY <1>1, <1>2, <1>5 DEF CreateFind, At
<1>6. CASE CreateInsert(c)
  BY <1>1, <1>2, <1>6 DEF CreateInsert, At
<1>7. CASE CreateAgain(c)
  BY <1>1, <1>7 DEF CreateAgain
<1>8. CASE UpdateFind(c)
  <2>1. ASSUME NEW r \in KeptRows(req[c].user)
        PROVE  [profiles[r] EXCEPT !.fields = Patched(@, req[c].patch)].life = "kept"
    BY <1>0, KeptIsRow DEF TypeOK, Row
  <2> QED BY <1>1, <1>3, <1>8, <2>1 DEF UpdateFind, At
<1>9. CASE SaveDiff(c)
  BY <1>0, <1>9 DEF SaveDiff, Proceed, StageOK, TypeOK, env
<1>10. CASE SaveWrite(c)
  BY <1>1, <1>10 DEF SaveWrite
<1>11. CASE RemoveFind(c)
  BY <1>1, <1>3, <1>11, KeptIsRow DEF RemoveFind, At
<1>12. CASE Remove(c) \/ Find(c)
  BY <1>1, <1>12 DEF Remove, Find, At
<1>13. CASE StatementFails(c)
  BY <1>1, <1>2, <1>13 DEF StatementFails, At
<1> QED BY <1>4, <1>5, <1>6, <1>7, <1>8, <1>9, <1>10, <1>11, <1>12, <1>13 DEF Handle

LEMMA StageStep ==
  ASSUME ProfileInvariant, [Next]_vars, NEW c \in Call
  PROVE  StageOK(c)'
<1>0. TypeOK /\ StageOK(c)
  BY DEF ProfileInvariant
<1>1. ASSUME pc'[c] = pc[c], req'[c] = req[c], reply'[c] = reply[c], before'[c] = before[c],
             held'[c] = held[c], ent'[c] = ent[c]
      PROVE  StageOK(c)'
  <2>1. ASSUME held[c] \in RowId, profiles[held[c]].life # "unused"
        PROVE  profiles'[held[c]].user = profiles[held[c]].user /\ profiles'[held[c]].life # "unused"
    BY <2>1, RowsKeepOwner
  <2> QED BY <1>0, <1>1, <2>1 DEF StageOK
<1>2. ASSUME NEW d \in Call, Send(d) \/ Handle(d) \/ StatementFails(d)  PROVE StageOK(c)'
  <2>1. CASE c = d
    BY <1>2, <2>1, OwnStage
  <2>2. CASE c # d
    BY <1>0, <1>1, <1>2, <2>2, OthersStay
  <2> QED BY <2>1, <2>2
<1>3. CASE Restart
  BY <1>0, <1>3 DEF Restart, StageOK, TypeOK
<1>4. CASE UNCHANGED vars
  BY <1>1, <1>4 DEF vars
<1> QED BY <1>2, <1>3, <1>4 DEF Next

-----------------------------------------------------------------------------
(* Answers and the profile they name                                       *)

LEMMA RowStep ==
  ASSUME ProfileInvariant, [Next]_vars, NEW c \in Call
  PROVE  RowStays(c)'
<1> SUFFICES ASSUME NEW u, u = req'[c].user, pc'[c] # "idle", ~RemovalAsked(u)'
             PROVE  /\ /\ req'[c].op \in {"create", "find", "update"}
                       /\ reply'[c].status = "ok"
                       => KeptRows(u)' = {reply'[c].row}
                    /\ pc'[c] \in {"save", "write"} => KeptRows(u)' = {held'[c]}
                    /\ pc'[c] = "clashed" => KeptRows(u)' # {}
  BY DEF RowStays
<1>0. TypeOK /\ StageOK(c) /\ RowStays(c) /\ OneProfile
  BY DEF ProfileInvariant
<1>1. u \in UserId
  <2>1. StageOK(c)'
    BY StageStep
  <2> QED BY <2>1 DEF StageOK, Request
<1>2. ~RemovalAsked(u) /\ (KeptRows(u) # {} => KeptRows(u)' = KeptRows(u))
  BY <1>1, ProfileStays
<1>3. ASSUME NEW r \in KeptRows(u)  PROVE KeptRows(u)' = {r}
  BY <1>0, <1>1, <1>2, <1>3 DEF OneProfile
<1>4. ASSUME pc'[c] = pc[c], req'[c] = req[c], reply'[c] = reply[c], held'[c] = held[c]
      PROVE  RowStays(c)'
  BY <1>0, <1>2, <1>4 DEF RowStays
<1>5. ASSUME NEW s, NEW r, Finish(c, s, r), req' = req, s = "ok" => KeptRows(u)' = {r}
      PROVE  RowStays(c)'
  BY <1>0, <1>5 DEF Finish, RowStays, TypeOK
<1>6. ASSUME pc'[c] \notin {"save", "write", "clashed"}, reply'[c] = NoReply
      PROVE  RowStays(c)'
  BY <1>6 DEF RowStays, NoReply
<1>7. ASSUME Send(c) \/ Handle(c) \/ StatementFails(c)  PROVE RowStays(c)'
  <2>1. CASE Send(c)
    BY <1>0, <1>6, <2>1 DEF Send, Proceed, StageOK, TypeOK
  <2>2. CASE CreateFind(c) \/ CreateAgain(c) \/ Find(c)
    <3>1. req' = req /\ pc[c] # "done"
      BY <2>2 DEF CreateFind, CreateAgain, Find, At, env
    <3>2. CASE Proceed(c, "insert")
      BY <1>0, <1>6, <3>1, <3>2 DEF Proceed, StageOK, TypeOK
    <3> QED BY <1>3, <1>5, <2>2, <3>1, <3>2 DEF CreateFind, CreateAgain, Find
  <2>3. CASE CreateInsert(c)
    <3>1. CASE Proceed(c, "clashed") /\ UserTaken(u, NoRow)
      <4>1. KeptRows(u) # {}
        BY <3>1 DEF UserTaken
      <4>2. reply'[c] = NoReply /\ pc'[c] = "clashed"
        BY <1>0, <2>3, <3>1 DEF CreateInsert, At, Proceed, StageOK, TypeOK
      <4> QED BY <1>2, <4>1, <4>2 DEF RowStays, NoReply
    <3>2. ASSUME NEW r \in RowId, Finish(c, "ok", r), ~UserTaken(u, NoRow),
                 profiles' = [profiles EXCEPT ![r] =
                   [user |-> req[c].user, fields |-> Initial, life |-> "kept"]]
          PROVE  RowStays(c)'
      <4>1. KeptRows(u) = {} /\ req' = req
        BY <2>3, <3>2, NullAssumption DEF UserTaken, KeptRows, CreateInsert
      <4>2. KeptRows(u)' = {r}
        BY <1>0, <3>2, <4>1 DEF KeptRows, Kept, TypeOK
      <4> QED BY <1>5, <3>2, <4>1, <4>2
    <3> QED BY <2>3, <3>1, <3>2 DEF CreateInsert
  <2>4. CASE UpdateFind(c)
    <3>1. CASE Finish(c, "notFound", NoRow)
      BY <1>5, <2>4, <3>1 DEF UpdateFind
    <3>2. ASSUME NEW r \in KeptRows(req[c].user), NEW e, Hold(c, r, e), Proceed(c, "save")
          PROVE  RowStays(c)'
      <4>1. /\ req' = req /\ held'[c] = r /\ pc'[c] = "save" /\ reply'[c] = NoReply
        BY <1>0, <2>4, <3>2 DEF UpdateFind, At, Hold, Proceed, StageOK, TypeOK
      <4> QED BY <1>3, <3>2, <4>1 DEF RowStays, NoReply
    <3> QED BY <2>4, <3>1, <3>2 DEF UpdateFind
  <2>5. CASE SaveDiff(c)
    <3>1. /\ req' = req /\ held' = held /\ pc[c] = "save" /\ pc'[c] = "write"
          /\ reply'[c] = NoReply
      BY <1>0, <2>5 DEF SaveDiff, Proceed, StageOK, TypeOK
    <3>2. KeptRows(u) = {held[c]}
      BY <1>0, <1>2, <3>1 DEF RowStays
    <3> QED BY <1>2, <3>1, <3>2 DEF RowStays, NoReply
  <2>6. CASE SaveWrite(c)
    <3>1. req' = req /\ pc[c] = "write"
      BY <2>6 DEF SaveWrite
    <3>2. KeptRows(u)' = {held[c]}
      BY <1>0, <1>2, <3>1 DEF RowStays
    <3> QED BY <1>5, <2>6, <3>1, <3>2 DEF SaveWrite
  <2>7. CASE RemoveFind(c) \/ Remove(c)
    <3>1. req' = req /\ req[c].op = "remove"
      BY <1>0, <2>7 DEF RemoveFind, Remove, At, StageOK
    <3> QED BY <1>2, <3>1 DEF RemovalAsked
  <2>8. CASE StatementFails(c)
    <3>1. CASE Proceed(c, "refused")
      BY <1>0, <1>6, <2>8, <3>1 DEF StatementFails, Proceed, StageOK, TypeOK
    <3>2. CASE Finish(c, "failed", NoRow)
      BY <1>5, <2>8, <3>2 DEF StatementFails
    <3> QED BY <2>8, <3>1, <3>2 DEF StatementFails
  <2> QED BY <1>7, <2>1, <2>2, <2>3, <2>4, <2>5, <2>6, <2>7, <2>8 DEF Handle
<1>8. RowStays(c)'
  <2>1. ASSUME NEW d \in Call \ {c}, Send(d) \/ Handle(d) \/ StatementFails(d)
        PROVE  RowStays(c)'
    BY <1>0, <1>4, <2>1, OthersStay
  <2>2. CASE Restart
    BY <1>0, <1>6, <2>2 DEF Restart, TypeOK
  <2>3. CASE UNCHANGED vars
    BY <1>4, <2>3 DEF vars
  <2> QED BY <1>7, <2>1, <2>2, <2>3 DEF Next
<1> QED BY <1>8 DEF RowStays

LEMMA ClashStep ==
  ASSUME ProfileInvariant, [Next]_vars
  PROVE  ClashMeansRemoved'
<1> SUFFICES ASSUME NEW c \in Call, req'[c].op = "create", reply'[c].status = "clash",
                    NEW u, u = req'[c].user
             PROVE  RemovalAsked(u)'
  BY DEF ClashMeansRemoved
<1>0. TypeOK /\ StageOK(c) /\ RowStays(c) /\ ClashMeansRemoved
  BY DEF ProfileInvariant
<1>1. CASE reply'[c] = reply[c]
  <2>1. req'[c] = req[c]
    BY <1>0, <1>1, RequestsStay DEF StageOK, NoReply
  <2>2. RemovalAsked(req[c].user)
    BY <1>0, <1>1, <2>1 DEF ClashMeansRemoved
  <2> QED BY <2>1, <2>2, RequestsStay
<1>2. CASE reply'[c] # reply[c]
  <2>1. PICK d \in Call : Send(d) \/ Handle(d) \/ StatementFails(d)
    BY <1>0, <1>2 DEF Next, Restart, vars, NoReply, TypeOK
  <2>2. d = c
    BY <1>0, <1>2, <2>1, OthersStay
  <2>3. CASE CreateAgain(c)
    <3>1. /\ req' = req /\ pc[c] = "clashed" /\ KeptRows(req[c].user) = {}
      BY <1>0, <2>3 DEF CreateAgain, Finish, TypeOK
    <3>2. RemovalAsked(req[c].user)
      BY <1>0, <3>1 DEF RowStays
    <3> QED BY <3>1, <3>2, RequestsStay
  <2>4. CASE ~CreateAgain(c)
    <3>1. CASE SaveWrite(c)
      BY <1>0, <3>1 DEF SaveWrite, StageOK
    <3>2. CASE ~SaveWrite(c)
      <4>1. ASSUME NEW s \in {"ok", "notFound", "failed"}, NEW r, Finish(c, s, r)  PROVE FALSE
        BY <1>0, <4>1 DEF Finish, TypeOK
      <4>2. CASE StatementFails(c)
        BY <1>2, <4>1, <4>2 DEF StatementFails, Proceed
      <4> QED BY <1>2, <2>1, <2>2, <2>4, <3>2, <4>1, <4>2
          DEF Handle, Send, CreateFind, CreateInsert, UpdateFind, SaveDiff, RemoveFind, Remove,
              Find, Proceed
    <3> QED BY <3>1, <3>2
  <2> QED BY <2>3, <2>4
<1> QED BY <1>1, <1>2

LEMMA InitProfiles == Init => ProfileInvariant
<1> SUFFICES ASSUME Init PROVE ProfileInvariant
  OBVIOUS
<1>1. OneProfile
  BY SeedAssumption DEF Init, OneProfile, KeptRows, Kept, BlankRow
<1>2. \A c \in Call : StageOK(c) /\ RowStays(c)
  BY DEF Init, StageOK, RowStays
<1>3. ClashMeansRemoved
  BY DEF Init, ClashMeansRemoved, NoReply
<1> QED BY <1>1, <1>2, <1>3, InitType DEF ProfileInvariant

LEMMA ProfileStep == ProfileInvariant /\ [Next]_vars => ProfileInvariant'
<1> SUFFICES ASSUME ProfileInvariant, [Next]_vars PROVE ProfileInvariant'
  OBVIOUS
<1>1. TypeOK'
  BY TypeStep DEF ProfileInvariant
<1>2. \A c \in Call : StageOK(c)' /\ RowStays(c)'
  BY StageStep, RowStep
<1> QED BY <1>1, <1>2, OneProfileStep, ClashStep DEF ProfileInvariant

THEOREM ProfilesInvariant == Spec => []ProfileInvariant
<1> QED BY InitProfiles, ProfileStep, PTL DEF Spec

(* Concurrent and repeated createProfile, and updates that write back a    *)
(* row removed meanwhile, never leave an account with two profiles.        *)
THEOREM OneProfileEach == Spec => []OneKeptProfilePerUser
<1>1. ProfileInvariant => OneKeptProfilePerUser
  <2> SUFFICES ASSUME OneProfile, NEW u \in UserId  PROVE Cardinality(KeptRows(u)) <= 1
    BY DEF ProfileInvariant, OneKeptProfilePerUser
  <2>1. CASE KeptRows(u) = {}
    BY <2>1, FS_EmptySet
  <2>2. ASSUME NEW r \in KeptRows(u)  PROVE Cardinality(KeptRows(u)) <= 1
    <3>1. KeptRows(u) = {r}
      BY <2>2 DEF OneProfile
    <3>2. Cardinality({r}) = 1
      BY FS_Singleton
    <3> QED BY <3>1, <3>2
  <2> QED BY <2>1, <2>2
<1> QED BY <1>1, ProfilesInvariant, PTL

(* While no removal is asked for, all answers of createProfile and         *)
(* findByUserId for an account name its one profile.                       *)
THEOREM CreatesAnswerOneProfile == Spec => []CreatesAgree
<1>1. ProfileInvariant => CreatesAgree
  <2> SUFFICES ASSUME ProfileInvariant, NEW c \in Call, req[c].op \in {"create", "find"},
                      reply[c].status = "ok", ~RemovalAsked(req[c].user)
               PROVE  KeptRows(req[c].user) = {reply[c].row}
    BY DEF CreatesAgree
  <2>1. StageOK(c) /\ RowStays(c)
    BY DEF ProfileInvariant
  <2> QED BY <2>1 DEF StageOK, RowStays, NoReply
<1> QED BY <1>1, ProfilesInvariant, PTL

(* The loser of a race between two createProfile calls is answered with    *)
(* the winner's profile, unless that was asked to be removed.              *)
THEOREM LosersFindTheProfile == Spec => []ClashMeansRemoved
<1>1. ProfileInvariant => ClashMeansRemoved
  BY DEF ProfileInvariant
<1> QED BY <1>1, ProfilesInvariant, PTL

-----------------------------------------------------------------------------
(* Updates in turn                                                         *)

(* Without a restart an answered request is over.                          *)
LEMMA DoneStays ==
  ASSUME ProfileInvariant, [Next]_vars, crashes' = 0, NEW d \in Call, pc[d] = "done"
  PROVE  pc'[d] = "done" /\ reply'[d] = reply[d] /\ req'[d] = req[d]
<1>0. TypeOK
  BY DEF ProfileInvariant
<1>1. ASSUME NEW c \in Call, Send(c) \/ Handle(c) \/ StatementFails(c)  PROVE c # d
  BY <1>1 DEF Send, Handle, CreateFind, CreateInsert, CreateAgain, UpdateFind, SaveDiff,
              SaveWrite, RemoveFind, Remove, Find, StatementFails, At
<1>2. ~Restart
  BY <1>0, CrashAssumption DEF Restart, TypeOK
<1> QED BY <1>0, <1>1, <1>2, OthersStay DEF Next, vars

LEMMA CrashesGrow ==
  ASSUME TypeOK, [Next]_vars, crashes' = 0
  PROVE  crashes = 0 /\ ~Restart
<1>1. ~Restart
  BY CrashAssumption DEF Restart, TypeOK
<1>2. ASSUME NEW c \in Call, Send(c) \/ Handle(c) \/ StatementFails(c)  PROVE crashes' = crashes
  BY <1>2, HandlerKeepsRequests DEF Send
<1> QED BY <1>1, <1>2 DEF Next, vars

LEMMA BeforeStep ==
  ASSUME TurnInvariant, [Next]_vars, crashes' = 0, NEW c \in Call, NEW d \in before'[c]
  PROVE  pc'[d] = "done"
<1>0. ProfileInvariant /\ TypeOK
  BY DEF TurnInvariant, ProfileInvariant
<1>1. crashes = 0
  BY <1>0, CrashesGrow
<1>2. CASE before'[c] = before[c]
  BY <1>0, <1>1, <1>2, DoneStays DEF TurnInvariant, TypeOK
<1>3. CASE before'[c] # before[c]
  <2>1. Send(c)
    <3>1. ASSUME NEW e \in Call, Send(e) \/ Handle(e) \/ StatementFails(e), e # c  PROVE FALSE
      BY <1>0, <1>3, <3>1, OthersStay
    <3>2. ASSUME Handle(c) \/ StatementFails(c)  PROVE FALSE
      BY <1>3, <3>2, HandlerKeepsRequests
    <3> QED BY <1>3, <3>1, <3>2 DEF Next, Restart, vars
  <2>2. d \in Call /\ pc[d] = "done"
    BY <1>0, <2>1 DEF Send, TypeOK
  <2> QED BY <1>0, <2>2, DoneStays
<1> QED BY <1>2, <1>3

(* What is settled after a step about a request was settled before it.     *)
LEMMA SettledBefore ==
  ASSUME ProfileInvariant, [Next]_vars, NEW c \in Call, pc[c] # "idle", NEW f \in Field,
         Settled(c, f)'
  PROVE  Settled(c, f) /\ crashes' = 0 /\ ~RemovalAsked(req[c].user)' /\ req'[c] = req[c]
<1>1. req'[c] = req[c] /\ before'[c] = before[c] /\ crashes' = 0
  BY RequestsStay DEF Settled
<1>2. ~RemovalAsked(req[c].user)' /\ crashes = 0
  BY <1>1, CrashesGrow DEF Settled, ProfileInvariant
<1>3. ASSUME NEW d \in Call \ {c}, req[d].op = "update", req[d].user = req[c].user
      PROVE  d \in before[c] \/ (c \in before[d] /\ req[d].patch[f] = NoValue)
  <2>1. req'[d] = req[d] /\ before'[d] = before[d]
    BY <1>3, RequestsStay
  <2> QED BY <1>1, <1>3, <2>1 DEF Settled, InTurn
<1> QED BY <1>1, <1>2, <1>3, RequestsStay DEF Settled, InTurn

(* Of two updates in turn one is over before the other starts.             *)
LEMMA TurnsTaken ==
  ASSUME TurnInvariant, NEW c \in Call, NEW f \in Field, Settled(c, f), NEW d \in Call \ {c},
         req[d].op = "update", req[d].user = req[c].user, pc[d] # "done"
  PROVE  pc[c] = "done" /\ req[d].patch[f] = NoValue
BY DEF TurnInvariant, Settled, InTurn

(* Another request's step leaves the field of an update as it is once it   *)
(* is in the row.                                                          *)
LEMMA FieldStays ==
  ASSUME TurnInvariant, [Next]_vars, NEW c \in Call, NEW f \in Field, Settled(c, f),
         NEW h \in RowId, profiles[h].life # "unused", profiles[h].user = req[c].user,
         profiles[h].fields[f] = req[c].patch[f],
         pc'[c] = pc[c], pc[c] = "write" \/ reply[c].status = "ok"
  PROVE  profiles'[h].fields[f] = req[c].patch[f]
<1>0. /\ ProfileInvariant /\ TypeOK /\ profiles \in [RowId -> Row]
      /\ \A d \in Call : ent[d] \in Row /\ StageOK(d)
      /\ Carried(c, f)
  BY DEF TurnInvariant, ProfileInvariant, TypeOK
<1>1. ASSUME NEW d \in Call, NEW r \in RowId, Inserts(d, r)  PROVE profiles'[h] = profiles[h]
  BY <1>0, <1>1 DEF Inserts
<1>2. ASSUME NEW d \in Call, Removes(d)  PROVE profiles'[h].fields = profiles[h].fields
  BY <1>0, <1>2 DEF Removes, Row
<1>3. ASSUME NEW d \in Call, Saves(d), held[d] = h
      PROVE  profiles'[h].fields[f] = req[c].patch[f]
  <2>1. d # c
    <3>1. pc[c] = "write" \/ pc[c] = "done"
      BY <1>0 DEF StageOK, NoReply
    <3> QED BY <1>3, <3>1 DEF Saves
  <2>2. req[d].op = "update" /\ req[d].user = req[c].user /\ pc[d] = "write"
    BY <1>0, <1>3 DEF Saves, StageOK
  <2>3. pc[c] = "done"
    BY <2>1, <2>2, TurnsTaken
  <2>4. ent[d].fields[f] = req[c].patch[f]
    BY <1>0, <2>1, <2>2, <2>3 DEF Carried
  <2>5. profiles'[h] = Written(profiles[h], ent[d], diff[d])
    BY <1>0, <1>3 DEF Saves
  <2> QED BY <2>4, <2>5 DEF Written
<1>4. ASSUME NEW d \in Call, Saves(d), held[d] # h  PROVE profiles'[h] = profiles[h]
  BY <1>0, <1>4 DEF Saves
<1> QED BY <1>0, <1>1, <1>2, <1>3, <1>4, RowSteps

(* The update itself.                                                      *)
LEMMA OwnUpdate ==
  ASSUME TurnInvariant, [Next]_vars, NEW c \in Call, NEW f \in Field,
         Settled(c, f), req'[c] = req[c], Handle(c) \/ StatementFails(c), pc[c] # "done"
  PROVE  /\ pc'[c] \in {"save", "write"} => ent'[c].fields[f] = req[c].patch[f]
         /\ pc'[c] = "write" /\ f \notin diff'[c]
              => profiles'[held'[c]].fields[f] = req[c].patch[f]
         /\ reply'[c].status = "ok" =>
              /\ profiles'[reply'[c].row].fields[f] = req[c].patch[f]
              /\ \A d \in Call \ {c} : pc[d] \in {"save", "write"} => req[d].user # req[c].user
<1>0. /\ TypeOK /\ StageOK(c) /\ Carried(c, f) /\ req[c].op = "update" /\ req[c].patch[f] # NoValue
      /\ \A d \in Call : StageOK(d)
  BY DEF TurnInvariant, ProfileInvariant, Settled
<1>1. ASSUME NEW s, NEW r, Finish(c, s, r), s # "ok"
      PROVE  pc'[c] = "done" /\ reply'[c].status # "ok"
  BY <1>0, <1>1 DEF Finish, TypeOK
<1>2. CASE UpdateFind(c)
  <2>1. ASSUME NEW r \in KeptRows(req[c].user), Proceed(c, "save"),
               Hold(c, r, [profiles[r] EXCEPT !.fields = Patched(@, req[c].patch)])
        PROVE  /\ pc'[c] = "save" /\ reply'[c].status # "ok"
               /\ ent'[c].fields[f] = req[c].patch[f]
    <3>1. pc'[c] = "save" /\ reply'[c] = NoReply
      BY <1>0, <1>2, <2>1 DEF UpdateFind, At, Proceed, StageOK, TypeOK
    <3>2. ent'[c] = [profiles[r] EXCEPT !.fields = Patched(@, req[c].patch)]
      BY <1>0, <2>1 DEF Hold, TypeOK
    <3>3. ent'[c].fields = Patched(profiles[r].fields, req[c].patch)
      BY <1>0, <3>2, KeptIsRow DEF TypeOK, Row
    <3> QED BY <1>0, <3>1, <3>3 DEF Patched, NoReply
  <2>2. CASE Finish(c, "notFound", NoRow)
    BY <1>1, <2>2
  <2> QED BY <1>2, <2>1, <2>2 DEF UpdateFind
<1>3. CASE SaveDiff(c)
  <2>1. /\ pc[c] = "save" /\ pc'[c] = "write" /\ reply'[c] = NoReply
        /\ ent' = ent /\ held' = held /\ profiles' = profiles
    BY <1>0, <1>3 DEF SaveDiff, Proceed, StageOK, TypeOK
  <2>2. ent[c].fields[f] = req[c].patch[f]
    BY <1>0, <2>1 DEF Carried
  <2>3. f \notin diff'[c] => profiles[held[c]].fields[f] = ent[c].fields[f]
    BY <1>0, <1>3 DEF SaveDiff, TypeOK
  <2> QED BY <2>1, <2>2, <2>3 DEF NoReply
<1>4. CASE SaveWrite(c)
  <2>1. CASE Finish(c, "clash", NoRow)
    BY <1>1, <2>1
  <2>2. CASE /\ profiles' = [profiles EXCEPT ![held[c]] = Written(profiles[held[c]], ent[c], diff[c])]
             /\ Finish(c, "ok", held[c])
    <3>1. pc[c] = "write" /\ pc'[c] = "done" /\ reply'[c].row = held[c] /\ held[c] \in RowId
      BY <1>0, <1>4, <2>2 DEF SaveWrite, Finish, StageOK, TypeOK
    <3>2. profiles'[held[c]] = Written(profiles[held[c]], ent[c], diff[c])
      BY <1>0, <2>2, <3>1 DEF TypeOK
    <3>3. profiles'[held[c]].fields[f] = req[c].patch[f]
      BY <1>0, <3>1, <3>2 DEF Written, Carried
    <3>4. ASSUME NEW d \in Call \ {c}, pc[d] \in {"save", "write"}
          PROVE  req[d].user # req[c].user
      BY <1>0, <3>1, <3>4, TurnsTaken DEF StageOK
    <3> QED BY <3>1, <3>3, <3>4
  <2> QED BY <1>4, <2>1, <2>2 DEF SaveWrite
<1>5. CASE StatementFails(c)
  BY <1>0, <1>1, <1>5 DEF StatementFails, At
<1> QED BY <1>0, <1>2, <1>3, <1>4, <1>5
    DEF Handle, CreateFind, CreateInsert, CreateAgain, RemoveFind, Remove, Find, At, StageOK

(* Another update of the profile, sent after this one was answered.        *)
LEMMA LaterUpdate ==
  ASSUME TurnInvariant, [Next]_vars, NEW c \in Call, NEW f \in Field,
         Settled(c, f), reply[c].status = "ok", NEW d \in Call \ {c},
         Send(d) \/ Handle(d) \/ StatementFails(d),
         pc'[d] \in {"save", "write"}, req'[d] = req[d], req[d].user = req[c].user
  PROVE  ent'[d].fields[f] = req[c].patch[f]
<1>0. /\ TypeOK /\ StageOK(c) /\ StageOK(d) /\ RowStays(c) /\ Carried(c, f)
  BY DEF TurnInvariant, ProfileInvariant
<1>1. KeptRows(req[c].user) = {reply[c].row} /\ profiles[reply[c].row].fields[f] = req[c].patch[f]
  BY <1>0 DEF RowStays, Settled, StageOK, NoReply, Carried
<1>2. UpdateFind(d) \/ SaveDiff(d)
  <2>1. ASSUME NEW s, NEW r, Finish(d, s, r)  PROVE FALSE
    BY <1>0, <2>1 DEF Finish, TypeOK
  <2>2. ASSUME NEW s \in {"start", "insert", "clashed", "refused", "remove"}, Proceed(d, s)
        PROVE  FALSE
    BY <1>0, <2>2 DEF Proceed, TypeOK
  <2> QED BY <2>1, <2>2 DEF Send, Handle, CreateFind, CreateInsert, CreateAgain, SaveWrite,
                            RemoveFind, Remove, Find, StatementFails
<1>3. CASE SaveDiff(d)
  BY <1>0, <1>3 DEF SaveDiff, Carried
<1>4. CASE UpdateFind(d)
  <2>1. PICK r \in KeptRows(req[d].user) :
          Hold(d, r, [profiles[r] EXCEPT !.fields = Patched(@, req[d].patch)])
    <3>1. ~Finish(d, "notFound", NoRow)
      BY <1>0 DEF Finish, TypeOK
    <3> QED BY <1>4, <3>1 DEF UpdateFind
  <2>2. ent'[d].fields = Patched(profiles[r].fields, req[d].patch)
    <3>1. ent'[d] = [profiles[r] EXCEPT !.fields = Patched(@, req[d].patch)]
      BY <1>0, <2>1 DEF Hold, TypeOK
    <3> QED BY <1>0, <3>1, KeptIsRow DEF TypeOK, Row
  <2>3. req[d].patch[f] = NoValue
    BY <1>4, TurnsTaken DEF UpdateFind, At
  <2> QED BY <1>1, <2>1, <2>2, <2>3 DEF Patched
<1> QED BY <1>2, <1>3, <1>4

LEMMA FromIdle ==
  ASSUME ProfileInvariant, [Next]_vars, NEW c \in Call, pc[c] = "idle"
  PROVE  pc'[c] \in {"idle", "start"} /\ reply'[c] = NoReply
<1>0. TypeOK /\ StageOK(c)
  BY DEF ProfileInvariant
<1>1. ASSUME NEW d \in Call \ {c}, Send(d) \/ Handle(d) \/ StatementFails(d)
      PROVE  pc'[c] = pc[c] /\ reply'[c] = reply[c]
  BY <1>0, <1>1, OthersStay
<1>2. ASSUME Handle(c) \/ StatementFails(c)  PROVE FALSE
  BY <1>2 DEF Handle, CreateFind, CreateInsert, CreateAgain, UpdateFind, SaveDiff,
                    SaveWrite, RemoveFind, Remove, Find, StatementFails, At
<1>3. CASE Send(c)
  BY <1>0, <1>3 DEF Send, Proceed, StageOK, TypeOK
<1>4. CASE Restart \/ UNCHANGED vars
  BY <1>0, <1>4 DEF Restart, vars, StageOK, TypeOK
<1> QED BY <1>0, <1>1, <1>2, <1>3, <1>4 DEF Next, StageOK

LEMMA CarriedStep ==
  ASSUME TurnInvariant, [Next]_vars, NEW c \in Call, NEW f \in Field
  PROVE  Carried(c, f)'
<1> SUFFICES ASSUME Settled(c, f)'  PROVE Carried(c, f)'
  BY DEF Carried
<1>0. /\ ProfileInvariant /\ TypeOK /\ StageOK(c) /\ RowStays(c) /\ Carried(c, f)
  BY DEF TurnInvariant, ProfileInvariant
<1>1. CASE pc[c] = "idle"
  <2>1. pc'[c] \in {"idle", "start"} /\ reply'[c] = NoReply
    BY <1>0, <1>1, FromIdle
  <2> QED BY <2>1 DEF Carried, NoReply
<1>2. CASE pc[c] # "idle"
  <2>1. Settled(c, f) /\ crashes' = 0 /\ req'[c] = req[c] /\ ~Restart
    BY <1>0, <1>2, SettledBefore, CrashesGrow
  <2>2. ASSUME NEW d \in Call, pc'[d] \in {"save", "write"}  PROVE req'[d] = req[d]
    BY <1>0, <2>2, RequestsStay, FromIdle
  <2>3. CASE Handle(c) \/ StatementFails(c)
    <3>1. pc[c] # "done"
      BY <2>3 DEF Handle, CreateFind, CreateInsert, CreateAgain, UpdateFind, SaveDiff,
                  SaveWrite, RemoveFind, Remove, Find, StatementFails, At
    <3>2. \A d \in Call \ {c} : pc'[d] = pc[d] /\ req'[d] = req[d]
      BY <1>0, <2>3, OthersStay
    <3> QED BY <2>1, <2>3, <3>1, <3>2, OwnUpdate DEF Carried
  <2>4. ASSUME pc'[c] = pc[c], reply'[c] = reply[c], held'[c] = held[c], ent'[c] = ent[c],
               diff'[c] = diff[c],
               \A d \in Call \ {c} :
                 reply[c].status = "ok" /\ pc'[d] \in {"save", "write"} /\ req[d].user = req[c].user
                   => ent'[d].fields[f] = req[c].patch[f]
        PROVE  Carried(c, f)'
    <3>1. ASSUME pc[c] = "write", f \notin diff[c]
          PROVE  profiles'[held[c]].fields[f] = req[c].patch[f]
      BY <1>0, <2>1, <2>4, <3>1, FieldStays DEF Carried, StageOK
    <3>2. ASSUME reply[c].status = "ok"
          PROVE  profiles'[reply[c].row].fields[f] = req[c].patch[f]
      <4>1. reply[c].row \in KeptRows(req[c].user)
        BY <1>0, <1>2, <2>1, <3>2 DEF RowStays, Settled
      <4>2. /\ reply[c].row \in RowId /\ profiles[reply[c].row].life # "unused"
            /\ profiles[reply[c].row].user = req[c].user
        BY <4>1, KeptIsRow
      <4>3. profiles[reply[c].row].fields[f] = req[c].patch[f]
        BY <1>0, <2>1, <3>2 DEF Carried
      <4> QED BY <2>1, <2>4, <3>2, <4>2, <4>3, FieldStays
    <3> QED BY <1>0, <2>1, <2>2, <2>4, <3>1, <3>2 DEF Carried
  <2>5. ASSUME NEW d \in Call \ {c}, Send(d) \/ Handle(d) \/ StatementFails(d)
        PROVE  Carried(c, f)'
    <3>1. ASSUME NEW e \in Call \ {c}, reply[c].status = "ok", pc'[e] \in {"save", "write"},
                 req[e].user = req[c].user
          PROVE  ent'[e].fields[f] = req[c].patch[f]
      <4>1. CASE e = d
        BY <2>1, <2>2, <2>5, <3>1, <4>1, LaterUpdate
      <4>2. CASE e # d
        <5>1. pc'[e] = pc[e] /\ ent'[e] = ent[e]
          BY <1>0, <2>5, <4>2, OthersStay
        <5> QED BY <1>0, <2>1, <3>1, <5>1 DEF Carried
      <4> QED BY <4>1, <4>2
    <3> QED BY <1>0, <2>4, <2>5, <3>1, OthersStay
  <2>6. CASE UNCHANGED vars
    <3>1. UNCHANGED <<pc, req, reply, held, ent, diff>>
      BY <2>6 DEF vars
    <3> QED BY <1>0, <2>1, <2>4, <3>1 DEF Carried
  <2>7. ~Send(c)
    BY <1>2 DEF Send
  <2> QED BY <2>1, <2>3, <2>5, <2>6, <2>7 DEF Next
<1> QED BY <1>1, <1>2

(* A field an answered update set keeps its value while every other update *)
(* of the profile came before, or after the answer without that field.     *)
THEOREM UpdatesAddUp == Spec => []UpdatesInTurnAdd
<1>1. Init => TurnInvariant
  <2> SUFFICES ASSUME Init PROVE TurnInvariant
    OBVIOUS
  <2>1. \A c \in Call, f \in Field : ~Settled(c, f)
    BY DEF Init, Settled, NoRequest
  <2> QED BY <2>1, InitProfiles DEF Init, TurnInvariant, Carried
<1>2. TurnInvariant /\ [Next]_vars => TurnInvariant'
  BY ProfileStep, BeforeStep, CarriedStep DEF TurnInvariant
<1>3. TurnInvariant => UpdatesInTurnAdd
  BY DEF TurnInvariant, Carried, Settled, UpdatesInTurnAdd
<1> QED BY <1>1, <1>2, <1>3, PTL DEF Spec

=============================================================================
