---------------------------- MODULE UserProfiles ----------------------------
(***************************************************************************)
(* The user worker (apps/user-service): profiles keyed by the account they *)
(* belong to.  As in AuthService an action is the code between two         *)
(* database calls with the one statement it waits for; handlers interleave *)
(* between statements, and a restart delivers every message again.         *)
(*                                                                         *)
(*   createProfile   start -> insert -> clashed or refused                 *)
(*   update          start -> save -> write                                *)
(*   remove          start -> remove                                       *)
(*   findByUserId    start                                                 *)
(***************************************************************************)
EXTENDS Integers, FiniteSets

CONSTANTS
  Call,        \* requests, each sent once
  UserId,      \* accounts of the auth service
  RowId,       \* primary keys of user_profiles that can be drawn
  Field,       \* columns update() may set
  Value,       \* their contents
  NoUser, NoRow, NoValue,
  Initial,     \* the fields createProfile and the seed rows start with
  SeedOwner,   \* the profiles that exist at the start: row -> account
  MaxCrash     \* bound on process restarts

Fields == [Field -> Value]
Row == [user : UserId \cup {NoUser}, fields : Fields, life : {"unused", "kept", "deleted"}]
BlankRow == [user |-> NoUser, fields |-> Initial, life |-> "unused"]

(* Columns a save() may write.                                             *)
Column == Field \cup {"deletedAt"}

(* A patch is the DTO of PATCH: NoValue where the member is absent.        *)
Request ==
       [op : {"create", "remove", "find"}, user : UserId]
  \cup [op : {"update"}, user : UserId, patch : [Field -> Value \cup {NoValue}]]
NoRequest == [op |-> "none"]

Reply == [status : {"none", "ok", "notFound", "clash", "failed"}, row : RowId \cup {NoRow}]
NoReply == [status |-> "none", row |-> NoRow]

ASSUME NullAssumption ==
  NoUser \notin UserId /\ NoRow \notin RowId /\ NoValue \notin Value
ASSUME ColumnAssumption == "deletedAt" \notin Field
ASSUME SeedAssumption ==
  /\ Initial \in Fields
  /\ DOMAIN SeedOwner \subseteq RowId
  /\ \A r, s \in DOMAIN SeedOwner :
       SeedOwner[r] \in UserId /\ (SeedOwner[r] = SeedOwner[s] => r = s)
ASSUME CrashAssumption == MaxCrash \in Nat

VARIABLES
  profiles,  \* user_profiles: RowId -> Row
  pc, req,   \* where each handler waits, and its payload
  held,      \* the key of the entity a handler holds
  ent,       \* that entity
  diff,      \* columns save() found to differ
  reply,     \* status and profile answered
  before,    \* history: the requests answered when this one was sent
  crashes

env == <<before, crashes>>
vars == <<profiles, pc, req, held, ent, diff, reply, before, crashes>>
heap == <<held, ent, diff>>

(* find() skips rows that are soft-deleted; the unique index on user_id    *)
(* covers the rows that are not.                                           *)
Kept(r, u) == profiles[r].life = "kept" /\ profiles[r].user = u
KeptRows(u) == {r \in RowId : Kept(r, u)}
NoUniqueIndex(u, r) == FALSE                                       \* mutant
UserTaken(u, r) == KeptRows(u) \ {r} # {}

At(c, op, stage) == pc[c] = stage /\ req[c].op = op

Proceed(c, stage) ==
  /\ pc' = [pc EXCEPT ![c] = stage]
  /\ UNCHANGED reply

Finish(c, status, r) ==
  /\ pc' = [pc EXCEPT ![c] = "done"]
  /\ reply' = [reply EXCEPT ![c] = [status |-> status, row |-> r]]
  /\ held' = [held EXCEPT ![c] = NoRow]
  /\ ent' = [ent EXCEPT ![c] = BlankRow]
  /\ diff' = [diff EXCEPT ![c] = {}]

Hold(c, r, entity) ==
  /\ held' = [held EXCEPT ![c] = r]
  /\ ent' = [ent EXCEPT ![c] = entity]
  /\ UNCHANGED diff

Init ==
  /\ profiles = [r \in RowId |->
                  IF r \in DOMAIN SeedOwner
                    THEN [user |-> SeedOwner[r], fields |-> Initial, life |-> "kept"]
                    ELSE BlankRow]
  /\ pc = [c \in Call |-> "idle"]
  /\ req = [c \in Call |-> NoRequest]
  /\ held = [c \in Call |-> NoRow]
  /\ ent = [c \in Call |-> BlankRow]
  /\ diff = [c \in Call |-> {}]
  /\ reply = [c \in Call |-> NoReply]
  /\ before = [c \in Call |-> {}]
  /\ crashes = 0

Send(c) ==
  /\ pc[c] = "idle"
  /\ \E r \in Request : req' = [req EXCEPT ![c] = r]
  /\ before' = [before EXCEPT ![c] = {d \in Call : pc[d] = "done"}]
  /\ Proceed(c, "start")
  /\ UNCHANGED <<profiles, heap, crashes>>

-----------------------------------------------------------------------------
(* createProfile                                                           *)

CreateFind(c) ==
  /\ At(c, "create", "start")
  /\ \/ \E r \in KeptRows(req[c].user) : Finish(c, "ok", r)
     \/ KeptRows(req[c].user) = {} /\ Proceed(c, "insert") /\ UNCHANGED heap
  /\ UNCHANGED <<profiles, req, env>>

CreateInsertOrFail(c) ==                                           \* mutant
  /\ At(c, "create", "insert")
  /\ \/ /\ UserTaken(req[c].user, NoRow)
        /\ Finish(c, "clash", NoRow)
        /\ UNCHANGED profiles
     \/ /\ ~UserTaken(req[c].user, NoRow)
        /\ \E r \in RowId :
             /\ profiles[r].life = "unused"
             /\ profiles' = [profiles EXCEPT ![r] =
                  [user |-> req[c].user, fields |-> Initial, life |-> "kept"]]
             /\ Finish(c, "ok", r)
  /\ UNCHANGED <<req, env>>

CreateInsert(c) ==
  /\ At(c, "create", "insert")
  /\ \/ /\ UserTaken(req[c].user, NoRow)
        /\ Proceed(c, "clashed")
        /\ UNCHANGED <<profiles, heap>>
     \/ /\ ~UserTaken(req[c].user, NoRow)
        /\ \E r \in RowId :
             /\ profiles[r].life = "unused"
             /\ profiles' = [profiles EXCEPT ![r] =
                  [user |-> req[c].user, fields |-> Initial, life |-> "kept"]]
             /\ Finish(c, "ok", r)
  /\ UNCHANGED <<req, env>>

CreateAgainBlind(c) ==                                             \* mutant
  /\ pc[c] \in {"clashed", "refused"}
  /\ \E r \in RowId : Finish(c, "ok", r)
  /\ UNCHANGED <<profiles, req, env>>

(* After any QueryFailedError of the insert, a duplicate or a refusal:     *)
(* look again, or rethrow it.                                              *)
CreateAgain(c) ==
  /\ pc[c] \in {"clashed", "refused"}
  /\ \/ \E r \in KeptRows(req[c].user) : Finish(c, "ok", r)
     \/ /\ KeptRows(req[c].user) = {}
        /\ Finish(c, IF pc[c] = "clashed" THEN "clash" ELSE "failed", NoRow)
  /\ UNCHANGED <<profiles, req, env>>

-----------------------------------------------------------------------------
(* update, remove, findByUserId                                            *)

PatchedWhole(fields, patch) ==                                     \* mutant
  [f \in Field |-> IF patch[f] = NoValue THEN Initial[f] ELSE patch[f]]
Patched(fields, patch) ==
  [f \in Field |-> IF patch[f] = NoValue THEN fields[f] ELSE patch[f]]

UpdateFind(c) ==
  /\ At(c, "update", "start")
  /\ \/ KeptRows(req[c].user) = {} /\ Finish(c, "notFound", NoRow)
     \/ \E r \in KeptRows(req[c].user) :
          /\ Hold(c, r, [profiles[r] EXCEPT !.fields = Patched(@, req[c].patch)])
          /\ Proceed(c, "save")
  /\ UNCHANGED <<profiles, req, env>>

SaveDiffLoose(c) ==                                                \* mutant
  /\ pc[c] = "save"
  /\ diff' = [diff EXCEPT ![c] = Column \cup {"user"}]
  /\ Proceed(c, "write")
  /\ UNCHANGED <<profiles, req, held, ent, env>>

(* save(): read the row again, deleted or not, and compare every column.   *)
SaveDiff(c) ==
  LET row == profiles[held[c]]
      changed == {f \in Field : ent[c].fields[f] # row.fields[f]}
      undeleted == IF ent[c].life # row.life THEN {"deletedAt"} ELSE {} IN
  /\ pc[c] = "save"
  /\ diff' = [diff EXCEPT ![c] = changed \cup undeleted]
  /\ Proceed(c, "write")
  /\ UNCHANGED <<profiles, req, held, ent, env>>

Written(row, e, columns) ==
  [user |-> row.user,
   fields |-> [f \in Field |-> IF f \in columns THEN e.fields[f] ELSE row.fields[f]],
   life |-> IF "deletedAt" \in columns THEN e.life ELSE row.life]

SaveWrite(c) ==
  LET row == Written(profiles[held[c]], ent[c], diff[c])
      clash == row.life = "kept" /\ UserTaken(row.user, held[c]) IN
  /\ pc[c] = "write"
  /\ \/ ~clash /\ profiles' = [profiles EXCEPT ![held[c]] = row] /\ Finish(c, "ok", held[c])
     \/ clash /\ UNCHANGED profiles /\ Finish(c, "clash", NoRow)
  /\ UNCHANGED <<req, env>>

RemoveFind(c) ==
  /\ At(c, "remove", "start")
  /\ \/ KeptRows(req[c].user) = {} /\ Finish(c, "notFound", NoRow)
     \/ \E r \in KeptRows(req[c].user) : Hold(c, r, profiles[r]) /\ Proceed(c, "remove")
  /\ UNCHANGED <<profiles, req, env>>

Remove(c) ==
  /\ pc[c] = "remove"
  /\ profiles' = [profiles EXCEPT ![held[c]].life = "deleted"]
  /\ Finish(c, "ok", held[c])
  /\ UNCHANGED <<req, env>>

Find(c) ==
  /\ At(c, "find", "start")
  /\ \/ KeptRows(req[c].user) = {} /\ Finish(c, "notFound", NoRow)
     \/ \E r \in KeptRows(req[c].user) : Finish(c, "ok", r)
  /\ UNCHANGED <<profiles, req, env>>

-----------------------------------------------------------------------------
(* Failures                                                                *)

(* A statement is refused.  createProfile looks again after a failed       *)
(* insert; every other failure goes to the caller.                         *)
StatementFails(c) ==
  /\ pc[c] \notin {"idle", "done"}
  /\ \/ At(c, "create", "insert") /\ Proceed(c, "refused") /\ UNCHANGED heap
     \/ ~At(c, "create", "insert") /\ Finish(c, "failed", NoRow)
  /\ UNCHANGED <<profiles, req, env>>

(* The process is gone; every delivered message is delivered again.        *)
Restart ==
  /\ crashes < MaxCrash
  /\ crashes' = crashes + 1
  /\ pc' = [c \in Call |-> IF pc[c] = "idle" THEN "idle" ELSE "start"]
  /\ held' = [c \in Call |-> NoRow]
  /\ ent' = [c \in Call |-> BlankRow]
  /\ diff' = [c \in Call |-> {}]
  /\ reply' = [c \in Call |-> NoReply]
  /\ UNCHANGED <<profiles, req, before>>

Handle(c) ==
  \/ CreateFind(c) \/ CreateInsert(c) \/ CreateAgain(c)
  \/ UpdateFind(c) \/ SaveDiff(c) \/ SaveWrite(c)
  \/ RemoveFind(c) \/ Remove(c) \/ Find(c)

Next ==
  \/ \E c \in Call : Send(c) \/ Handle(c) \/ StatementFails(c)
  \/ Restart

Spec == Init /\ [][Next]_vars

-----------------------------------------------------------------------------
(* Properties                                                              *)

TypeOK ==
  /\ profiles \in [RowId -> Row]
  /\ pc \in [Call -> {"idle", "start", "insert", "clashed", "refused", "save", "write", "remove", "done"}]
  /\ req \in [Call -> Request \cup {NoRequest}]
  /\ held \in [Call -> RowId \cup {NoRow}]
  /\ ent \in [Call -> Row]
  /\ diff \in [Call -> SUBSET Column]
  /\ reply \in [Call -> Reply]
  /\ before \in [Call -> SUBSET Call]
  /\ crashes \in 0 .. MaxCrash

(* Concurrent and repeated createProfile, and an update that writes back a *)
(* row removed meanwhile, never leave an account with two profiles.        *)
OneKeptProfilePerUser ==
  \A u \in UserId : Cardinality(KeptRows(u)) <= 1

RemovalAsked(u) == \E c \in Call : req[c].op = "remove" /\ req[c].user = u

(* createProfile is idempotent: while nobody asks to remove the profile,   *)
(* all its answers for one account name the same profile, which exists,    *)
(* and so do those of findByUserId.                                        *)
CreatesAgree ==
  \A c \in Call :
    req[c].op \in {"create", "find"} /\ reply[c].status = "ok" /\ ~RemovalAsked(req[c].user)
      => KeptRows(req[c].user) = {reply[c].row}

(* The loser of a race between two createProfile calls still succeeds: a   *)
(* duplicate reaches the caller only if the winner's profile was removed.  *)
ClashMeansRemoved ==
  \A c \in Call :
    req[c].op = "create" /\ reply[c].status = "clash" => RemovalAsked(req[c].user)

(* A field an answered update set keeps its value while every other update *)
(* of the profile was answered before that one was sent, or was sent after *)
(* its answer and leaves the field out: although save() writes a whole     *)
(* entity, updates in turn of different fields add up.                     *)
InTurn(c, f) ==
  \A d \in Call \ {c} :
    req[d].op = "update" /\ req[d].user = req[c].user
      => d \in before[c] \/ (c \in before[d] /\ req[d].patch[f] = NoValue)
UpdatesInTurnAdd ==
  \A c \in Call, f \in Field :
    /\ req[c].op = "update" /\ reply[c].status = "ok" /\ req[c].patch[f] # NoValue
    /\ crashes = 0 /\ ~RemovalAsked(req[c].user) /\ InTurn(c, f)
    => profiles[reply[c].row].fields[f] = req[c].patch[f]

(* What a soft delete promises (README.md:349, "Soft deletes on user       *)
(* profiles"; users.swagger.ts:68): a removed profile stays removed.  The  *)
(* save of an update that loaded it before writes deleted_at = NULL.       *)
RemovedStaysRemoved ==
  [][\A r \in RowId : profiles[r].life = "deleted" => profiles'[r].life = "deleted"]_vars

-----------------------------------------------------------------------------
(* Why they hold                                                           *)

(* What a handler at each await has; nothing is answered before the end.   *)
StageOK(c) ==
  /\ IF pc[c] = "idle" THEN req[c] = NoRequest /\ before[c] = {} ELSE req[c] \in Request
  /\ pc[c] # "done" => reply[c] = NoReply
  /\ pc[c] \in {"insert", "clashed", "refused"} => req[c].op = "create"
  /\ pc[c] \in {"save", "write"} => req[c].op = "update"
  /\ pc[c] = "remove" => req[c].op = "remove"
  /\ pc[c] \in {"save", "write", "remove"} =>
       /\ held[c] \in RowId /\ ent[c].life = "kept"
       /\ profiles[held[c]].user = req[c].user /\ profiles[held[c]].life # "unused"

OneProfile == \A u \in UserId : \A r, s \in KeptRows(u) : r = s

(* Nobody asks to remove the profile: the row a handler answered or holds  *)
(* is the one kept, and an insert that met a duplicate will find it.       *)
RowStays(c) ==
  pc[c] # "idle" /\ ~RemovalAsked(req[c].user) =>
    /\ req[c].op \in {"create", "find", "update"} /\ reply[c].status = "ok"
         => KeptRows(req[c].user) = {reply[c].row}
    /\ pc[c] \in {"save", "write"} => KeptRows(req[c].user) = {held[c]}
    /\ pc[c] = "clashed" => KeptRows(req[c].user) # {}

ProfileInvariant ==
  /\ TypeOK /\ OneProfile /\ ClashMeansRemoved
  /\ \A c \in Call : StageOK(c) /\ RowStays(c)

(* An update on its way carries its patch, and what it will not write is   *)
(* in the row; one sent after an answered update carries that one's field. *)
Settled(c, f) ==
  /\ req[c].op = "update" /\ req[c].patch[f] # NoValue
  /\ crashes = 0 /\ ~RemovalAsked(req[c].user) /\ InTurn(c, f)
Carried(c, f) ==
  Settled(c, f) =>
    /\ pc[c] \in {"save", "write"} => ent[c].fields[f] = req[c].patch[f]
    /\ pc[c] = "write" /\ f \notin diff[c] => profiles[held[c]].fields[f] = req[c].patch[f]
    /\ reply[c].status = "ok" =>
         /\ profiles[reply[c].row].fields[f] = req[c].patch[f]
         /\ \A d \in Call \ {c} :
              pc[d] \in {"save", "write"} /\ req[d].user = req[c].user
                => ent[d].fields[f] = req[c].patch[f]

TurnInvariant ==
  /\ ProfileInvariant
  /\ crashes = 0 => \A c \in Call : \A d \in before[c] : pc[d] = "done"
  /\ \A c \in Call, f \in Field : Carried(c, f)

=============================================================================
