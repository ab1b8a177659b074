# TLA+ models and proofs of the NestJS microservice boilerplate

This directory holds TLA+ modules for the program logic of the repository: an HTTP API
gateway, an auth worker and a user worker that talk over RabbitMQ, two PostgreSQL schemas
and Redis. TLC checks the modules on small instances; TLAPS proves the theorems for every
value of the constants.

Run from this directory:

    tlc -config AuthSessions.cfg MCAuthService.tla     # any run of PROJECT.json
    tlapm AuthSessionProofs.tla                        # any proof module

## 1. The system

| part | state | operations | talks to |
|---|---|---|---|
| auth worker (`apps/auth-service`) | `users`, `refresh_tokens` (PostgreSQL) | register, login, refresh, logout, validate, me, changePassword, deactivate; ensureAdmin at start-up | its database; requests from `auth_queue` |
| user worker (`apps/user-service`) | `user_profiles` (PostgreSQL) | createProfile, findAll, findOne, findByUserId, update, remove | its database; requests from `user_queue` |
| transport (`rmq.config.ts`, `MicroserviceProxy`) | two durable queues, deliveries outstanding, promises of the gateway | send with an 8 s timeout, deliver, reply | gateway and workers |
| gateway controllers | none of their own | register and delete are sequences of calls to both workers, logout and changePassword mix a call and a blacklist entry | transport, Redis |
| guards and blacklist | Redis keys with a TTL | revokeAccessToken, isRevoked | Redis |
| users-list cache | Redis (keyv) entries, 30 s | CacheInterceptor | Redis |
| envelope, filters, pipes | none | map results and errors to HTTP | - |
| durations, pagination | none | pure functions | - |

What is hard here:

* Handlers are asynchronous and keep entities in memory across `await`; TypeORM's
  `save(entity)` writes back whatever differs from the row at that later moment.
* `refresh` is the only operation in a transaction; everything else is a sequence of
  autocommitted statements next to it, and `ensureAdmin` runs while requests are served.
* The worker never acknowledges a message, so every message comes back after a restart,
  and the delivery window fills up.
* The gateway stops waiting after eight seconds but cannot withdraw the request.
* Two-step operations of the gateway fail half-way.

What makes each part correct: a session has one usable token and does not fork; a revocation
covers what existed; one address has one account, one account one profile; a repeated
createProfile gives the same profile; no request is lost or settled twice; every caller is
answered; a revoked token opens no door; a list is never older than its cache says. `PROJECT.json` lists the hazards line by line with the properties aimed at them.

## 2. Modules

### AuthService (core) and MCAuthService

One action per piece of a handler between two database calls, plus the statement it waits
for. `pc[a]` is the `await` at which handler `a` sleeps, `ent[a]` the TypeORM entity it
holds, `diff[a]` the columns `save` found changed, `batch[a]` the rows a bulk UPDATE saw.

| code | actions |
|---|---|
| `register` | RegisterFind, RegisterInsert, Issue |
| `login` | Login, Issue |
| `refresh` | RefreshVerify (JWT), RefreshLock (SELECT ... FOR UPDATE and the checks), Rotate (revoke, insert, COMMIT) |
| `logout` | LogoutOne; LogoutAll, Revoke |
| `changePassword` | ChangeFind, SaveDiff, SaveWrite, Collect, Revoke |
| `deactivate` | DeactivateFind, SaveDiff, SaveWrite, Collect, Revoke, Remove |
| `ensureAdmin` | BootFind, BootInsert, SaveDiff, SaveWrite |
| crash, refused statement | Restart, StatementFails |

What the libraries do is modelled from how the code uses them and marked external in the
map: PostgreSQL at READ COMMITTED (a bulk UPDATE acts on the rows of its snapshot and waits
for locked rows; FOR UPDATE over the join locks token and user; an insert that references a
locked user waits), TypeORM's `save` (read back, then write the differing columns, including
`deletedAt = NULL`; a password that was not selected is never written), JSON Web Tokens (the
same claims in the same second are the same string; lifetimes as `Durations` has them), RabbitMQ redelivery (Restart sends every
message to its handler again, answered ones too).

Abstractions: an address is one after `toLowerCase().trim()`; a hash equals another iff the
passwords are equal; signing a token and inserting its row happen in one step, in one
second; `validate` and `me` only read and are left out; `isEmailVerified`, ip and user agent
influence nothing. `session` and `seen` are history variables: the login a token descends
from, and the tokens a user had when a request was sent.

### Durations

The two readers of `JWT_ACCESS_EXPIRES_IN` and `JWT_REFRESH_EXPIRES_IN`: jsonwebtoken, which signs
the token, and `duration.util.ts`, which stamps the row in `refresh_tokens` or the blacklist entry.
For `15m`, `1d` they agree. A setting the second does not know (`2w`, `3600`) makes it fall back to
a day, or seven days for the row. AuthService and Gateway take the setting as a constant.

### SessionLedger

The abstract specification: a session holds one usable token, passes from it to a new one, is
closed for good, and a token that stopped being usable never is again. `AuthService!KeepsLedger`
states that the rows implement it (current token of a session = its live row, spent = revoked).

### UserProfiles and MCUserProfiles

The user worker in the same style: CreateFind, CreateInsert, CreateAgain (the look-up after a
failed insert), UpdateFind, SaveDiff, SaveWrite, RemoveFind, Remove, Find, StatementFails,
Restart. Fields are model values; a patch leaves out any of them. `before` is a history variable:
which requests were answered when one was sent.

### UsersList and MCUsersList

`GET /users`: a client walks the pages while `hasNextPage`; CacheInterceptor looks its URL up (Hit,
Miss), the worker's findAndCount is two SELECTs (SelectItems, SelectCount; TypeORM leaves the second
out when a short page tells the total), the answer goes to the client and to Redis, not awaited
(Reply, Store), so writes of one key may overtake each other. Change is any creation, renaming or
removal; the columns of a profile are reduced to the sort key, what `search` matches to being in the
table. An entry carries the time at which it expires from the moment it is built; keyv returns none
that is past it. The query parameters other than `page` are the same in a walk, so `page` is the key.

### Transport and MCTransport

One queue between gateway and worker: Send, SendFails, Deliver (window of Prefetch), Finish
(reply, no acknowledgement), Receive (a late reply is dropped), Timeout, WorkerRestart
(outstanding messages return to the head of the queue in order), GatewayRestart. RabbitMQ's
own delivery timeout (thirty minutes) is not modelled: it closes the channel, which the
client library opens again only with a new connection, so it acts like WorkerRestart.

### Mailbox

The abstract specification of a queue for its callers: an accepted request is never lost, runs late
or never, runs again only after it ran, and its caller hears of it at most once and only after it
ran. `Transport!KeepsMailbox` states that the window, the requeueing and the restarts implement it;
it is what Gateway takes of the transport (a set of messages of which any may run, and of those that
ran any may run again).

### Gateway and MCGateway

The HTTP side: what the code serving a request waits for is `pc`, so one action settles one
await and starts the next. The workers are reduced to what the gateway's properties need: address,
`isActive` and `deletedAt` of an account, how many profiles an account had and which one is kept. An
operation that writes back an entity it read before (changePassword, deactivate, update, remove) is
split at its statements: `running` holds the entity of each (what it loaded of `isActive`, the profile's
number) and the columns `save()` found changed, so a save that comes late writes `isActive = true` or
`deletedAt = NULL` over what happened meanwhile, as in AuthService and UserProfiles. The others take
effect in one statement and are one step. `ensureAdmin`, which can do the same to an account at start-up,
is in AuthService only.

| code | actions |
|---|---|
| `ThrottlerGuard`, pipes of public routes | TurnedAway |
| `JwtAuthGuard`, `JwtStrategy`, `RolesGuard`, pipes | Arrive (OpenRoute, GuardedRoute), Guard (EXISTS, expiry), Enter (reply to VALIDATE, role, id and body) |
| `register` | Registered, ProfileCreated, Compensate, Compensated |
| `login`, `refresh` | LoggedIn |
| `logout` | Blacklist, Served |
| `changePassword` | PasswordChanged, Blacklist |
| `updateMe`, `update`, `remove` | ProfileFound, Deactivated, Served |
| routes of a single call | Served with ME |
| errors of a call, 8 s timeout | Throws; inside register Compensate and Compensated |
| `TimeoutInterceptor`, 10 s | HandlerTimeout: the client gets 504, the handler goes on |
| worker operations of one statement | RunRegister, RunLogin, RunValidate, RunSession (logout, me), RunCreateProfile, RunFind, each ending in Run (reply if awaited, no ack) |
| `changePassword`, `deactivate` | RunChangePassword, RunDeactivate (load); CompareAccount, SaveAccount (save); SoftRemove; StatementFails |
| `update`, `remove` of a profile | LoadProfile; CompareProfile, SaveProfile (save); RemoveProfile; StatementFails |
| restarts | WorkerRestart (its messages run again), GatewayRestart |

A message in `queue` may run at any later step, in any order, or never: this covers slow
workers, a failed publish and a lost message alike. Whom a client may send a token for is
`held`: an access token is known once a 2xx answer carried it. `revived` (accounts a late save brought
back), `closed` and `barred` (until when an entry keeps a token out) and `orphan` (the account was
deleted when the request came) are history variables.

A request writes its `Authorization` header in one of three ways (`Header`): `Bearer <t>`, the same with
more blanks, or with the scheme in another case. passport-jwt accepts each of them. The guard reads the
blacklist for what follows exactly `Bearer `: for the last form it reads nothing, and an entry made with
one form is not found with another (`Extracts`, `Listed`, `WithEntry`). So `BarredStaysOutside` speaks of a
request whose header is written as that of the request that revoked the token, and begins with `Bearer `;
a revoked token in another form is accepted by the code, and by the model.

The lifetime of a token and that of its blacklist entry come from one setting read by the two parsers of
Durations. `TtlAssumption` admits every setting for which a token is valid at all. Where the second parser
does not know the unit (`2w`, `2 days`), an entry lives one day, which may be less than the token:
`BarredStaysOutside` then says that the token is kept out for that day. `Moments` are the seconds at which
something may happen, so that an instance can jump over a day.

### Proof modules

`AuthServiceProofs` (typing, addresses, passwords), `AuthSessionProofs` (rotation, revocation, refinement of
the ledger), `UserProfilesProofs`, `TransportProofs`, `UsersListProofs`, `GatewayProofs` (typing and the
order of a removal), `GatewayBarProofs` (revoked tokens, deleted accounts), `GatewayRegisterProofs` (registered accounts).
The inductive invariants stand at the end of the specification they belong to, so that TLC can be
given them as invariants too.

## 3. Runs

| run | instance | shows |
|---|---|---|
| auth_all | 2 requests of any kind beside ensureAdmin promoting or creating the admin, 1 account + 2 free keys, 2 passwords, 2 s, 1 restart, fairness | typing; one address, one kept account; only changePassword changes a password; a rotation commits only for an active, kept account with its current role; every request is answered |
| auth_sessions | 3 of login/refresh/logout/deactivate on one account, 3 s, tokens of 2 s | sessions do not fork, the live token is the newest, revocation covers earlier tokens, refinement of SessionLedger |
| auth_collision, auth_phantom | smallest instances | two disagreements of section 6 |
| profiles | 3 requests on one account, 2 fields, 1 restart | one kept profile, createProfile idempotent, losers of a race succeed, updates in turn add up |
| profiles_removed | 2 requests | the disagreement of section 6 |
| transport | 3 calls, window 2, 2 restarts of the worker and any of the gateway, fairness | nothing lost or doubled, no more runs than the worker had lives, each promise settles once and does settle, the oldest messages run, refinement of Mailbox |
| users_list | 2 clients, 2 profiles on 2 pages, 1 change, entries and calls of 1 s, 4 s | no answer is older than an entry and a call may be; a walk over a quiet table shows each profile once |
| gateway | 2 HTTP requests of any kind, two forms of the header, an admin with a profile, 2 free accounts, 1 restart of a worker or the gateway | typing; a profile that was removed belongs to an account that was removed before; a 201 means account and profile are there, and stay unless a DELETE goes for them; a revoked token is kept out, after a restart too |
| gateway_access | 3 deletions and changes of password by and of one account, an admin with a profile; tokens and entries of 2 s; seconds 0 to 2 | a revoked token is kept out as long as its entry lives, which is as long as the token; a request for a deleted account reaches no handler unless a late save brings the account back |
| gateway_remove | 2 requests, no restart | a disagreement of section 6 |
| transport_stall | 3 calls, window 2, no restart, fairness | the disagreement of section 6 |

Bounds. Gateway's requests meet through the workers and Redis, so a pair shows most of its
hazards: one that fails half-way and one that repeats it, one that saves what it read before the other
wrote, one that revokes and one that comes after. gateway_access has three, for a deletion, a change of
password that overlaps it and a request that comes after both; a token of 2 s and seconds 0, 1, 2 let an
entry outlive one second and tell a TTL that is one too short from the right one. The run gateway has no
clock (`Moments` is empty) and two forms of the header, one that the guard reads and one that it does not;
a setting with a unit that only jsonwebtoken reads is left to the proofs. The one account these two runs
begin with is an admin who registered and was promoted, so it may send and suffer every request; in
gateway an account that registers is a plain user beside it, and the second free account is for a
registration that runs again. One branch is not reached in
these runs, the save of a profile that clashes with a new one (SaveProfile): it takes a removal, an update
and a CREATE_PROFILE that runs again, three requests and a restart. The run profiles has it.
In users_list two clients are needed for an old SET that overtakes a new one, two profiles on pages of
one for a walk, four seconds for an entry that outlives a change by Ttl + CallTimeout = 2.
Every race of two handlers shows with two requests, and a third serves as the one
that prepares or observes; with two tokens a second clock value is needed for a rotation to
succeed and a third for a rotation of the rotated token. `UserId` has a free key for every
registration that can succeed. `Prefetch` is 10 in the code; 2 is the smallest window that
fills while a call in it still runs. `MaxTime`, `Moments`, `MaxCrash`, `MaxRestart`, `MaxChanges` and `MaxInFlight` are bounds of the
instances, named in the guards. `CHECK_DEADLOCK FALSE` everywhere: once each request was sent
and answered there is nothing left to do. Requests are interchangeable and used as a symmetry
set, as are unused keys, profiles and clients, in runs without liveness.

Fairness. `AuthService!Fairness` is weak fairness of each handler: the event loop resumes a
handler whose statement returned, and PostgreSQL grants a row lock that stays free. Nothing
is assumed of the clock, of restarts, of failing statements or of clients. `Transport!Fairness`
is weak fairness of delivery inside the window, of handlers, of the reply consumer and of timers;
none of sends and restarts.

## 4. Proofs

`TypeCorrect`: `Spec => []TypeOK`, one lemma per operation over lemmas for the control
operators (Finish, Proceed, Hold).

`AddressesStayUnique`: `EmailUniqueAmongKept` is inductive with typing. What it takes is the shape of every
write (RowStep): a row is inserted behind the unique index of kept addresses, a save writes the columns
in which an entity differs from what was loaded, and the address is never one of them.

`PasswordsStay`: the action property PasswordOnlyByItsChange. `SavesSound` says of every handler that is
about to save, ensureAdmin's included, that its entity carries a password to write only if it serves a
changePassword, of the account and with the password of that request (SaveOK); so a late save cannot
bring an old hash back.

`SessionsDoNotFork`, `NoOlderTokenReturns`: at most one live token per session, and it is the
newest. Neither is inductive. `SessionInvariant` adds two things. `RotationsSound`: while a
refresh sits between its checks and its commit, its token is live, its account is active, kept
and as loaded, and no other refresh is there for the same account; this is what the row locks
buy, and its lemmas (LocksKept...) have a premise for each kind of update that waits for a lock.
`SessionsSound`: the first token of every session was issued, and no token is from the future,
so an inserted token cannot meet an existing session and a new one is the newest. A step either
leaves the tokens alone, revokes, opens or rotates (SessionsRevoked, SessionsOpened,
SessionsRotated).

`RotationNeedsActiveUser`: the action property of auth_all, from LocksHeld and TokenStep.

`RevocationCovers`: `RevokeAllCoversEarlierTokens`. `RevocationsSound` follows the tokens a request saw when
it was sent (SeenOK): a bulk UPDATE that waits for rows has every one of them that is still live in its
batch (BatchOK), and once it is done none is live (CoveredOK). A token that is not live never is again
(TokensAge), so a rotation meanwhile can add tokens but not revive one.

`SessionsAreALedger`: `KeepsLedger`, step by step. By OneLiveTokenPerSession the CHOOSE of CurrentOf is the
one live token of its session (CurrentIsLive); then an insert opens an unused session, a rotation passes
it on and spends the old token, an UPDATE closes the sessions it finds live, and every other step
stutters (InsertOpens, RotationPasses, RevocationCloses, StepOfTheLedger).

`ProfilesTypeCorrect`, `OneProfileEach`, `CreatesAnswerOneProfile`, `LosersFindTheProfile`: from
`ProfileInvariant`. StageOK ties the await of a handler to the row it holds; RowStays says that while
nobody asks to remove the profile the row a handler holds or answered is the kept one. Every step
changes the rows in one of three ways (RowSteps: an insert, a save, a removal), and the kept rows of an
account stay, become a single one, or shrink after a removal was asked for (KeptSteps); a save that
brings a deleted row back is the second case, which is why it cannot double a profile.

`UpdatesAddUp`: `TurnInvariant` adds, for each field an update sets (Carried), that the entity of that
update and of each later one carries the value, and that what a save will not write is in the row.

`TransportTypeCorrect`, `NothingIsLostOrCopied`, `RunsOncePerLife`, `PromisesSettleOnce`: from
`TransportInvariant`. `Line`, the outstanding messages before the waiting ones, is unchanged by a
delivery and by the requeueing after a restart (MoveHead), so only a publication changes it.
`CallersSeeAMailbox`: each step maps to a step of Mailbox or to none, by the action of Transport.

`UsersListTypeCorrect`, `AnswersAreRecent`: `ListInvariant`. A view is read after its call was sent and
within CallTimeout of it; an entry is stamped when the reply comes, so it expires at most Window after
its view was read, however late it is written (EntriesExpire).

`QuietWalksAreComplete`: `QuietWalkIsComplete`. If no two profiles sort alike, any rows the database may
return for a page are exactly those whose rank, the number of profiles that sort before, lies between
Skip and Skip + Limit (FrontOfTheList, PageIsSlice). `WalkInvariant` adds: what was read after the last
change is such a slice with the right total (EntryOK, ViewOK), and a quiet walk was shown the slices of
pages 1 to its own (WalkOK), since by EntriesExpire and CallsAreYoung all it can get was read after the
change. hasNextPage is false only if no rank is left (HasNextPageMeansRowsLeft), and each rank lies on
one page (OnePagePerRank).

`GatewayTypeCorrect`: typing of Gateway is inductive only with `PayloadsOK`, which ties the await
of a handler to what it kept from earlier ones (a handler past the guard has a token, one that
registers has the token of the new account).

`AccountGoesFirst`: `RemovedProfileOfRemovedAccount`. A removed account can come back, by the save of a
changePassword or a deactivate that had loaded it, so the property says *was* removed (`Gone`: deleted, or
in `revived`), and `Gone` is what no operation ends (AccountStays): a save that takes `deletedAt` off a
deleted row puts the account into `revived`. `RemovalInvariant` adds `RemovalOrder`: a REMOVE message,
waiting, under way or run before, names an account that is Gone; a DEACTIVATE message of a deletion names
the account of the profile, so its `ok`, given after softRemove, says that this account is Gone. So it does
not matter how late or how often a message runs, or what it saves. Each action of a handler sends at most
one message (HandleSends), each step of a worker concerns one (WorkOrder), and a profile ceases to be kept
only by a REMOVE (ProfileStep).

`RevokedTokensStayOut`: `BarredStaysOutside`, for every setting of the lifetimes and every form of the
header. `BarInvariant` adds: no token outlives one signed now and no entry one written now (TokensYoung), so
an entry is replaced only by one that lives as long; a logout or change of password that blacklisted its
token leaves an entry for its header until `closed` (RevocationHolds, KeptOut), and that is short of the
token's end by no more than BlacklistTtl is of JwtTtl; a request that was barred on arrival is at the guard
or over, or its entry is past (BarredAtDoor). `RevokedForGood`: with a setting in one of the documented
units the two lifetimes are equal (Lifetimes), so such a request never gets past the guard.

`DeletedAccountsStayOut`: `DeletedStaysOutside`, from the same invariant. VALIDATE asks about the account of
the token (ValidatesBearer); while it is deleted the answer is not `ok`, and it stops being deleted only by
a save that puts it into `revived` (OrphanAtDoor).

`RegisteredStaysUsable`: `RegisteredIsUsable`. `RegistrationInvariant` adds: REGISTER gives every request an
account nobody else was given, even when it runs again (AccountsApart); a DEACTIVATE message is a
deletion's, or the compensation of a register for its own account, which is past answering 201
(RegisterMessage, CompensationStays). An account is usable unless DEACTIVATE was sent for it (StaysUsable):
what a changePassword writes back it loaded from a usable account (LoadedActive). A profile is kept unless
REMOVE was sent for it (StaysKept, KeptStep), saves that bring an older one back included.

The proofs assume the named ASSUMEs of the modules only (null values are not values,
the seed accounts have distinct addresses, bounds are naturals, the routes exist); TLC evaluates
them in every run of these modules.

Only model-checked: liveness, for which the prover has neither fairness nor ENABLED
(EveryRequestAnswered, EveryCallSettles, OldestAreExecuted). Every safety invariant, action property and
refinement of the passing runs is a theorem.

## 5. Not modelled

Left out for good:

* Health probes: each request asks PostgreSQL, Redis or RabbitMQ and keeps nothing.
* Configuration and its validation, Swagger decorators, DTO decorators beyond the bounds of `page` and
  `limit`, logging, request ids: start-up wiring and documentation. What they admit is in the constants.
* The layout of the response envelope and the wording of errors. What a status decides is in Gateway:
  done, refused, not found, failed, late.
* What `search` matches, and the order of profiles with equal sort keys: UsersList lets the database
  choose any order of equal keys, so a walk is complete only for distinct ones.
* The throttler's counters: TurnedAway lets any request be refused before a call.
* Lifetimes of zero, or that jsonwebtoken cannot read: no access token is ever valid then.

Certain from the code, and judged by no property because nothing says what should be: what a deactivate
that failed half-way leaves (inactive and not deleted, or tokens not yet revoked), the account of a register
that was told 503 because REGISTER ran too late, the access token of a changePassword whose answer came too
late, a request that is past the blacklist when its token is revoked, and a revoked token whose header is
written otherwise than it was when it was revoked.

Certain as well is what else a late save() of an account can do: a changePassword, or a deactivate, that
loaded the account before ensureAdmin promoted it takes the role back (SaveWrite in AuthService), and a
changePassword that loaded it before a DELETE writes `isActive = true` and `deletedAt = NULL` after it: the
DELETE was answered 200, the account can log in again, and its profile is gone (`revived` in Gateway). The
run profiles_removed shows the same kind of save for profiles.

## 6. Disagreements between the code and its documents

Each is a run of kind "violation", with TLC's counterexample.

* `GoodTokenRotates` (auth_collision): a refresh within the second in which the presented token
  was issued builds the same JWT, hits the unique index on the hash and answers 500.
* `LogoutAllEndsSessions` (auth_phantom): "all refresh tokens for the user are revoked", but a
  rotation in flight leaves a new live one.
* `RemovedStaysRemoved` (profiles_removed): an update that loaded a profile before its removal
  writes `deletedAt = NULL`.
* `EveryRequestIsHandled` (transport_stall): nothing is acknowledged, so after Prefetch
  deliveries a worker that is up gets no more requests.
* `NotFoundMeansRemoved` (gateway_remove): a DELETE whose DEACTIVATE ran after the gateway gave
  up (or whose REMOVE failed) leaves the profile; each later DELETE finds it, gets 404 from
  DEACTIVATE and never calls REMOVE.
