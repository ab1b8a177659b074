----------------------------- MODULE UsersList -----------------------------
(***************************************************************************)
(* GET /users: pages of the list of users, read by the user worker and     *)
(* kept in Redis for thirty seconds under the URL of the request.  Nothing *)
(* invalidates an entry when a profile changes.                            *)
(*                                                                         *)
(* A client (an admin; the guards have passed) walks the list from page 1  *)
(* while meta.hasNextPage is true.  pc[c] is what its request waits for:   *)
(*                                                                         *)
(*   get                          Redis GET                                *)
(*   items -> count -> reply      the two SELECTs of findAndCount          *)
(*                                                                         *)
(* The entry is written after the answer, not awaited, from any process of *)
(* the gateway, so writes of one key may overtake each other.  Profiles    *)
(* are created, renamed and removed at any time.                           *)
(***************************************************************************)
EXTENDS Integers, FiniteSets

CONSTANTS
  Client,
  Row,          \* profiles; those that match query.search are in the table
  Key,          \* values of the column the list is sorted by
  Limit,        \* query.limit
  Ttl,          \* @CacheTTL(30_000)
  CallTimeout,  \* PROXY timeout of a call to a worker, 8_000
  MaxTime,      \* bound on the clock
  MaxChanges,   \* bound on changes of the table
  MaxInFlight   \* bound on SETs under way when a page is asked for

ASSUME KeyAssumption == Key \subseteq Int /\ IsFiniteSet(Row)
ASSUME LimitAssumption == Limit \in Nat \ {0}
ASSUME TimeAssumption == Ttl \in Nat /\ CallTimeout \in Nat /\ MaxTime \in Nat
ASSUME BoundAssumption == MaxChanges \in Nat /\ MaxInFlight \in Nat

Page == Nat \ {0}

VARIABLES
  table,    \* sort keys of the profiles that are not removed
  cache,    \* Redis: entries by URL, of which only the page varies
  writes,   \* SETs under way to Redis
  now,
  pc, page, \* what a client's request waits for, the page it is for
  view,     \* the result the worker is building
  sent,     \* when the worker was called
  seen,     \* history: what a quiet walk was shown, as <<page, row>>
  quiet,    \* history: no change since more than Window before the walk began
  changed,  \* history: when the table last changed
  changes   \* number of changes

walk == <<seen, quiet>>
call == <<view, sent>>
tables == <<table, changed, changes>>
vars == <<table, cache, writes, now, pc, page, view, sent, seen, quiet,
          changed, changes>>

Kept == DOMAIN table
View == [items : SUBSET Row, total : Nat, readAt : Nat]
Blank == [items |-> {}, total |-> 0, readAt |-> 0]
Entry == [page : Page, view : View, expires : Nat]

(* An answer is as old as an entry may be and as a call may take.          *)
Window == Ttl + CallTimeout

-----------------------------------------------------------------------------
(* Pagination                                                              *)

SkipOnePage(p) == p * Limit                                        \* mutant
Skip(p) == (p - 1) * Limit

TotalPages(total) == (total + Limit - 1) \div Limit
HasNextPage(v, p) == p < TotalPages(v.total)

UpTo(n, m) == IF n < m THEN n ELSE m

(* ORDER BY one column: equal keys come in any order, each time anew.      *)
Before(S, T) == \A r \in S, s \in T : table[r] <= table[s]
PageRows(p) ==
  LET n == Cardinality(Kept)
      skipped == UpTo(Skip(p), n)
      taken == UpTo(Limit, n - skipped) IN
  {S \in SUBSET Kept :
     /\ Cardinality(S) = taken
     /\ \E T \in SUBSET (Kept \ S) :
          /\ Cardinality(T) = skipped
          /\ Before(T, Kept \ T)
          /\ Before(S, Kept \ (S \cup T))}

-----------------------------------------------------------------------------
Init ==
  /\ table \in UNION {[S -> Key] : S \in SUBSET Row}
  /\ cache = {} /\ writes = {}
  /\ now = 0
  /\ pc = [c \in Client |-> "idle"]
  /\ page = [c \in Client |-> 1]
  /\ view = [c \in Client |-> Blank]
  /\ sent = [c \in Client |-> 0]
  /\ seen = [c \in Client |-> {}]
  /\ quiet = [c \in Client |-> FALSE]
  /\ changed = -Window - 1   \* long ago
  /\ changes = 0

Go(c, stage) == pc' = [pc EXCEPT ![c] = stage]

Forget(c) ==
  /\ view' = [view EXCEPT ![c] = Blank]
  /\ sent' = [sent EXCEPT ![c] = 0]

(* The client asks for page 1, having given up or ended its last walk; the *)
(* DTO admits no page below.                                               *)
StartBelow(c) ==                                                   \* mutant
  /\ pc[c] \in {"idle", "answered", "done"}
  /\ Cardinality(writes) < MaxInFlight
  /\ Go(c, "get")
  /\ page' = [page EXCEPT ![c] = 0]
  /\ seen' = [seen EXCEPT ![c] = {}]
  /\ quiet' = [quiet EXCEPT ![c] = changed + Window < now]
  /\ UNCHANGED <<tables, cache, writes, now, call>>

Start(c) ==
  /\ pc[c] \in {"idle", "answered", "done"}
  /\ Cardinality(writes) < MaxInFlight
  /\ Go(c, "get")
  /\ page' = [page EXCEPT ![c] = 1]
  /\ seen' = [seen EXCEPT ![c] = {}]
  /\ quiet' = [quiet EXCEPT ![c] = changed + Window < now]
  /\ UNCHANGED <<tables, cache, writes, now, call>>

NextPage(c) ==
  /\ pc[c] = "answered"
  /\ Cardinality(writes) < MaxInFlight
  /\ Go(c, "get")
  /\ page' = [page EXCEPT ![c] = @ + 1]
  /\ UNCHANGED <<tables, cache, writes, now, call, walk>>

-----------------------------------------------------------------------------
(* CacheInterceptor                                                        *)

(* The client gets a page, and stops after the last.                       *)
Answer(c, v) ==
  /\ Forget(c)
  /\ seen' = [seen EXCEPT ![c] = IF quiet[c] THEN @ \cup ({page[c]} \X v.items) ELSE @]
  /\ Go(c, IF HasNextPage(v, page[c]) THEN "answered" ELSE "done")
  /\ UNCHANGED <<tables, cache, now, page, quiet>>

(* GET returns an entry that is not past its stamp (see Tick).  One that   *)
(* was replaced since Redis read it is one whose SET comes later.          *)
Hit(c) ==
  /\ pc[c] = "get"
  /\ \E e \in cache : e.page = page[c] /\ Answer(c, e.view)
  /\ UNCHANGED writes

(* Nothing there, too old, evicted, or Redis gave an error.                *)
Miss(c) ==
  /\ pc[c] = "get"
  /\ Go(c, "items")
  /\ sent' = [sent EXCEPT ![c] = now]
  /\ UNCHANGED <<tables, cache, writes, now, page, view, walk>>

(* The reply of the worker is passed on, and written with the time it      *)
(* expires, not awaited.                                                   *)
Reply(c) ==
  /\ pc[c] = "reply"
  /\ Answer(c, view[c])
  /\ writes' = writes \cup {[page |-> page[c], view |-> view[c], expires |-> now + Ttl]}

(* SET replaces the entry, or its error is logged.                         *)
StoreStamping(e) ==                                                \* mutant
  LET f == [e EXCEPT !.expires = now + Ttl] IN
  /\ writes' = writes \ {e}
  /\ cache' \in {cache, {d \in cache : d.page # e.page} \cup {f}}
  /\ UNCHANGED <<tables, now, pc, page, call, walk>>
Store(e) ==
  /\ writes' = writes \ {e}
  /\ cache' \in {cache, {d \in cache : d.page # e.page} \cup {e}}
  /\ UNCHANGED <<tables, now, pc, page, call, walk>>

-----------------------------------------------------------------------------
(* The call to the worker: UsersService.findAll                            *)

(* SELECT ... ORDER BY ... LIMIT ... OFFSET.  A page that is neither full  *)
(* nor beyond the end tells the total without a second SELECT.             *)
SelectItems(c) ==
  LET p == page[c] IN
  /\ pc[c] = "items"
  /\ \E S \in PageRows(p) :
       LET short == Cardinality(S) < Limit /\ (S # {} \/ p = 1) IN
       /\ view' = [view EXCEPT ![c] =
                    [items |-> S, readAt |-> now,
                     total |-> IF short THEN Skip(p) + Cardinality(S) ELSE 0]]
       /\ Go(c, IF short THEN "reply" ELSE "count")
  /\ UNCHANGED <<tables, cache, writes, now, page, sent, walk>>

(* SELECT COUNT, in a snapshot of its own.                                 *)
SelectCount(c) ==
  /\ pc[c] = "count"
  /\ view' = [view EXCEPT ![c].total = Cardinality(Kept)]
  /\ Go(c, "reply")
  /\ UNCHANGED <<tables, cache, writes, now, page, sent, walk>>

(* The call fails, or its time is up; an error is not cached.              *)
Calling(c) == pc[c] \in {"items", "count", "reply"}
End(c) ==
  /\ Go(c, "idle")
  /\ Forget(c)
  /\ page' = [page EXCEPT ![c] = 1]
  /\ seen' = [seen EXCEPT ![c] = {}]
  /\ quiet' = [quiet EXCEPT ![c] = FALSE]
CallFails(c) ==
  /\ Calling(c)
  /\ End(c)
  /\ UNCHANGED <<tables, cache, writes, now>>

-----------------------------------------------------------------------------
(* The world                                                               *)

(* A profile is created, renamed or removed, or begins or ends to match.   *)
Change ==
  /\ changes < MaxChanges
  /\ \/ \E r \in Row, k \in Key :
          table' = [s \in Kept \cup {r} |-> IF s = r THEN k ELSE table[s]]
     \/ \E r \in Kept : table' = [s \in Kept \ {r} |-> table[s]]
  /\ changed' = now
  /\ quiet' = [c \in Client |-> FALSE]
  /\ seen' = [c \in Client |-> {}]
  /\ changes' = changes + 1
  /\ UNCHANGED <<cache, writes, now, pc, page, call>>

(* Time passes; a call whose time is up has failed first.  Every entry     *)
(* carries the time until which keyv returns it, also one that is not in   *)
(* Redis yet; entries past it are left out of the state.                   *)
Fresh(S) == {e \in S : now + 1 <= e.expires}
Tick ==
  /\ now < MaxTime
  /\ \A c \in Client : Calling(c) => now < sent[c] + CallTimeout
  /\ now' = now + 1
  /\ cache' = Fresh(cache)
  /\ writes' = Fresh(writes)
  /\ UNCHANGED <<tables, pc, page, call, walk>>

Serve(c) ==
  \/ Hit(c) \/ Miss(c)
  \/ SelectItems(c) \/ SelectCount(c) \/ Reply(c) \/ CallFails(c)

Next ==
  \/ \E c \in Client : Start(c) \/ NextPage(c) \/ Serve(c)
  \/ \E e \in writes : Store(e)
  \/ Change
  \/ Tick

Spec == Init /\ [][Next]_vars

-----------------------------------------------------------------------------
(* Properties                                                              *)

TypeOK ==
  /\ Kept \subseteq Row /\ table \in [Kept -> Key]
  /\ cache \in SUBSET Entry /\ writes \in SUBSET Entry
  /\ now \in 0 .. MaxTime
  /\ pc \in [Client -> {"idle", "get", "items", "count", "reply",
                        "answered", "done"}]
  /\ page \in [Client -> Page]
  /\ view \in [Client -> View]
  /\ sent \in [Client -> Nat] /\ quiet \in [Client -> BOOLEAN]
  /\ seen \in [Client -> SUBSET (Page \X Row)]
  /\ changed \in Int /\ changes \in 0 .. MaxChanges

(* No page a client gets was read from the table more than thirty seconds  *)
(* and one call ago, however slow the worker was, however late the entry   *)
(* was written and whichever write of it came last.                        *)
Answerable == {e.view : e \in cache} \cup {view[c] : c \in {d \in Client : pc[d] = "reply"}}
AnswerIsRecent == \A v \in Answerable : now <= v.readAt + Window

(* Once the table has been quiet for as long, a client that walks to the   *)
(* last page is shown every profile exactly once, whatever mixture of      *)
(* entries and fresh pages it gets, if no two profiles sort alike.         *)
Distinct == \A r, s \in Kept : table[r] = table[s] => r = s
QuietWalkIsComplete ==
  \A c \in Client :
    pc[c] = "done" /\ quiet[c] /\ Distinct =>
      \A r \in Row : Cardinality({p \in 1 .. page[c] : <<p, r>> \in seen[c]})
                       = IF r \in Kept THEN 1 ELSE 0

-----------------------------------------------------------------------------
(* What makes the age of answers inductive                                 *)

(* A call is as old as its timeout admits, and reads the table after it    *)
(* was sent; an entry expires within the window of its reading.            *)
CallsAreYoung ==
  \A c \in Client : Calling(c) => sent[c] <= now /\ now <= sent[c] + CallTimeout
ViewsAreYoung ==
  \A c \in Client :
    pc[c] \in {"count", "reply"} => sent[c] <= view[c].readAt /\ view[c].readAt <= now
EntriesExpire ==
  \A e \in cache \cup writes : now <= e.expires /\ e.expires <= e.view.readAt + Window

ListInvariant == TypeOK /\ CallsAreYoung /\ ViewsAreYoung /\ EntriesExpire

-----------------------------------------------------------------------------
(* What makes the completeness of a quiet walk inductive                   *)

(* The rows of a page, if no two profiles sort alike.                      *)
Below(r) == {s \in Kept : table[s] < table[r]}
Rank(r) == Cardinality(Below(r))
Slice(p) == {r \in Kept : Skip(p) <= Rank(r) /\ Rank(r) < Skip(p) + Limit}
Shown(p) == {x \in (1 .. p) \X Row : x[2] \in Slice(x[1])}

(* What was read after the last change is what is there now.               *)
EntryOK(e) ==
  /\ e.view.readAt <= now
  /\ Distinct /\ changed < e.view.readAt =>
       e.view.items = Slice(e.page) /\ e.view.total = Cardinality(Kept)
ViewOK(c) ==
  pc[c] \in {"count", "reply"} /\ Distinct /\ changed < view[c].readAt =>
    /\ view[c].items = Slice(page[c])
    /\ pc[c] = "reply" => view[c].total = Cardinality(Kept)

(* A quiet walk was shown the pages before its own, or up to it.           *)
WalkOK(c) ==
  quiet[c] =>
    /\ changed + Window < now
    /\ pc[c] # "idle"
    /\ Distinct =>
         /\ pc[c] \in {"answered", "done"} => seen[c] = Shown(page[c])
         /\ pc[c] \notin {"answered", "done"} => seen[c] = Shown(page[c] - 1)
         /\ pc[c] = "done" => Cardinality(Kept) <= Skip(page[c]) + Limit

WalkInvariant ==
  /\ ListInvariant
  /\ \A e \in cache \cup writes : EntryOK(e)
  /\ \A c \in Client : ViewOK(c) /\ WalkOK(c)

=============================================================================
