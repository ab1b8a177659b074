-------------------------- MODULE UsersListProofs --------------------------
(***************************************************************************)
(* UsersList for any clients, profiles, page size, lifetime of entries and *)
(* duration of calls: typing, that no answer is older than an entry and a  *)
(* call together, and that a walk over a quiet table shows every profile   *)
(* exactly once.                                                           *)
(***************************************************************************)
EXTENDS UsersList, FiniteSetTheorems, TLAPS

-----------------------------------------------------------------------------
(* Pagination                                                              *)

(* Skipping never goes below the start of the table.                       *)
LEMMA SkipIsNatural ==
  ASSUME NEW p \in Page
  PROVE  Skip(p) \in Nat
  <1>1. p - 1 \in Nat /\ Limit \in Nat
    BY LimitAssumption DEF Page
  <1> QED BY <1>1 DEF Skip

(* meta.hasNextPage says that rows are left behind the page.               *)
LEMMA HasNextPageMeansRowsLeft ==
  ASSUME NEW p \in Page, NEW v \in View
  PROVE  HasNextPage(v, p) <=> Skip(p) + Limit < v.total
  <1> DEFINE n == v.total
             q == TotalPages(n)
  <1>1. n \in Nat /\ p \in Nat \ {0} /\ Limit \in Nat \ {0}
    BY LimitAssumption DEF View, Page
  <1>2. q \in Int /\ q * Limit <= n + Limit - 1 /\ n + Limit - 1 < q * Limit + Limit
    <2> DEFINE m == n + Limit - 1
    <2>1. m \in Nat
      BY <1>1
    <2> HIDE DEF m
    <2>2. m \div Limit \in Int /\ Limit * (m \div Limit) <= m /\ m < Limit * (m \div Limit) + Limit
      BY <2>1, <1>1, SMTT(30)
    <2>3. q = m \div Limit
      BY DEF TotalPages, m
    <2> HIDE DEF q
    <2> QED BY <2>2, <2>3, <1>1, SMTT(30) DEF m
  <1>3. Skip(p) + Limit = p * Limit
    BY <1>1, SMTT(30) DEF Skip
  <1> HIDE DEF q, n
  <1>4. p < q <=> p * Limit < n
    <2>1. ASSUME p < q PROVE p * Limit < n
      <3>1. (p + 1) * Limit <= q * Limit
        BY <2>1, <1>1, <1>2, SMTT(30)
      <3>2. (p + 1) * Limit = p * Limit + Limit
        BY <1>1, SMTT(30)
      <3>3. p * Limit \in Int /\ q * Limit \in Int /\ Limit \in Int
        BY <1>1, <1>2
      <3> QED BY <3>1, <3>2, <3>3, <1>1, <1>2
    <2>2. ASSUME ~ (p < q) PROVE ~ (p * Limit < n)
      <3>1. q * Limit <= p * Limit
        BY <2>2, <1>1, <1>2, SMTT(30)
      <3>2. p * Limit \in Int /\ q * Limit \in Int
        BY <1>1, <1>2
      <3> QED BY <3>1, <3>2, <1>1, <1>2
    <2> QED BY <2>1, <2>2
  <1> QED BY <1>3, <1>4 DEF HasNextPage, n, q

-----------------------------------------------------------------------------
(* The worker and the cache                                                *)

(* Any page of any table has a size.                                       *)
LEMMA PageIsFinite ==
  ASSUME TypeOK, NEW p \in Page, NEW S \in PageRows(p)
  PROVE  S \subseteq Row /\ Cardinality(S) \in Nat
  <1>1. S \subseteq Row
    BY DEF PageRows, TypeOK
  <1> QED BY <1>1, KeyAssumption, FS_Subset, FS_CardinalityType

(* The table of rows has a size at all times.                              *)
LEMMA TableIsFinite ==
  ASSUME TypeOK
  PROVE  Cardinality(Kept) \in Nat
  BY KeyAssumption, FS_Subset, FS_CardinalityType DEF TypeOK

LEMMA WindowIsNatural == Window \in Nat /\ Ttl \in Nat /\ CallTimeout \in Nat
  BY TimeAssumption DEF Window

LEMMA BlankIsView == Blank \in View /\ Blank.readAt = 0
  BY DEF Blank, View

(* Giving an answer to the client leaves no call behind.                   *)
LEMMA AnswerInvariant ==
  ASSUME ListInvariant, NEW c \in Client, NEW v \in View, Answer(c, v),
         writes' \subseteq Entry,
         \A e \in writes' : now <= e.expires /\ e.expires <= e.view.readAt + Window
  PROVE  ListInvariant'
  <1> USE DEF ListInvariant
  <1>1. /\ view' = [view EXCEPT ![c] = Blank] /\ sent' = [sent EXCEPT ![c] = 0]
        /\ pc' = [pc EXCEPT ![c] = IF HasNextPage(v, page[c]) THEN "answered" ELSE "done"]
        /\ seen' = [seen EXCEPT ![c] =
                     IF quiet[c] THEN seen[c] \cup ({page[c]} \X v.items) ELSE seen[c]]
        /\ table' = table /\ changed' = changed /\ changes' = changes
        /\ cache' = cache /\ now' = now /\ page' = page /\ quiet' = quiet
    BY DEF Answer, Forget, Go, tables
  <1>2. TypeOK'
    <2>1. {page[c]} \X v.items \subseteq Page \X Row
      BY DEF TypeOK, View
    <2>2. seen' \in [Client -> SUBSET (Page \X Row)]
      BY <1>1, <2>1 DEF TypeOK
    <2>3. pc' \in [Client -> {"idle", "get", "items", "count", "reply", "answered", "done"}]
      BY <1>1 DEF TypeOK
    <2>4. view' \in [Client -> View] /\ sent' \in [Client -> Nat]
      BY <1>1, BlankIsView DEF TypeOK
    <2> QED BY <1>1, <2>2, <2>3, <2>4 DEF TypeOK, Kept
  <1>3. \A d \in Client : d # c =>
          pc'[d] = pc[d] /\ sent'[d] = sent[d] /\ view'[d] = view[d]
    BY <1>1 DEF TypeOK
  <1>4. pc'[c] \in {"answered", "done"}
    BY <1>1 DEF TypeOK
  <1>5. CallsAreYoung' /\ ViewsAreYoung'
    BY <1>1, <1>3, <1>4 DEF CallsAreYoung, ViewsAreYoung, Calling
  <1>6. EntriesExpire'
    BY <1>1 DEF EntriesExpire
  <1> QED BY <1>2, <1>5, <1>6

LEMMA HitInvariant ==
  ASSUME ListInvariant, NEW c \in Client, Hit(c)
  PROVE  ListInvariant'
  <1>1. PICK e \in cache : Answer(c, e.view)
    BY DEF Hit
  <1>2. e.view \in View /\ writes' = writes
    BY <1>1 DEF Hit, ListInvariant, TypeOK, Entry
  <1>3. writes' \subseteq Entry
        /\ \A f \in writes' : now <= f.expires /\ f.expires <= f.view.readAt + Window
    BY <1>2 DEF ListInvariant, TypeOK, EntriesExpire
  <1> QED BY <1>1, <1>2, <1>3, AnswerInvariant

LEMMA ReplyInvariant ==
  ASSUME ListInvariant, NEW c \in Client, Reply(c)
  PROVE  ListInvariant'
  <1> USE DEF ListInvariant
  <1> DEFINE e == [page |-> page[c], view |-> view[c], expires |-> now + Ttl]
  <1>1. pc[c] = "reply" /\ Answer(c, view[c]) /\ writes' = writes \cup {e}
    BY DEF Reply
  <1>2. view[c] \in View /\ page[c] \in Page /\ now \in Nat /\ sent[c] \in Nat
        /\ view[c].readAt \in Nat
    BY DEF TypeOK, View
  <1>3. e \in Entry /\ e.expires = now + Ttl /\ e.view = view[c]
    BY <1>2, WindowIsNatural DEF Entry
  <1>4. now <= e.expires /\ e.expires <= e.view.readAt + Window
    <2>1. now <= sent[c] + CallTimeout /\ sent[c] <= view[c].readAt
      BY <1>1 DEF CallsAreYoung, ViewsAreYoung, Calling
    <2> QED BY <2>1, <1>2, <1>3, WindowIsNatural DEF Window
  <1> HIDE DEF e
  <1>5. writes' \subseteq Entry
        /\ \A f \in writes' : now <= f.expires /\ f.expires <= f.view.readAt + Window
    BY <1>1, <1>3, <1>4 DEF TypeOK, EntriesExpire
  <1> QED BY <1>1, <1>2, <1>5, AnswerInvariant

(* An operation that leaves time, entries and the calls of others alone.   *)
LEMMA ClientInvariant ==
  ASSUME ListInvariant, NEW c \in Client, TypeOK', UNCHANGED <<now, cache, writes>>,
         \A d \in Client \ {c} : pc'[d] = pc[d] /\ sent'[d] = sent[d] /\ view'[d] = view[d],
         Calling(c)' => sent'[c] <= now /\ now <= sent'[c] + CallTimeout,
         pc'[c] \in {"count", "reply"} => sent'[c] <= view'[c].readAt /\ view'[c].readAt <= now
  PROVE  ListInvariant'
  <1> USE DEF ListInvariant
  <1>1. CallsAreYoung'
    BY DEF CallsAreYoung, Calling
  <1>2. ViewsAreYoung'
    BY DEF ViewsAreYoung
  <1>3. EntriesExpire'
    BY DEF EntriesExpire
  <1> QED BY <1>1, <1>2, <1>3

LEMMA StartInvariant ==
  ASSUME ListInvariant, NEW c \in Client, Start(c) \/ NextPage(c)
  PROVE  ListInvariant'
  <1>1. /\ pc' = [pc EXCEPT ![c] = "get"]
        /\ page' \in [Client -> Page]
        /\ seen' \in [Client -> SUBSET (Page \X Row)]
        /\ quiet' \in [Client -> BOOLEAN]
        /\ view' = view /\ sent' = sent
        /\ table' = table /\ changed' = changed /\ changes' = changes
        /\ cache' = cache /\ writes' = writes /\ now' = now
    <2>1. CASE Start(c)
      BY <2>1 DEF Start, Go, tables, call, ListInvariant, TypeOK, Page
    <2>2. CASE NextPage(c)
      BY <2>2 DEF NextPage, Go, tables, call, walk, ListInvariant, TypeOK, Page
    <2> QED BY <2>1, <2>2
  <1>2. TypeOK'
    BY <1>1 DEF ListInvariant, TypeOK, Kept
  <1>3. pc'[c] = "get" /\ ~Calling(c)' /\ (\A d \in Client \ {c} : pc'[d] = pc[d])
    BY <1>1 DEF ListInvariant, TypeOK, Calling
  <1> QED BY <1>1, <1>2, <1>3, ClientInvariant

LEMMA MissInvariant ==
  ASSUME ListInvariant, NEW c \in Client, Miss(c)
  PROVE  ListInvariant'
  <1>1. /\ pc' = [pc EXCEPT ![c] = "items"] /\ sent' = [sent EXCEPT ![c] = now]
        /\ view' = view /\ page' = page /\ seen' = seen /\ quiet' = quiet
        /\ table' = table /\ changed' = changed /\ changes' = changes
        /\ cache' = cache /\ writes' = writes /\ now' = now
    BY DEF Miss, Go, tables, walk
  <1>2. now \in Nat
    BY DEF ListInvariant, TypeOK
  <1>3. TypeOK'
    BY <1>1, <1>2 DEF ListInvariant, TypeOK, Kept
  <1>4. pc'[c] = "items" /\ sent'[c] = now
        /\ (\A d \in Client \ {c} : pc'[d] = pc[d] /\ sent'[d] = sent[d])
    BY <1>1 DEF ListInvariant, TypeOK
  <1>5. sent'[c] <= now /\ now <= sent'[c] + CallTimeout
    BY <1>2, <1>4, WindowIsNatural
  <1> QED BY <1>1, <1>3, <1>4, <1>5, ClientInvariant

LEMMA SelectItemsInvariant ==
  ASSUME ListInvariant, NEW c \in Client, SelectItems(c)
  PROVE  ListInvariant'
  <1> USE DEF ListInvariant
  <1> DEFINE p == page[c]
             short(S) == Cardinality(S) < Limit /\ (S # {} \/ p = 1)
             v(S) == [items |-> S, readAt |-> now,
                      total |-> IF short(S) THEN Skip(p) + Cardinality(S) ELSE 0]
  <1>1. PICK S \in PageRows(p) : /\ view' = [view EXCEPT ![c] = v(S)]
                                 /\ pc' = [pc EXCEPT ![c] = IF short(S) THEN "reply" ELSE "count"]
    BY DEF SelectItems, Go
  <1>2. /\ pc[c] = "items"
        /\ sent' = sent /\ page' = page /\ seen' = seen /\ quiet' = quiet
        /\ table' = table /\ changed' = changed /\ changes' = changes
        /\ cache' = cache /\ writes' = writes /\ now' = now
    BY DEF SelectItems, tables, walk
  <1>3. p \in Page /\ now \in Nat
    BY DEF TypeOK
  <1>4. S \subseteq Row /\ Cardinality(S) \in Nat /\ Skip(p) \in Nat
    BY <1>3, PageIsFinite, SkipIsNatural
  <1>5. v(S) \in View /\ v(S).readAt = now
    BY <1>3, <1>4 DEF View
  <1>6. pc' \in [Client -> {"idle", "get", "items", "count", "reply", "answered", "done"}]
        /\ pc'[c] \in {"count", "reply"} /\ (\A d \in Client \ {c} : pc'[d] = pc[d])
    BY <1>1 DEF TypeOK
  <1> HIDE DEF v
  <1>7. view' \in [Client -> View] /\ view'[c] = v(S)
        /\ (\A d \in Client \ {c} : view'[d] = view[d])
    BY <1>1, <1>5 DEF TypeOK
  <1>8. TypeOK'
    BY <1>2, <1>6, <1>7 DEF TypeOK, Kept
  <1>9. sent'[c] = sent[c] /\ sent[c] <= now /\ now <= sent[c] + CallTimeout
    BY <1>2 DEF CallsAreYoung, Calling
  <1>10. view'[c].readAt = now /\ sent'[c] <= now /\ now <= now
    BY <1>3, <1>5, <1>7, <1>9
  <1> QED BY <1>2, <1>6, <1>7, <1>8, <1>9, <1>10, ClientInvariant

LEMMA SelectCountInvariant ==
  ASSUME ListInvariant, NEW c \in Client, SelectCount(c)
  PROVE  ListInvariant'
  <1> USE DEF ListInvariant
  <1>1. /\ pc[c] = "count" /\ pc' = [pc EXCEPT ![c] = "reply"]
        /\ view' = [view EXCEPT ![c].total = Cardinality(Kept)]
        /\ sent' = sent /\ page' = page /\ seen' = seen /\ quiet' = quiet
        /\ table' = table /\ changed' = changed /\ changes' = changes
        /\ cache' = cache /\ writes' = writes /\ now' = now
    BY DEF SelectCount, Go, tables, walk
  <1>2. Cardinality(Kept) \in Nat
    BY TableIsFinite
  <1>3. view' \in [Client -> View] /\ view'[c].readAt = view[c].readAt
        /\ (\A d \in Client \ {c} : view'[d] = view[d])
    BY <1>1, <1>2 DEF TypeOK, View
  <1>4. pc'[c] = "reply" /\ (\A d \in Client \ {c} : pc'[d] = pc[d])
    BY <1>1 DEF TypeOK
  <1>5. TypeOK'
    BY <1>1, <1>3 DEF TypeOK, Kept
  <1>6. /\ sent[c] <= now /\ now <= sent[c] + CallTimeout
        /\ sent[c] <= view[c].readAt /\ view[c].readAt <= now
    BY <1>1 DEF CallsAreYoung, ViewsAreYoung, Calling
  <1> QED BY <1>1, <1>3, <1>4, <1>5, <1>6, ClientInvariant

LEMMA CallFailsInvariant ==
  ASSUME ListInvariant, NEW c \in Client, CallFails(c)
  PROVE  ListInvariant'
  <1>1. /\ pc' = [pc EXCEPT ![c] = "idle"] /\ page' = [page EXCEPT ![c] = 1]
        /\ view' = [view EXCEPT ![c] = Blank] /\ sent' = [sent EXCEPT ![c] = 0]
        /\ seen' = [seen EXCEPT ![c] = {}] /\ quiet' = [quiet EXCEPT ![c] = FALSE]
        /\ table' = table /\ changed' = changed /\ changes' = changes
        /\ cache' = cache /\ writes' = writes /\ now' = now
    BY DEF CallFails, End, Go, Forget, tables
  <1>2. TypeOK'
    BY <1>1, BlankIsView DEF ListInvariant, TypeOK, Kept, Page
  <1>3. pc'[c] = "idle" /\ ~Calling(c)'
        /\ (\A d \in Client \ {c} : pc'[d] = pc[d] /\ sent'[d] = sent[d] /\ view'[d] = view[d])
    BY <1>1 DEF ListInvariant, TypeOK, Calling
  <1> QED BY <1>1, <1>2, <1>3, ClientInvariant

(* Writes reach Redis late, out of order or never; none is renewed.        *)
LEMMA StoreInvariant ==
  ASSUME ListInvariant, NEW e \in writes, Store(e)
  PROVE  ListInvariant'
  <1> USE DEF ListInvariant
  <1>1. /\ writes' \subseteq writes /\ cache' \subseteq cache \cup {e}
        /\ table' = table /\ changed' = changed /\ changes' = changes /\ now' = now
        /\ pc' = pc /\ page' = page /\ view' = view /\ sent' = sent
        /\ seen' = seen /\ quiet' = quiet
    BY DEF Store, tables, call, walk
  <1>2. TypeOK'
    BY <1>1 DEF TypeOK, Kept
  <1>3. CallsAreYoung' /\ ViewsAreYoung'
    BY <1>1 DEF CallsAreYoung, ViewsAreYoung, Calling
  <1>4. EntriesExpire'
    BY <1>1 DEF EntriesExpire
  <1> QED BY <1>2, <1>3, <1>4

-----------------------------------------------------------------------------
(* The world                                                               *)

LEMMA ChangeInvariant ==
  ASSUME ListInvariant, Change
  PROVE  ListInvariant'
  <1> USE DEF ListInvariant
  <1>1. /\ changes < MaxChanges /\ changed' = now /\ changes' = changes + 1
        /\ quiet' = [c \in Client |-> FALSE] /\ seen' = [c \in Client |-> {}]
        /\ cache' = cache /\ writes' = writes /\ now' = now
        /\ pc' = pc /\ page' = page /\ view' = view /\ sent' = sent
    BY DEF Change, call
  <1>2. DOMAIN table' \subseteq Row /\ table' \in [DOMAIN table' -> Key]
    <2>1. CASE \E r \in Row, k \in Key :
                 table' = [s \in Kept \cup {r} |-> IF s = r THEN k ELSE table[s]]
      <3>1. PICK r \in Row, k \in Key :
              table' = [s \in Kept \cup {r} |-> IF s = r THEN k ELSE table[s]]
        BY <2>1
      <3> QED BY <3>1 DEF TypeOK
    <2>2. CASE \E r \in Kept : table' = [s \in Kept \ {r} |-> table[s]]
      <3>1. PICK r \in Kept : table' = [s \in Kept \ {r} |-> table[s]]
        BY <2>2
      <3> QED BY <3>1 DEF TypeOK
    <2> QED BY <2>1, <2>2 DEF Change
  <1>3. changed' \in Int /\ changes' \in 0 .. MaxChanges
    BY <1>1, BoundAssumption DEF TypeOK
  <1>4. TypeOK'
    BY <1>1, <1>2, <1>3 DEF TypeOK, Kept
  <1>5. CallsAreYoung' /\ ViewsAreYoung'
    BY <1>1 DEF CallsAreYoung, ViewsAreYoung, Calling
  <1>6. EntriesExpire'
    BY <1>1 DEF EntriesExpire
  <1> QED BY <1>4, <1>5, <1>6

LEMMA TickInvariant ==
  ASSUME ListInvariant, Tick
  PROVE  ListInvariant'
  <1> USE DEF ListInvariant
  <1>1. /\ now < MaxTime /\ now' = now + 1
        /\ cache' = Fresh(cache) /\ writes' = Fresh(writes)
        /\ table' = table /\ changed' = changed /\ changes' = changes
        /\ pc' = pc /\ page' = page /\ view' = view /\ sent' = sent
        /\ seen' = seen /\ quiet' = quiet
        /\ \A c \in Client : Calling(c) => now < sent[c] + CallTimeout
    BY DEF Tick, tables, call, walk
  <1>2. now \in Nat /\ now' \in 0 .. MaxTime
    BY <1>1, TimeAssumption DEF TypeOK
  <1>3. TypeOK'
    BY <1>1, <1>2 DEF TypeOK, Kept, Fresh
  <1>4. CallsAreYoung'
    <2> SUFFICES ASSUME NEW c \in Client, Calling(c)
                 PROVE  sent[c] <= now + 1 /\ now + 1 <= sent[c] + CallTimeout
      BY <1>1 DEF CallsAreYoung, Calling
    <2>1. sent[c] <= now /\ now < sent[c] + CallTimeout /\ sent[c] \in Nat
      BY <1>1 DEF CallsAreYoung, TypeOK
    <2> QED BY <2>1, <1>2, WindowIsNatural
  <1>5. ViewsAreYoung'
    <2> SUFFICES ASSUME NEW c \in Client, pc[c] \in {"count", "reply"}
                 PROVE  sent[c] <= view[c].readAt /\ view[c].readAt <= now + 1
      BY <1>1 DEF ViewsAreYoung
    <2>1. sent[c] <= view[c].readAt /\ view[c].readAt <= now /\ view[c].readAt \in Nat
      BY DEF ViewsAreYoung, TypeOK, View
    <2> QED BY <2>1, <1>2
  <1>6. EntriesExpire'
    BY <1>1 DEF EntriesExpire, Fresh
  <1> QED BY <1>3, <1>4, <1>5, <1>6

-----------------------------------------------------------------------------
LEMMA InvariantInit == Init => ListInvariant
  <1> SUFFICES ASSUME Init PROVE ListInvariant
    OBVIOUS
  <1>1. PICK S \in SUBSET Row : table \in [S -> Key]
    BY DEF Init
  <1>2. now = 0 /\ cache = {} /\ writes = {} /\ changed \in Int
        /\ (\A c \in Client : pc[c] = "idle")
    BY WindowIsNatural DEF Init
  <1>3. TypeOK
    BY <1>1, <1>2, BlankIsView, TimeAssumption, BoundAssumption DEF Init, TypeOK, Kept, Page
  <1>4. CallsAreYoung /\ ViewsAreYoung /\ EntriesExpire
    BY <1>2 DEF CallsAreYoung, ViewsAreYoung, EntriesExpire, Calling
  <1> QED BY <1>3, <1>4 DEF ListInvariant

LEMMA InvariantNext ==
  ASSUME ListInvariant, [Next]_vars
  PROVE  ListInvariant'
  <1>1. CASE \E c \in Client : Start(c) \/ NextPage(c)
    BY <1>1, StartInvariant
  <1>2. CASE \E c \in Client : Serve(c)
    BY <1>2, HitInvariant, MissInvariant, SelectItemsInvariant, SelectCountInvariant,
       ReplyInvariant, CallFailsInvariant DEF Serve
  <1>3. CASE \E e \in writes : Store(e)
    BY <1>3, StoreInvariant
  <1>4. CASE Change
    BY <1>4, ChangeInvariant
  <1>5. CASE Tick
    BY <1>5, TickInvariant
  <1>6. CASE UNCHANGED vars
    <2>1. /\ table' = table /\ cache' = cache /\ writes' = writes /\ now' = now
          /\ pc' = pc /\ page' = page /\ view' = view /\ sent' = sent /\ seen' = seen
          /\ quiet' = quiet /\ changed' = changed /\ changes' = changes
      BY <1>6 DEF vars
    <2>2. TypeOK'
      BY <2>1 DEF ListInvariant, TypeOK, Kept
    <2>3. CallsAreYoung' /\ ViewsAreYoung' /\ EntriesExpire'
      BY <2>1 DEF ListInvariant, CallsAreYoung, ViewsAreYoung, EntriesExpire, Calling
    <2> QED BY <2>2, <2>3 DEF ListInvariant
  <1> QED BY <1>1, <1>2, <1>3, <1>4, <1>5, <1>6 DEF Next

(* Every variable keeps its type: pages count from one, totals and skips   *)
(* are natural, whatever the table and the page size.                      *)
THEOREM UsersListTypeCorrect == Spec => []TypeOK
  <1>1. Spec => []ListInvariant
    BY InvariantInit, InvariantNext, PTL DEF Spec
  <1>2. ListInvariant => TypeOK
    BY DEF ListInvariant
  <1> QED BY <1>1, <1>2, PTL

(* No answer is older than an entry may be and a call may take together,   *)
(* for any lifetime, timeout, number of clients and order of writes.       *)
THEOREM AnswersAreRecent == Spec => []AnswerIsRecent
  <1>1. Spec => []ListInvariant
    BY InvariantInit, InvariantNext, PTL DEF Spec
  <1>2. ListInvariant => AnswerIsRecent
    <2> SUFFICES ASSUME ListInvariant, NEW v \in Answerable PROVE now <= v.readAt + Window
      BY DEF AnswerIsRecent
    <2>1. CASE \E e \in cache : v = e.view
      <3>1. PICK e \in cache : v = e.view
        BY <2>1
      <3>2. now \in Int /\ e.expires \in Int /\ e.view.readAt \in Int
        BY DEF ListInvariant, TypeOK, Entry, View
      <3>3. now <= e.expires /\ e.expires <= e.view.readAt + Window
        BY DEF ListInvariant, EntriesExpire
      <3> QED BY <3>1, <3>2, <3>3, WindowIsNatural
    <2>2. CASE \E c \in Client : pc[c] = "reply" /\ v = view[c]
      <3>1. PICK c \in Client : pc[c] = "reply" /\ v = view[c]
        BY <2>2
      <3>2. now \in Int /\ sent[c] \in Int /\ v.readAt \in Int
        BY <3>1 DEF ListInvariant, TypeOK, View
      <3>3. now <= sent[c] + CallTimeout /\ sent[c] <= v.readAt
        BY <3>1 DEF ListInvariant, CallsAreYoung, ViewsAreYoung, Calling
      <3> QED BY <3>2, <3>3, WindowIsNatural DEF Window
    <2> QED BY <2>1, <2>2 DEF Answerable
  <1> QED BY <1>1, <1>2, PTL

-----------------------------------------------------------------------------
(* The rows of a page                                                      *)

LEMMA RanksOfRows ==
  ASSUME TypeOK, NEW r \in Kept
  PROVE  /\ IsFiniteSet(Kept) /\ Cardinality(Kept) \in Nat
         /\ Below(r) \subseteq Kept \ {r} /\ IsFiniteSet(Below(r))
         /\ Rank(r) \in Nat /\ Rank(r) < Cardinality(Kept)
  <1>1. IsFiniteSet(Kept) /\ Cardinality(Kept) \in Nat
    BY KeyAssumption, FS_Subset, FS_CardinalityType DEF TypeOK
  <1>2. \A s \in Kept : table[s] \in Int
    BY KeyAssumption DEF TypeOK
  <1>3. Below(r) \subseteq Kept \ {r}
    BY <1>2 DEF Below
  <1>4. IsFiniteSet(Kept \ {r}) /\ Cardinality(Kept \ {r}) = Cardinality(Kept) - 1
    BY <1>1, FS_RemoveElement
  <1>5. IsFiniteSet(Below(r)) /\ Cardinality(Below(r)) <= Cardinality(Kept) - 1
    BY <1>3, <1>4, FS_Subset
  <1>6. Cardinality(Below(r)) \in Nat
    BY <1>5, FS_CardinalityType
  <1> QED BY <1>1, <1>3, <1>5, <1>6 DEF Rank

(* Rows that come before all others are the ones of the lowest ranks.      *)
LEMMA FrontOfTheList ==
  ASSUME TypeOK, Distinct, NEW T \in SUBSET Kept, Before(T, Kept \ T), NEW r \in Kept
  PROVE  r \in T <=> Rank(r) < Cardinality(T)
  <1>1. IsFiniteSet(T) /\ Cardinality(T) \in Nat
    BY RanksOfRows, FS_Subset, FS_CardinalityType
  <1>2. \A s \in Kept : table[s] \in Int
    BY KeyAssumption DEF TypeOK
  <1>3. ASSUME r \in T
        PROVE  Rank(r) < Cardinality(T)
    <2>1. Below(r) \subseteq T \ {r}
      BY <1>2, <1>3 DEF Below, Before
    <2>2. IsFiniteSet(T \ {r}) /\ Cardinality(T \ {r}) = Cardinality(T) - 1
      BY <1>1, <1>3, FS_RemoveElement
    <2>3. Cardinality(Below(r)) <= Cardinality(T) - 1
      BY <2>1, <2>2, FS_Subset
    <2> QED BY <1>1, <2>3, RanksOfRows DEF Rank
  <1>4. ASSUME r \notin T
        PROVE  Cardinality(T) <= Rank(r)
    <2>1. T \subseteq Below(r)
      <3> SUFFICES ASSUME NEW s \in T
                   PROVE  table[s] < table[r]
        BY DEF Below
      <3>1. table[s] <= table[r] /\ table[s] # table[r]
        BY <1>4 DEF Before, Distinct
      <3> QED BY <1>2, <3>1
    <2> QED BY <2>1, RanksOfRows, FS_Subset DEF Rank
  <1> QED BY <1>1, <1>3, <1>4, RanksOfRows

(* If no two profiles sort alike, a page has one possible content.         *)
LEMMA PageIsSlice ==
  ASSUME TypeOK, Distinct, NEW p \in Page, NEW S \in PageRows(p)
  PROVE  /\ S = Slice(p)
         /\ Cardinality(S) < Limit /\ (S # {} \/ p = 1)
              => Skip(p) + Cardinality(S) = Cardinality(Kept)
  <1> DEFINE n == Cardinality(Kept)
             k == Skip(p)
             skipped == UpTo(k, n)
             taken == UpTo(Limit, n - skipped)
  <1>1. PICK T \in SUBSET (Kept \ S) :
          /\ Cardinality(T) = skipped
          /\ Before(T, Kept \ T)
          /\ Before(S, Kept \ (S \cup T))
    BY DEF PageRows
  <1>2. S \in SUBSET Kept /\ Cardinality(S) = taken
    BY DEF PageRows
  <1>3. n \in Nat /\ k \in Nat /\ Limit \in Nat \ {0} /\ IsFiniteSet(Kept)
    BY KeyAssumption, FS_Subset, TableIsFinite, SkipIsNatural, LimitAssumption DEF TypeOK
  <1>4. Cardinality(S \cup T) = taken + skipped
    <2>1. IsFiniteSet(S) /\ IsFiniteSet(T) /\ S \cap T = {}
      BY <1>2, <1>3, FS_Subset
    <2>2. Cardinality(S \cup T) = Cardinality(S) + Cardinality(T) - 0
      BY <2>1, FS_Union, FS_EmptySet
    <2>3. Cardinality(S) \in Nat /\ Cardinality(T) \in Nat
      BY <2>1, FS_CardinalityType
    <2> QED BY <1>1, <1>2, <2>2, <2>3
  <1>5. Before(S \cup T, Kept \ (S \cup T)) /\ S \cup T \in SUBSET Kept
    BY <1>1, <1>2 DEF Before
  <1>6. ASSUME NEW r \in Kept
        PROVE  r \in S <=> k <= Rank(r) /\ Rank(r) < k + Limit
    <2>1. Rank(r) \in Nat /\ Rank(r) < n
      BY RanksOfRows
    <2>2. r \in T <=> Rank(r) < skipped
      BY <1>1, <1>6, FrontOfTheList
    <2>3. r \in S \cup T <=> Rank(r) < taken + skipped
      BY <1>4, <1>5, <1>6, FrontOfTheList
    <2>4. r \in S <=> r \in S \cup T /\ r \notin T
      BY <1>1
    <2> HIDE DEF n, k
    <2> QED BY <1>3, <2>1, <2>2, <2>3, <2>4 DEF UpTo
  <1>7. S = Slice(p)
    BY <1>2, <1>6 DEF Slice
  <1>8. ASSUME taken < Limit, S # {} \/ p = 1
        PROVE  k + taken = n
    <2>1. taken = 0 => S = {}
      BY <1>2, <1>3, FS_Subset, FS_EmptySet
    <2>2. p = 1 => k = 0
      BY LimitAssumption DEF Skip
    <2> HIDE DEF n, k
    <2> QED BY <1>3, <1>8, <2>1, <2>2 DEF UpTo
  <1> QED BY <1>2, <1>7, <1>8

-----------------------------------------------------------------------------
(* The walk of a client                                                    *)

LEMMA SamePages ==
  ASSUME table' = table
  PROVE  /\ Distinct' <=> Distinct
         /\ Cardinality(Kept') = Cardinality(Kept) /\ Kept' = Kept
         /\ \A p : Slice(p)' = Slice(p) /\ Shown(p)' = Shown(p)
  BY DEF Distinct, Kept, Slice, Rank, Below, Shown

LEMMA ShownNext ==
  ASSUME NEW p \in Page, NEW S, S \subseteq Row, S = Slice(p)
  PROVE  Shown(p - 1) \cup ({p} \X S) = Shown(p)
  <1>1. p \in Nat \ {0}
    BY DEF Page
  <1>2. \A q : q \in 1 .. p <=> q \in 1 .. (p - 1) \/ q = p
    BY <1>1
  <1> QED BY <1>2 DEF Shown

LEMMA ShownNone == Shown(0) = {}
  BY DEF Shown

(* What a client learns of a walk depends on its own variables.            *)
LEMMA SameWalk ==
  ASSUME NEW d \in Client, WalkOK(d), UNCHANGED <<table, changed>>, now <= now', now \in Nat,
         now' \in Nat, changed \in Int,
         pc'[d] = pc[d], page'[d] = page[d], seen'[d] = seen[d], quiet'[d] = quiet[d]
  PROVE  WalkOK(d)'
  <1>1. changed + Window < now => changed + Window < now'
    BY WindowIsNatural
  <1> QED BY <1>1, SamePages DEF WalkOK

LEMMA SameView ==
  ASSUME NEW d \in Client, ViewOK(d), UNCHANGED <<table, changed>>,
         pc'[d] = pc[d], page'[d] = page[d], view'[d] = view[d]
  PROVE  ViewOK(d)'
  BY SamePages DEF ViewOK

LEMMA SameEntry ==
  ASSUME NEW e \in Entry, EntryOK(e), UNCHANGED <<table, changed>>, now <= now', now \in Nat,
         now' \in Nat
  PROVE  EntryOK(e)'
  <1>1. e.view.readAt \in Nat
    BY DEF Entry, View
  <1> QED BY <1>1, SamePages DEF EntryOK

(* An answer that shows the page as it is takes the walk one page on.      *)
LEMMA AnswerWalk ==
  ASSUME WalkInvariant, NEW c \in Client, NEW v \in View, Answer(c, v),
         pc[c] \in {"get", "reply"},
         quiet[c] /\ Distinct => v.items = Slice(page[c]) /\ v.total = Cardinality(Kept)
  PROVE  \A d \in Client : ViewOK(d)' /\ WalkOK(d)'
  <1>0. /\ TypeOK /\ now \in Nat /\ changed \in Int /\ page[c] \in Page
        /\ \A d \in Client : ViewOK(d) /\ WalkOK(d)
    BY DEF WalkInvariant, ListInvariant, TypeOK
  <1>1. /\ view' = [view EXCEPT ![c] = Blank]
        /\ pc' = [pc EXCEPT ![c] = IF HasNextPage(v, page[c]) THEN "answered" ELSE "done"]
        /\ seen' = [seen EXCEPT ![c] =
                     IF quiet[c] THEN seen[c] \cup ({page[c]} \X v.items) ELSE seen[c]]
        /\ table' = table /\ changed' = changed
        /\ now' = now /\ page' = page /\ quiet' = quiet
    BY DEF Answer, Forget, Go, tables
  <1>2. ASSUME NEW d \in Client, d # c
        PROVE  ViewOK(d)' /\ WalkOK(d)'
    <2>1. pc'[d] = pc[d] /\ seen'[d] = seen[d] /\ view'[d] = view[d]
      BY <1>0, <1>1, <1>2 DEF TypeOK
    <2> QED BY <1>0, <1>1, <2>1, SameView, SameWalk
  <1>3. pc'[c] = IF HasNextPage(v, page[c]) THEN "answered" ELSE "done"
    BY <1>0, <1>1 DEF TypeOK
  <1>4. ViewOK(c)'
    BY <1>3 DEF ViewOK
  <1>5. WalkOK(c)'
    <2> SUFFICES ASSUME quiet[c]
                 PROVE  /\ changed + Window < now
                        /\ Distinct => /\ seen'[c] = Shown(page[c])
                                       /\ pc'[c] = "done" =>
                                            Cardinality(Kept) <= Skip(page[c]) + Limit
      BY <1>1, <1>3, SamePages DEF WalkOK
    <2>1. changed + Window < now /\ (Distinct => seen[c] = Shown(page[c] - 1))
      BY <1>0 DEF WalkOK
    <2>2. ASSUME Distinct
          PROVE  seen'[c] = Shown(page[c])
      <3>1. seen'[c] = seen[c] \cup ({page[c]} \X v.items)
        BY <1>0, <1>1 DEF TypeOK
      <3>2. v.items \subseteq Row
        BY DEF View
      <3> QED BY <1>0, <2>1, <2>2, <3>1, <3>2, ShownNext
    <2>3. ASSUME Distinct, pc'[c] = "done"
          PROVE  Cardinality(Kept) <= Skip(page[c]) + Limit
      <3>1. ~(Skip(page[c]) + Limit < Cardinality(Kept))
        BY <1>0, <1>3, <2>3, HasNextPageMeansRowsLeft
      <3> QED BY <1>0, <3>1, SkipIsNatural, TableIsFinite, LimitAssumption
    <2> QED BY <2>1, <2>2, <2>3
  <1> QED BY <1>2, <1>4, <1>5

LEMMA HitWalk ==
  ASSUME WalkInvariant, NEW c \in Client, Hit(c)
  PROVE  \A d \in Client : ViewOK(d)' /\ WalkOK(d)'
  <1>1. PICK e \in cache : e.page = page[c] /\ Answer(c, e.view)
    BY DEF Hit
  <1>2. /\ e.view \in View /\ e.view.readAt \in Int /\ e.expires \in Int /\ pc[c] = "get"
        /\ now \in Int /\ changed \in Int
    BY <1>1 DEF Hit, WalkInvariant, ListInvariant, TypeOK, Entry, View
  <1>3. /\ EntryOK(e) /\ WalkOK(c)
        /\ now <= e.expires /\ e.expires <= e.view.readAt + Window
    BY DEF WalkInvariant, ListInvariant, EntriesExpire
  <1>4. quiet[c] => changed < e.view.readAt
    BY <1>2, <1>3, WindowIsNatural DEF WalkOK
  <1>5. quiet[c] /\ Distinct =>
          e.view.items = Slice(page[c]) /\ e.view.total = Cardinality(Kept)
    BY <1>1, <1>3, <1>4 DEF EntryOK
  <1> QED BY <1>1, <1>2, <1>5, AnswerWalk

LEMMA ReplyWalk ==
  ASSUME WalkInvariant, NEW c \in Client, Reply(c)
  PROVE  \A d \in Client : ViewOK(d)' /\ WalkOK(d)'
  <1>1. Answer(c, view[c]) /\ pc[c] = "reply"
    BY DEF Reply
  <1>2. /\ view[c] \in View /\ view[c].readAt \in Int /\ sent[c] \in Int
        /\ now \in Int /\ changed \in Int
    BY DEF WalkInvariant, ListInvariant, TypeOK, View
  <1>3. /\ ViewOK(c) /\ WalkOK(c)
        /\ now <= sent[c] + CallTimeout /\ sent[c] <= view[c].readAt
    BY <1>1 DEF WalkInvariant, ListInvariant, CallsAreYoung, ViewsAreYoung, Calling
  <1>4. quiet[c] => changed < view[c].readAt
    BY <1>2, <1>3, WindowIsNatural DEF WalkOK, Window
  <1>5. quiet[c] /\ Distinct =>
          view[c].items = Slice(page[c]) /\ view[c].total = Cardinality(Kept)
    BY <1>1, <1>3, <1>4 DEF ViewOK
  <1> QED BY <1>1, <1>2, <1>5, AnswerWalk

(* A step of client c that leaves the table and the clock alone.           *)
LEMMA ClientWalk ==
  ASSUME WalkInvariant, NEW c \in Client, UNCHANGED <<table, changed, now>>,
         \A d \in Client \ {c} : /\ pc'[d] = pc[d] /\ page'[d] = page[d] /\ view'[d] = view[d]
                                 /\ seen'[d] = seen[d] /\ quiet'[d] = quiet[d],
         ViewOK(c)', WalkOK(c)'
  PROVE  \A d \in Client : ViewOK(d)' /\ WalkOK(d)'
  <1>1. now \in Nat /\ changed \in Int /\ \A d \in Client : ViewOK(d) /\ WalkOK(d)
    BY DEF WalkInvariant, ListInvariant, TypeOK
  <1>2. ASSUME NEW d \in Client \ {c}
        PROVE  ViewOK(d)' /\ WalkOK(d)'
    <2>1. ViewOK(d)'
      BY <1>1, SameView
    <2>2. WalkOK(d)'
      BY <1>1, SameWalk
    <2> QED BY <2>1, <2>2
  <1> QED BY <1>2

LEMMA StartWalk ==
  ASSUME WalkInvariant, NEW c \in Client, Start(c) \/ NextPage(c)
  PROVE  \A d \in Client : ViewOK(d)' /\ WalkOK(d)'
  <1>0. TypeOK /\ WalkOK(c) /\ page[c] \in Page
    BY DEF WalkInvariant, ListInvariant, TypeOK
  <1>1. /\ pc'[c] = "get" /\ UNCHANGED <<table, changed, now>>
        /\ \A d \in Client \ {c} : /\ pc'[d] = pc[d] /\ page'[d] = page[d] /\ view'[d] = view[d]
                                   /\ seen'[d] = seen[d] /\ quiet'[d] = quiet[d]
    BY <1>0 DEF Start, NextPage, Go, tables, call, walk, TypeOK
  <1>2. ViewOK(c)'
    BY <1>1 DEF ViewOK
  <1>3. CASE Start(c)
    <2>1. page'[c] = 1 /\ seen'[c] = {} /\ quiet'[c] = (changed + Window < now)
      BY <1>0, <1>3 DEF Start, TypeOK
    <2>2. page'[c] - 1 = 0
      BY <2>1
    <2>3. Shown(0)' = {}
      BY <1>1, SamePages, ShownNone
    <2>4. WalkOK(c)'
      BY <1>1, <2>1, <2>2, <2>3 DEF WalkOK
    <2> QED BY <1>1, <1>2, <2>4, ClientWalk
  <1>4. CASE NextPage(c)
    <2>1. /\ pc[c] = "answered" /\ page'[c] = page[c] + 1
          /\ seen'[c] = seen[c] /\ quiet'[c] = quiet[c]
      BY <1>0, <1>4 DEF NextPage, walk, TypeOK
    <2>2. page'[c] - 1 = page[c]
      BY <1>0, <2>1 DEF Page
    <2>3. PICK q \in Page : q = page[c]
      BY <1>0
    <2>4. WalkOK(c)'
      <3>1. Shown(q)' = Shown(q) /\ (Distinct' <=> Distinct)
        BY <1>1, SamePages
      <3> QED BY <1>0, <1>1, <2>1, <2>2, <2>3, <3>1 DEF WalkOK
    <2> QED BY <1>1, <1>2, <2>4, ClientWalk
  <1> QED BY <1>3, <1>4

LEMMA CallWalk ==
  ASSUME WalkInvariant, NEW c \in Client, Miss(c) \/ SelectItems(c) \/ SelectCount(c)
  PROVE  \A d \in Client : ViewOK(d)' /\ WalkOK(d)'
  <1>0. TypeOK /\ WalkOK(c) /\ ViewOK(c) /\ page[c] \in Page /\ view[c] \in View
    BY DEF WalkInvariant, ListInvariant, TypeOK
  <1>1. /\ UNCHANGED <<table, changed, now, page, seen, quiet>>
        /\ pc[c] \in {"get", "items", "count"} /\ pc'[c] \in {"items", "count", "reply"}
        /\ \A d \in Client \ {c} : pc'[d] = pc[d] /\ view'[d] = view[d]
    BY <1>0 DEF Miss, SelectItems, SelectCount, Go, tables, walk, TypeOK
  <1>2. WalkOK(c)'
    BY <1>0, <1>1, SamePages DEF WalkOK
  <1>3. CASE Miss(c)
    <2>1. pc'[c] = "items"
      BY <1>0, <1>3 DEF Miss, Go, TypeOK
    <2> QED BY <1>1, <1>2, <2>1, ClientWalk DEF ViewOK
  <1>4. CASE SelectItems(c)
    <2> DEFINE p == page[c]
               short(S) == Cardinality(S) < Limit /\ (S # {} \/ p = 1)
    <2>1. PICK S \in PageRows(p) :
            /\ view'[c].items = S
            /\ view'[c].total = IF short(S) THEN Skip(p) + Cardinality(S) ELSE 0
            /\ pc'[c] = IF short(S) THEN "reply" ELSE "count"
      BY <1>0, <1>4 DEF SelectItems, Go, TypeOK
    <2>2. Distinct => /\ S = Slice(p)
                      /\ short(S) => Skip(p) + Cardinality(S) = Cardinality(Kept)
      BY <1>0, PageIsSlice
    <2> HIDE DEF short
    <2>3. ViewOK(c)'
      BY <1>1, <2>1, <2>2, SamePages DEF ViewOK
    <2> QED BY <1>1, <1>2, <2>3, ClientWalk
  <1>5. CASE SelectCount(c)
    <2>1. /\ pc[c] = "count" /\ view'[c].items = view[c].items
          /\ view'[c].readAt = view[c].readAt /\ view'[c].total = Cardinality(Kept)
      BY <1>0, <1>5 DEF SelectCount, TypeOK, View
    <2>2. ViewOK(c)'
      BY <1>0, <1>1, <2>1, SamePages DEF ViewOK
    <2> QED BY <1>1, <1>2, <2>2, ClientWalk
  <1> QED BY <1>3, <1>4, <1>5

LEMMA FailWalk ==
  ASSUME WalkInvariant, NEW c \in Client, CallFails(c)
  PROVE  \A d \in Client : ViewOK(d)' /\ WalkOK(d)'
  <1>1. /\ pc'[c] = "idle" /\ ~quiet'[c] /\ UNCHANGED <<table, changed, now>>
        /\ \A d \in Client \ {c} : /\ pc'[d] = pc[d] /\ page'[d] = page[d] /\ view'[d] = view[d]
                                   /\ seen'[d] = seen[d] /\ quiet'[d] = quiet[d]
    BY DEF CallFails, End, Go, Forget, tables, WalkInvariant, ListInvariant, TypeOK
  <1>2. ViewOK(c)' /\ WalkOK(c)'
    BY <1>1 DEF ViewOK, WalkOK
  <1> QED BY <1>1, <1>2, ClientWalk

(* A change ends every quiet walk, and nothing was read after it yet.      *)
LEMMA ChangeWalk ==
  ASSUME WalkInvariant, Change
  PROVE  /\ \A d \in Client : ViewOK(d)' /\ WalkOK(d)'
         /\ \A e \in cache' \cup writes' : EntryOK(e)'
  <1>1. /\ changed' = now /\ quiet' = [c \in Client |-> FALSE]
        /\ UNCHANGED <<cache, writes, now, pc, page, view>>
    BY DEF Change, call
  <1>2. now \in Nat
    BY DEF WalkInvariant, ListInvariant, TypeOK
  <1>3. ASSUME NEW d \in Client
        PROVE  ViewOK(d)' /\ WalkOK(d)'
    <2>1. pc[d] \in {"count", "reply"} => ~(now < view[d].readAt)
      <3>1. view[d].readAt \in Nat
        BY DEF WalkInvariant, ListInvariant, TypeOK, View
      <3> QED BY <1>2, <3>1 DEF WalkInvariant, ListInvariant, ViewsAreYoung
    <2> QED BY <1>1, <2>1 DEF ViewOK, WalkOK
  <1>4. ASSUME NEW e \in cache' \cup writes'
        PROVE  EntryOK(e)'
    <2>1. e.view.readAt \in Nat /\ e.view.readAt <= now
      BY <1>1 DEF WalkInvariant, ListInvariant, TypeOK, Entry, View, EntryOK
    <2> QED BY <1>1, <1>2, <2>1 DEF EntryOK
  <1> QED BY <1>3, <1>4

(* Any other step writes or drops entries, and changes none.               *)
LEMMA EntriesWalk ==
  ASSUME WalkInvariant, [Next]_vars, ~Change
  PROVE  \A e \in cache' \cup writes' : EntryOK(e)'
  <1>0. /\ TypeOK /\ now \in Nat
        /\ \A e \in cache \cup writes : e \in Entry /\ EntryOK(e)
    BY DEF WalkInvariant, ListInvariant, TypeOK
  <1>1. ASSUME NEW e \in cache \cup writes, UNCHANGED <<table, changed>>, now' \in {now, now + 1}
        PROVE  EntryOK(e)'
    <2>1. now <= now' /\ now' \in Nat
      BY <1>0, <1>1
    <2> QED BY <1>0, <1>1, <2>1, SameEntry
  <1>2. ASSUME NEW c \in Client, Reply(c)
        PROVE  \A e \in cache' \cup writes' : EntryOK(e)'
    <2>1. PICK f :
            /\ f.page = page[c] /\ f.view = view[c] /\ writes' = writes \cup {f}
            /\ pc[c] = "reply" /\ UNCHANGED <<table, changed, now, cache>>
      BY <1>2 DEF Reply, Answer, tables
    <2>2. EntryOK(f)'
      <3>1. ViewOK(c) /\ view[c].readAt <= now
        BY <2>1 DEF WalkInvariant, ListInvariant, ViewsAreYoung
      <3>2. EntryOK(f)
        BY <2>1, <3>1 DEF EntryOK, ViewOK
      <3> QED BY <2>1, <3>2, SamePages DEF EntryOK
    <2> QED BY <1>1, <2>1, <2>2
  <1>3. ASSUME cache' \cup writes' \subseteq cache \cup writes, UNCHANGED <<table, changed>>,
               now' \in {now, now + 1}
        PROVE  \A e \in cache' \cup writes' : EntryOK(e)'
    BY <1>1, <1>3
  <1>4. ASSUME NEW c \in Client, Start(c) \/ NextPage(c) \/ Hit(c) \/ Miss(c) \/ SelectItems(c)
                                   \/ SelectCount(c) \/ CallFails(c)
        PROVE  \A e \in cache' \cup writes' : EntryOK(e)'
    BY <1>3, <1>4 DEF Start, NextPage, Hit, Miss, SelectItems, SelectCount, CallFails, Answer, tables
  <1>5. ASSUME NEW e \in writes, Store(e)
        PROVE  \A f \in cache' \cup writes' : EntryOK(f)'
    BY <1>3, <1>5 DEF Store, tables
  <1>6. CASE Tick
    BY <1>3, <1>6 DEF Tick, Fresh, tables
  <1>7. CASE UNCHANGED vars
    BY <1>3, <1>7 DEF vars
  <1> QED BY <1>2, <1>4, <1>5, <1>6, <1>7 DEF Next, Serve

LEMMA WalkStep ==
  ASSUME WalkInvariant, [Next]_vars
  PROVE  WalkInvariant'
  <1>0. ListInvariant /\ now \in Nat /\ changed \in Int /\ TypeOK
        /\ \A d \in Client : ViewOK(d) /\ WalkOK(d)
    BY DEF WalkInvariant, ListInvariant, TypeOK
  <1>1. ListInvariant'
    BY <1>0, InvariantNext
  <1>2. \A e \in cache' \cup writes' : EntryOK(e)'
    BY ChangeWalk, EntriesWalk
  <1>3. \A d \in Client : ViewOK(d)' /\ WalkOK(d)'
    <2>1. ASSUME NEW c \in Client, Serve(c)
          PROVE  \A d \in Client : ViewOK(d)' /\ WalkOK(d)'
      BY <2>1, HitWalk, CallWalk, ReplyWalk, FailWalk DEF Serve
    <2>2. ASSUME UNCHANGED <<table, changed, pc, page, view, seen, quiet>>,
                 now' \in {now, now + 1}
          PROVE  \A d \in Client : ViewOK(d)' /\ WalkOK(d)'
      <3>1. now <= now' /\ now' \in Nat
        BY <1>0, <2>2
      <3> QED BY <1>0, <2>2, <3>1, SameView, SameWalk
    <2>3. ASSUME NEW e \in writes, Store(e)
          PROVE  \A d \in Client : ViewOK(d)' /\ WalkOK(d)'
      BY <2>2, <2>3 DEF Store, tables, call, walk
    <2>4. CASE Tick
      BY <2>2, <2>4 DEF Tick, tables, call, walk
    <2>5. CASE UNCHANGED vars
      BY <2>2, <2>5 DEF vars
    <2> QED BY <2>1, <2>3, <2>4, <2>5, StartWalk, ChangeWalk DEF Next
  <1> QED BY <1>1, <1>2, <1>3 DEF WalkInvariant

LEMMA WalkInit ==
  ASSUME Init
  PROVE  WalkInvariant
  <1>1. /\ cache \cup writes = {}
        /\ \A c \in Client : pc[c] = "idle" /\ ~quiet[c]
    BY DEF Init
  <1> QED BY <1>1, InvariantInit DEF WalkInvariant, ViewOK, WalkOK

(* Every rank before the end of page q is on exactly one page up to q.     *)
LEMMA OnePagePerRank ==
  ASSUME NEW k \in Nat, NEW q \in Page, k < Skip(q) + Limit
  PROVE  \E p \in 1 .. q : \A x \in 1 .. q :
           Skip(x) <= k /\ k < Skip(x) + Limit <=> x = p
  <1>0. Limit \in Nat \ {0} /\ q \in Nat \ {0}
    BY LimitAssumption DEF Page
  <1>1. ASSUME NEW a \in Nat, NEW b \in Nat, a <= b
        PROVE  a * Limit <= b * Limit /\ a * Limit \in Nat /\ b * Limit \in Nat
    <2>1. b - a \in Nat /\ (b - a) * Limit \in Nat
      BY <1>0, <1>1
    <2>2. b * Limit = a * Limit + (b - a) * Limit /\ a * Limit \in Nat
      BY <1>0, SMTT(30)
    <2> QED BY <2>1, <2>2
  <1>2. ASSUME NEW x \in Nat \ {0}
        PROVE  Skip(x) = (x - 1) * Limit /\ Skip(x) + Limit = x * Limit /\ Skip(x) \in Nat
    BY <1>0, SMTT(30) DEF Skip
  <1>3. PICK d \in Nat : d * Limit <= k /\ k < d * Limit + Limit
    <2>1. k \div Limit \in Int /\ Limit * (k \div Limit) <= k
          /\ k < Limit * (k \div Limit) + Limit
      BY <1>0, SMTT(30)
    <2>2. PICK d \in Int : d = k \div Limit
      BY <2>1
    <2>3. Limit * d = d * Limit /\ d * Limit \in Int
      BY <1>0, SMTT(30)
    <2>4. d \in Nat
      <3>1. CASE d <= -1
        <4>1. (-1 - d) * Limit \in Nat /\ -1 - d \in Nat
          BY <1>0, <3>1
        <4>2. (-1 - d) * Limit = -Limit - d * Limit
          BY <1>0, SMTT(30)
        <4> QED BY <1>0, <2>1, <2>2, <2>3, <4>1, <4>2
      <3> QED BY <3>1
    <2> QED BY <2>1, <2>2, <2>3, <2>4
  <1>4. (d + 1) * Limit = d * Limit + Limit /\ d * Limit \in Nat
    BY <1>0, SMTT(30)
  <1>5. d + 1 \in 1 .. q
    <2>1. CASE q <= d
      <3>1. Skip(q) + Limit <= d * Limit
        BY <1>0, <1>1, <1>2, <2>1
      <3>2. PICK e \in Nat : e = d * Limit
        BY <1>4
      <3>3. Skip(q) \in Nat
        BY <1>0, <1>2
      <3> QED BY <1>0, <1>3, <3>1, <3>2, <3>3
    <2> QED BY <1>0, <2>1
  <1>6. ASSUME NEW x \in 1 .. q
        PROVE  Skip(x) <= k /\ k < Skip(x) + Limit <=> x = d + 1
    <2>0. x \in Nat \ {0} /\ x - 1 \in Nat
      BY <1>0
    <2>1. CASE x = d + 1
      BY <1>2, <1>3, <1>4, <2>0, <2>1
    <2>2. CASE x <= d
      <3>1. x * Limit <= d * Limit /\ x * Limit \in Nat
        BY <1>1, <2>0, <2>2
      <3>2. ~(k < Skip(x) + Limit)
        BY <1>2, <1>3, <1>4, <2>0, <3>1
      <3> QED BY <2>2, <3>2
    <2>3. CASE d + 1 < x
      <3>1. (d + 1) * Limit <= (x - 1) * Limit /\ (x - 1) * Limit \in Nat
        BY <1>1, <2>0, <2>3
      <3>2. PICK e \in Nat : e = d * Limit
        BY <1>4
      <3>3. e + Limit <= Skip(x) /\ Skip(x) \in Nat
        BY <1>2, <1>4, <2>0, <3>1, <3>2
      <3>4. ~(Skip(x) <= k)
        BY <1>0, <1>3, <3>2, <3>3
      <3> QED BY <2>3, <3>4
    <2> QED BY <2>0, <2>1, <2>2, <2>3
  <1> QED BY <1>5, <1>6

(* A client that walks from the first page to the last while the table is  *)
(* quiet is shown every profile exactly once, whatever mixture of cached   *)
(* and fresh pages it gets, if no two profiles sort alike: for any table,  *)
(* page size, lifetime of entries and order of their writes.               *)
THEOREM QuietWalksAreComplete == Spec => []QuietWalkIsComplete
  <1>1. WalkInvariant => QuietWalkIsComplete
    <2> SUFFICES ASSUME WalkInvariant, NEW c \in Client, pc[c] = "done", quiet[c], Distinct,
                        NEW r \in Row
                 PROVE  Cardinality({p \in 1 .. page[c] : <<p, r>> \in seen[c]})
                          = IF r \in Kept THEN 1 ELSE 0
      BY DEF QuietWalkIsComplete
    <2> DEFINE q == page[c]
               Pages == {p \in 1 .. q : <<p, r>> \in seen[c]}
    <2>1. /\ TypeOK /\ q \in Page /\ Cardinality(Kept) <= Skip(q) + Limit
          /\ seen[c] = Shown(q)
      BY DEF WalkInvariant, ListInvariant, TypeOK, WalkOK
    <2>2. \A p \in 1 .. q : p \in Pages <=> r \in Slice(p)
      BY <2>1 DEF Shown
    <2>3. CASE r \notin Kept
      <3>1. Pages = {}
        BY <2>2, <2>3 DEF Slice
      <3> QED BY <2>3, <3>1, FS_EmptySet
    <2>4. CASE r \in Kept
      <3>1. Rank(r) \in Nat /\ Rank(r) < Cardinality(Kept) /\ Cardinality(Kept) \in Nat
        BY <2>1, <2>4, RanksOfRows
      <3>2. Rank(r) < Skip(q) + Limit
        BY <2>1, <3>1, SkipIsNatural, LimitAssumption
      <3>3. PICK p \in 1 .. q : \A x \in 1 .. q :
              Skip(x) <= Rank(r) /\ Rank(r) < Skip(x) + Limit <=> x = p
        BY <2>1, <3>1, <3>2, OnePagePerRank
      <3>4. Pages = {p}
        BY <2>2, <2>4, <3>3 DEF Slice
      <3> QED BY <2>4, <3>4, FS_Singleton
    <2> QED BY <2>3, <2>4
  <1> QED BY <1>1, WalkInit, WalkStep, PTL DEF Spec

=============================================================================
