------------------------------- MODULE EztvIndex -------------------------------
(***************************************************************************)
(* getRecentIndex (src/pkg/scraper/eztv.go): concurrent searches share an  *)
(* index of recent releases, read under a read lock while it is fresh and  *)
(* fetched page by page under the write lock when it is not.               *)
(***************************************************************************)
EXTENDS Integers, FiniteSets

CONSTANTS
  Searchers,
  NoOne,
  Pages,    \* eztvIndexPages
  TTL,      \* eztvIndexTTL
  MaxTime   \* bound on the clock

ASSUME IndexAssumption ==
  /\ NoOne \notin Searchers
  /\ Pages \in Nat \ {0} /\ TTL \in Nat \ {0} /\ MaxTime \in Nat

VARIABLES
  now,
  rows,      \* the pages that the index was made from
  cachedAt,
  lock,      \* who holds the write lock; read sections are single steps
  at,        \* idle, lock, fetch, served, failed
  page,      \* the page that is fetched next
  got,       \* the pages with rows that a fetch has collected
  cancelled  \* the searcher's context is done

index == <<rows, cachedAt>>
fetch == <<page, got>>
vars == <<now, index, lock, at, fetch, cancelled>>

Fresh == rows # {} /\ now - cachedAt < TTL

Init ==
  /\ now = 0 /\ rows = {} /\ cachedAt = 0 /\ lock = NoOne
  /\ at = [s \in Searchers |-> "idle"]
  /\ page = [s \in Searchers |-> 0] /\ got = [s \in Searchers |-> {}]
  /\ cancelled = [s \in Searchers |-> FALSE]

-----------------------------------------------------------------------------
Goto(s, label) == at' = [at EXCEPT ![s] = label]

\* The look under the read lock.
Look(s) ==
  /\ at[s] = "idle" /\ lock = NoOne
  /\ Goto(s, IF Fresh THEN "served" ELSE "lock")
  /\ UNCHANGED <<now, index, lock, fetch, cancelled>>

AcquireUnchecked(s) ==  \* mutant: no second check under the write lock
  /\ at[s] = "lock" /\ lock = NoOne
  /\ Goto(s, "fetch") /\ lock' = s /\ page' = [page EXCEPT ![s] = 1]
  /\ UNCHANGED <<now, index, got, cancelled>>
AcquireShared(s) ==  \* mutant: the index is fetched under the read lock
  /\ at[s] = "lock"
  /\ IF Fresh THEN Goto(s, "served") /\ UNCHANGED <<lock, page>>
     ELSE Goto(s, "fetch") /\ lock' = s /\ page' = [page EXCEPT ![s] = 1]
  /\ UNCHANGED <<now, index, got, cancelled>>
\* The write lock is taken, and the index may have become fresh meanwhile. The wait for
\* the lock does not watch the context.
Acquire(s) ==
  /\ at[s] = "lock" /\ lock = NoOne
  /\ IF Fresh THEN Goto(s, "served") /\ UNCHANGED <<lock, page>>
     ELSE Goto(s, "fetch") /\ lock' = s /\ page' = [page EXCEPT ![s] = 1]
  /\ UNCHANGED <<now, index, got, cancelled>>

LeaveHolding(s, label) ==  \* mutant: the lock is not released on an error
  /\ Goto(s, label) /\ lock' = IF label = "failed" THEN lock ELSE NoOne
  /\ page' = [page EXCEPT ![s] = 0] /\ got' = [got EXCEPT ![s] = {}]
\* The deferred unlock.
Leave(s, label) ==
  /\ Goto(s, label) /\ lock' = NoOne
  /\ page' = [page EXCEPT ![s] = 0] /\ got' = [got EXCEPT ![s] = {}]

Store(s, collected) == rows' = collected /\ cachedAt' = now /\ Leave(s, "served")

Collected(s, outcome) == got[s] \cup (IF outcome = "rows" THEN {page[s]} ELSE {})

\* A page is fetched; once the context is done, fetching fails. The first page must
\* succeed; a later page that fails ends the fetch, and what there is becomes the index. A page
\* without rows does not end it (the comment at eztv.go:130 says it does).
FetchPage(s) ==
  /\ at[s] = "fetch"
  /\ \E outcome \in IF cancelled[s] THEN {"error"} ELSE {"rows", "empty", "error"} :
       IF page[s] = 1 /\ outcome = "error"
       THEN Leave(s, "failed") /\ UNCHANGED index
       ELSE IF outcome = "error" \/ page[s] = Pages
            THEN Store(s, Collected(s, outcome))
            ELSE /\ page' = [page EXCEPT ![s] = @ + 1]
                 /\ got' = [got EXCEPT ![s] = Collected(s, outcome)]
                 /\ UNCHANGED <<index, lock, at>>
  /\ UNCHANGED <<now, cancelled>>

\* The searcher goes away; a searcher searches again.
Cancel(s) ==
  /\ at[s] \in {"idle", "lock", "fetch"} /\ ~cancelled[s]
  /\ cancelled' = [cancelled EXCEPT ![s] = TRUE]
  /\ UNCHANGED <<now, index, lock, at, fetch>>

Again(s) ==
  /\ at[s] \in {"served", "failed"}
  /\ Goto(s, "idle") /\ cancelled' = [cancelled EXCEPT ![s] = FALSE]
  /\ UNCHANGED <<now, index, lock, fetch>>

Tick ==
  /\ now < MaxTime /\ now' = now + 1
  /\ UNCHANGED <<index, lock, at, fetch, cancelled>>

Next ==
  \/ \E s \in Searchers : Look(s) \/ Acquire(s) \/ FetchPage(s) \/ Cancel(s) \/ Again(s)
  \/ Tick

\* A page answers or times out; the write lock is fair to who waits.
Fairness == \A s \in Searchers : SF_vars(Acquire(s)) /\ WF_vars(FetchPage(s))

Spec == Init /\ [][Next]_vars /\ Fairness

-----------------------------------------------------------------------------
(* Properties of the index.                                                 *)

\* The types of the index's and the searchers' state.
TypeOK ==
  /\ now \in 0 .. MaxTime /\ cachedAt \in 0 .. MaxTime /\ rows \subseteq 1 .. Pages
  /\ lock \in Searchers \cup {NoOne}
  /\ at \in [Searchers -> {"idle", "lock", "fetch", "served", "failed"}]
  /\ page \in [Searchers -> 0 .. Pages] /\ got \in [Searchers -> SUBSET (1 .. Pages)]
  /\ cancelled \in [Searchers -> BOOLEAN]

\* Two searches never fetch at the same time, and who fetches holds the lock.
OneFetches == \A s \in Searchers : at[s] = "fetch" <=> lock = s

\* While a search fetches, the index stays as stale as it was when the lock was taken: the
\* clock runs on, and nobody else may store.
StaleWhileFetched ==
  \A s \in Searchers : at[s] = "fetch" => page[s] >= 1 /\ (rows = {} \/ now - cachedAt >= TTL)

\* The discipline of the index, which every step relies on and keeps.
IndexInv == TypeOK /\ OneFetches /\ StaleWhileFetched

\* However many searches find the index stale at once, it is fetched once: from one fetch to
\* the next at least the TTL passes, unless the first found nothing.
FetchedOnce == [][cachedAt' # cachedAt \/ rows' # rows => rows = {} \/ now - cachedAt >= TTL]_vars

\* A search that has found the index stale is served or fails in the end, also when the
\* searches before it fail or are cancelled: nobody waits for ever for the write lock, and
\* nobody keeps it.
SearchEnds == \A s \in Searchers : []<>(at[s] \notin {"lock", "fetch"})
=============================================================================
