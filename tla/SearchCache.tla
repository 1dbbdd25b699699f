----------------------------- MODULE SearchCache -----------------------------
(***************************************************************************)
(* CachingSource (src/pkg/search/cache.go), inside the breaker that        *)
(* main.go:66 wraps around it: the results of one source, kept per query   *)
(* for a limited time and for a limited number of queries, the least       *)
(* recently used going first.  Searches run concurrently; the map and the  *)
(* order are guarded by a mutex that is not held while the source is       *)
(* asked, so a search is two sections with a fetch in between.  A search   *)
(* that the cache answers is a success to the breaker.                     *)
(*                                                                         *)
(* What a source returns is left out: an entry is the query it is kept for.*)
(***************************************************************************)
EXTENDS CircuitBreaker, Selection

CONSTANTS
  Queries,    \* normalised queries (trimmed, lower case)
  NoQuery,
  MaxEntries  \* maxEntries: the cache's ceiling

ASSUME CacheAssumption ==
  /\ NoQuery \notin Queries
  /\ MaxEntries \in Nat \ {0}   \* NewCachingSourceWithLimit replaces 0 and less

VARIABLES
  cached,   \* the queries of entries
  expired,  \* cached queries whose time has run out
  order,    \* the cached queries, least recently used first
  cacheAt,  \* per caller: where its call of the cache is
  key,      \* per caller: its query
  uses      \* history: every query in the order of its latest use (hit or store)

cacheVars == <<cached, expired, order, cacheAt, key, uses>>
allVars == <<vars, cacheVars>>

Without(s, q) == Selected(s, Queries \ {q})

CacheInit ==
  /\ Init
  /\ cached = {} /\ expired = {} /\ order = << >> /\ uses = << >>
  /\ cacheAt = [c \in Callers |-> "idle"]
  /\ key = [c \in Callers |-> NoQuery]

-----------------------------------------------------------------------------
(* The helpers of the code, on values.                                      *)

\* promote: the query becomes the most recently used one.
Promote(s, q) == Append(Without(s, q), q)

\* The loop that evicts the oldest queries above the ceiling.
EvictCount(s) == IF Len(s) > MaxEntries THEN Len(s) - MaxEntries ELSE 0
Evicted(s) == {s[i] : i \in 1 .. EvictCount(s)}
Kept(s) == SubSeq(s, EvictCount(s) + 1, Len(s))

-----------------------------------------------------------------------------
(* Search, once the breaker has let the call through.                       *)

Goto(c, at, q) ==
  /\ cacheAt' = [cacheAt EXCEPT ![c] = at]
  /\ key' = [key EXCEPT ![c] = q]
  /\ UNCHANGED vars

Lookup(c) == pc[c] = "asking" /\ cacheAt[c] = "idle"

\* Mutant: first in, first out.
HitUnnoticed(c, q) ==
  /\ Lookup(c) /\ q \in cached \ expired
  /\ uses' = Promote(uses, q)
  /\ Goto(c, "answered", NoQuery)
  /\ UNCHANGED <<cached, expired, order>>

Hit(c, q) ==
  /\ Lookup(c) /\ q \in cached \ expired
  /\ order' = Promote(order, q)
  /\ uses' = Promote(uses, q)
  /\ Goto(c, "answered", NoQuery)
  /\ UNCHANGED <<cached, expired>>

\* Mutant: the expired query keeps its place in the order.
MissKeepsPlace(c, q) ==
  /\ Lookup(c) /\ q \notin cached \ expired
  /\ cached' = cached \ {q} /\ expired' = expired \ {q}
  /\ Goto(c, "fetch", q)
  /\ UNCHANGED <<order, uses>>

\* No entry, or an expired one, which is deleted.
Miss(c, q) ==
  /\ Lookup(c) /\ q \notin cached \ expired
  /\ cached' = cached \ {q} /\ expired' = expired \ {q}
  /\ order' = Without(order, q)
  /\ Goto(c, "fetch", q)
  /\ UNCHANGED uses

\* The source fails, or the call is cancelled: nothing is cached.
FetchFails(c) ==
  /\ cacheAt[c] = "fetch"
  /\ Goto(c, "failed", NoQuery)
  /\ UNCHANGED <<cached, expired, order, uses>>

\* The source has answered.  The second section stores the answer, whatever has become
\* of the query meanwhile.
Store(c) ==
  /\ cacheAt[c] = "fetch"
  /\ LET all == Promote(order, key[c])
     IN  /\ order' = Kept(all)
         /\ cached' = (cached \cup {key[c]}) \ Evicted(all)
         /\ expired' = (expired \ {key[c]}) \ Evicted(all)
  /\ uses' = Promote(uses, key[c])
  /\ Goto(c, "answered", NoQuery)

Expire(q) ==
  /\ q \in cached \ expired
  /\ expired' = expired \cup {q}
  /\ UNCHANGED <<vars, cached, order, cacheAt, key, uses>>

-----------------------------------------------------------------------------
(* The breaker around it.                                                   *)

Back(c) ==
  /\ cacheAt' = [cacheAt EXCEPT ![c] = "idle"]
  /\ UNCHANGED <<cached, expired, order, key, uses>>

SearchAnswered(c) == cacheAt[c] = "answered" /\ Succeed(c) /\ Back(c)
SearchFailed(c)   == cacheAt[c] = "failed" /\ Fail(c) /\ Back(c)
BreakerStep == CooldownOver \/ \E c \in Callers : Ask(c) \/ RecordFailure(c)

CacheNext ==
  \/ \E c \in Callers :
       \/ \E q \in Queries : Hit(c, q) \/ Miss(c, q)
       \/ FetchFails(c) \/ Store(c) \/ SearchAnswered(c) \/ SearchFailed(c)
  \/ \E q \in Queries : Expire(q)
  \/ BreakerStep /\ UNCHANGED cacheVars

CacheSpec == CacheInit /\ [][CacheNext]_allVars

-----------------------------------------------------------------------------
(* Properties.                                                              *)

\* The types of the breaker's and the cache's state; only a call that the breaker let
\* through is in it.
CacheTypeOK ==
  /\ TypeOK
  /\ cached \subseteq Queries /\ expired \subseteq cached
  /\ order \in Seq(Queries) /\ uses \in Seq(Queries)
  /\ cacheAt \in [Callers -> {"idle", "fetch", "answered", "failed"}]
  /\ key \in [Callers -> Queries \cup {NoQuery}]
  /\ \A c \in Callers : cacheAt[c] # "idle" => pc[c] = "asking"

\* Between sections the order lists exactly the cached queries, each once, and no more of
\* them than the ceiling: nothing can stay in the map for ever because the eviction loop does
\* not see it, whatever searches overlap.
OrderMatchesEntries == IsInjective(order) /\ ToSet(order) = cached /\ Len(order) <= MaxEntries

\* What every section of the cache keeps.
CacheInv == CacheTypeOK /\ OrderMatchesEntries

\* Least recently used: the cached queries are kept in the order of their latest uses.
OrderIsRecency == order = Selected(uses, cached)
=============================================================================
