--------------------------- MODULE SearchCacheProofs ---------------------------
(***************************************************************************)
(* For any number of overlapping searches of one source, any queries, any  *)
(* threshold and any ceiling: the breaker benches a source only after      *)
(* failThreshold failures, and without overlap its count is exact; around  *)
(* the cache it is the same breaker; and the cache's order lists what the  *)
(* cache holds, by the latest uses.                                        *)
(***************************************************************************)
EXTENDS SearchCache, SelectionProofs

-----------------------------------------------------------------------------
(* The breaker.                                                             *)

\* A call between LoadOrStore and Store has seen at most the failures recorded so far,
\* and those are never forgotten while it is there: this is why debt, and not streak, bounds
\* the count.
SeenInv == \A c \in Callers : Recording(c) => seen[c] <= debt

BreakerInv == TypeOK /\ NeverBenchedForFewer /\ SeenInv

\* The count saturates: one failure more is at most MaxFails, and not less than before.
LEMMA CappedLemma ==
  ASSUME NEW n \in 0 .. MaxFails
  PROVE  /\ Capped(n) = n
         /\ Capped(n + 1) \in 0 .. MaxFails
         /\ n <= Capped(n + 1)
         /\ \A k \in 0 .. n : Capped(k + 1) <= Capped(n + 1)
         /\ n + 1 >= FailThreshold <=> Capped(n + 1) >= FailThreshold
  BY BreakerAssumption DEF Capped

\* The record that RecordFailure stores.
LEMMA RecordLemma ==
  ASSUME NEW n \in 0 .. MaxFails, NEW b \in BOOLEAN, NEW r, r = [fails |-> n, benched |-> b]
  PROVE  r \in Record /\ r # None /\ r.fails = n /\ (r.benched <=> b)
<1>1. r.fails = n /\ r.benched = b /\ r \in Record
    BY Zenon DEF Record
<1> QED BY <1>1, NoneAssumption, Zenon

\* The initial state has its types.
LEMMA InitType == Init => TypeOK
<1> SUFFICES ASSUME Init PROVE TypeOK
    OBVIOUS
<1>1. 0 \in 0 .. MaxFails
    BY BreakerAssumption
<1>2. overlap \in BOOLEAN
    BY Zenon DEF Init
<1>3. /\ health \in Record \cup {None} /\ ~Benched
      /\ pc \in [Callers -> {"idle", "asking", "failed"}]
      /\ seen \in [Callers -> 0 .. MaxFails]
      /\ streak \in 0 .. MaxFails /\ debt \in 0 .. MaxFails
    BY <1>1 DEF Init, Benched
<1> QED BY ONLY <1>2, <1>3, Zenon DEF TypeOK

LEMMA BreakerInit == Init => BreakerInv
<1> SUFFICES ASSUME Init PROVE BreakerInv
    OBVIOUS
<1>1. NeverBenchedForFewer /\ SeenInv
    BY DEF Init, NeverBenchedForFewer, SeenInv, Recording
<1> QED BY <1>1, InitType DEF BreakerInv

LEMMA BreakerInvStep == BreakerInv /\ [Next]_vars => BreakerInv'
<1> SUFFICES ASSUME BreakerInv, [Next]_vars PROVE BreakerInv'
    OBVIOUS
<1> USE BreakerAssumption, NoneAssumption
<1> USE DEF BreakerInv, TypeOK, NeverBenchedForFewer, SeenInv, Recording, Benched, Record
<1>1. ASSUME NEW c \in Callers, Ask(c) PROVE BreakerInv'
    BY <1>1 DEF Ask
<1>2. ASSUME NEW c \in Callers, Succeed(c) PROVE BreakerInv'
    BY <1>2 DEF Succeed, Recovered
<1>3. ASSUME NEW c \in Callers, Fail(c) PROVE BreakerInv'
    BY <1>3 DEF Fail
<1>4. ASSUME NEW c \in Callers, RecordFailure(c) PROVE BreakerInv'
  <2>1. /\ seen[c] \in 0 .. MaxFails /\ debt \in 0 .. MaxFails /\ streak \in 0 .. MaxFails
        /\ seen[c] <= debt
      BY <1>4 DEF RecordFailure, Recorded
  <2>2. /\ Capped(seen[c] + 1) <= Capped(debt + 1)
        /\ debt <= Capped(debt + 1)
        /\ Capped(seen[c] + 1) \in 0 .. MaxFails
        /\ Capped(debt + 1) \in 0 .. MaxFails /\ Capped(streak + 1) \in 0 .. MaxFails
        /\ seen[c] + 1 >= FailThreshold <=> Capped(seen[c] + 1) >= FailThreshold
    <3>1. seen[c] \in 0 .. debt
        BY <2>1
    <3> QED BY <2>1, <3>1, CappedLemma
  <2>3. /\ health' \in Record /\ health' # None
        /\ health'.fails = Capped(seen[c] + 1)
        /\ health'.benched => health'.fails >= FailThreshold
    <3> DEFINE b == seen[c] + 1 >= FailThreshold
    <3>1. health' = [fails |-> Capped(seen[c] + 1), benched |-> b]
        BY <1>4, Zenon DEF RecordFailure
    <3>2. b \in BOOLEAN
        OBVIOUS
    <3>3. b => Capped(seen[c] + 1) >= FailThreshold
        BY <2>2
    <3>4. Capped(seen[c] + 1) \in 0 .. MaxFails
        BY <2>2
    <3> HIDE DEF b
    <3>5. /\ health' \in Record /\ health' # None
          /\ health'.fails = Capped(seen[c] + 1) /\ (health'.benched <=> b)
        BY ONLY <3>1, <3>2, <3>4, RecordLemma, Zenon
    <3> QED BY <3>3, <3>5, Zenon
  <2>4. TypeOK' /\ NeverBenchedForFewer'
    <3>1. pc' = [pc EXCEPT ![c] = "idle"] /\ UNCHANGED <<seen, overlap>>
          /\ streak' = Capped(streak + 1) /\ debt' = Capped(debt + 1)
        BY <1>4 DEF RecordFailure, Recorded
    <3> QED BY <2>1, <2>2, <2>3, <3>1
  <2>5. SeenInv'
      BY <1>4, <2>1, <2>2 DEF RecordFailure, Recorded
  <2> QED BY <2>4, <2>5
<1>5. ASSUME CooldownOver PROVE BreakerInv'
    BY <1>5 DEF CooldownOver
<1>6. ASSUME UNCHANGED vars PROVE BreakerInv'
    BY <1>6 DEF vars
<1> QED BY <1>1, <1>2, <1>3, <1>4, <1>5, <1>6 DEF Next

\* However many calls of Search overlap, the count of CircuitBreakerSource never runs ahead
\* of the failures, and a source is benched only after failThreshold of them.
THEOREM BreakerSound == Spec => [](TypeOK /\ NeverBenchedForFewer)
<1>1. BreakerInv => TypeOK /\ NeverBenchedForFewer
    BY DEF BreakerInv
<1> QED BY <1>1, BreakerInit, BreakerInvStep, PTL DEF Spec

-----------------------------------------------------------------------------
(* Calls that do not overlap.                                               *)

\* The failures in a row, as the record has them.
Counted == IF health = None THEN 0 ELSE health.fails
\* As long as calls have not overlapped only one is at work, and the record is exact, also
\* while that call is between its two steps.
ExactInv ==
  /\ TypeOK
  /\ ~overlap =>
       /\ streak = Counted
       /\ \A c \in Callers : Recording(c) => seen[c] = streak
       /\ \A c \in Callers : pc[c] # "idle" => Alone(c)

LEMMA ExactInit == Init => ExactInv
<1> SUFFICES ASSUME Init PROVE ExactInv
    OBVIOUS
<1>1. /\ streak = Counted
      /\ \A c \in Callers : Recording(c) => seen[c] = streak
      /\ \A c \in Callers : pc[c] # "idle" => Alone(c)
    BY DEF Init, Counted, Recording
<1> QED BY <1>1, InitType DEF ExactInv

\* A failure is counted to the saturated number, which keeps the record exact.
LEMMA ExactRecord ==
  ASSUME ExactInv, NEW c \in Callers, RecordFailure(c) PROVE ExactInv'
<1> USE BreakerAssumption, NoneAssumption
<1>1. /\ pc' = [pc EXCEPT ![c] = "idle"] /\ UNCHANGED <<seen, overlap>>
      /\ streak' = Capped(streak + 1) /\ debt' = Capped(debt + 1) /\ Recording(c)
    BY DEF RecordFailure, Recorded
<1>2. seen[c] \in 0 .. MaxFails /\ streak \in 0 .. MaxFails /\ debt \in 0 .. MaxFails
    BY DEF ExactInv, TypeOK
<1>3. /\ Capped(seen[c] + 1) \in 0 .. MaxFails
      /\ Capped(streak + 1) \in 0 .. MaxFails /\ Capped(debt + 1) \in 0 .. MaxFails
      /\ seen[c] + 1 >= FailThreshold <=> Capped(seen[c] + 1) >= FailThreshold
    BY <1>2, CappedLemma
<1>4. /\ health' \in Record /\ health' # None
      /\ health'.fails = Capped(seen[c] + 1)
      /\ health'.benched => health'.fails >= FailThreshold
  <2> DEFINE b == seen[c] + 1 >= FailThreshold
  <2>1. health' = [fails |-> Capped(seen[c] + 1), benched |-> b]
      BY Zenon DEF RecordFailure
  <2>2. b \in BOOLEAN
      OBVIOUS
  <2>3. b => Capped(seen[c] + 1) >= FailThreshold
      BY <1>3
  <2>4. Capped(seen[c] + 1) \in 0 .. MaxFails
      BY <1>3
  <2> HIDE DEF b
  <2>5. /\ health' \in Record /\ health' # None
        /\ health'.fails = Capped(seen[c] + 1) /\ (health'.benched <=> b)
      BY ONLY <2>1, <2>2, <2>4, RecordLemma, Zenon
  <2> QED BY <2>3, <2>5, Zenon
<1>5. TypeOK'
    BY <1>1, <1>3, <1>4 DEF ExactInv, TypeOK, Benched
<1>6. ~overlap => seen[c] = streak /\ \A d \in Callers \ {c} : pc[d] = "idle"
    BY <1>1 DEF ExactInv, Alone, Recording
<1>7. ~overlap' => /\ streak' = Counted' /\ \A d \in Callers : pc'[d] = "idle"
    BY <1>1, <1>4, <1>6 DEF ExactInv, TypeOK, Counted
<1> QED BY <1>5, <1>7 DEF ExactInv, Recording

LEMMA ExactStep == ExactInv /\ [Next]_vars => ExactInv'
<1> SUFFICES ASSUME ExactInv, [Next]_vars PROVE ExactInv'
    OBVIOUS
<1> USE BreakerAssumption, NoneAssumption
<1> USE DEF ExactInv, Counted, TypeOK, Benched, Recording, Record, Alone
<1>1. ASSUME NEW c \in Callers, Ask(c) PROVE ExactInv'
    BY <1>1 DEF Ask
<1>2. ASSUME NEW c \in Callers, Succeed(c) PROVE ExactInv'
  <2>1. /\ health' = None /\ streak' = 0 /\ UNCHANGED seen
        /\ pc' = [pc EXCEPT ![c] = "idle"]
        /\ debt' \in 0 .. MaxFails
        /\ overlap' = (overlap /\ ~Alone(c))
      BY <1>2 DEF Succeed, Recovered
  <2>2. overlap' \in BOOLEAN
      BY <2>1, Zenon
  <2>3. TypeOK'
      BY <2>1, <2>2
  <2>4. ~overlap' => \A d \in Callers : pc'[d] = "idle"
    <3>1. CASE overlap
        BY <2>1, <3>1
    <3>2. CASE ~overlap
        BY <2>1, <1>2, <3>2 DEF Succeed, Recovered
    <3> QED BY <3>1, <3>2
  <2> QED BY <2>1, <2>3, <2>4
<1>3. ASSUME NEW c \in Callers, Fail(c) PROVE ExactInv'
    BY <1>3 DEF Fail
<1>4. ASSUME NEW c \in Callers, RecordFailure(c) PROVE ExactInv'
    BY <1>4, ExactRecord
<1>5. ASSUME CooldownOver PROVE ExactInv'
    BY <1>5 DEF CooldownOver
<1>6. ASSUME UNCHANGED vars PROVE ExactInv'
    BY <1>6 DEF vars
<1> QED BY <1>1, <1>2, <1>3, <1>4, <1>5, <1>6 DEF Next

\* README.md:68, "Consecutive failures temporarily bench a source": for any number of
\* callers, as long as their calls do not overlap, the record counts exactly the failures
\* in a row.
THEOREM BreakerExact == Spec => []StreakCounted
<1>1. ExactInv => StreakCounted
    BY DEF ExactInv, Counted, StreakCounted
<1> QED BY <1>1, ExactInit, ExactStep, PTL DEF Spec

\* Without overlap a source is benched only after failThreshold failures in a row.
THEOREM BreakerBenchesStreaks == Spec => []OnlyStreakBenches
<1>1. ExactInv => OnlyStreakBenches
    BY DEF ExactInv, Counted, TypeOK, Benched, OnlyStreakBenches
<1> QED BY <1>1, ExactInit, ExactStep, PTL DEF Spec

\* All that the breaker promises, for any number of callers and any threshold.
THEOREM BreakerJust == Spec => []BenchingJust
<1>1. NeverBenchedForFewer /\ StreakCounted /\ OnlyStreakBenches => BenchingJust
    BY DEF BenchingJust
<1> QED BY <1>1, BreakerSound, BreakerExact, BreakerBenchesStreaks, PTL

-----------------------------------------------------------------------------
(* The cache inside the breaker.                                            *)

\* What the breaker sees of a search with a cache is a search.
LEMMA CacheStepIsBreakers == [CacheNext]_allVars => [Next]_vars
<1> SUFFICES ASSUME [CacheNext]_allVars PROVE [Next]_vars
    OBVIOUS
<1>1. ASSUME NEW c \in Callers, SearchAnswered(c) PROVE Next
    BY <1>1 DEF SearchAnswered, Next
<1>2. ASSUME NEW c \in Callers, SearchFailed(c) PROVE Next
    BY <1>2 DEF SearchFailed, Next
<1>3. ASSUME BreakerStep PROVE Next
    BY <1>3 DEF BreakerStep, Next
<1>4. ASSUME NEW c \in Callers, NEW q \in Queries, Hit(c, q) \/ Miss(c, q) PROVE UNCHANGED vars
    BY <1>4 DEF Hit, Miss, Goto
<1>5. ASSUME NEW c \in Callers, FetchFails(c) \/ Store(c) PROVE UNCHANGED vars
    BY <1>5 DEF FetchFails, Store, Goto
<1>6. ASSUME NEW q \in Queries, Expire(q) PROVE UNCHANGED vars
    BY <1>6 DEF Expire, vars
<1>7. UNCHANGED allVars => UNCHANGED vars
    BY DEF allVars
<1> QED BY <1>1, <1>2, <1>3, <1>4, <1>5, <1>6, <1>7 DEF CacheNext

\* CircuitBreakerSource around CachingSource (main.go:66): whatever the cache answers in
\* the source's place, the breaker does what the breaker alone may do.
THEOREM CacheKeepsBreaker == CacheSpec => Spec
<1>1. CacheInit => Init
    BY DEF CacheInit
<1> QED BY <1>1, CacheStepIsBreakers, PTL DEF CacheSpec, Spec

\* So the breaker's promise holds of the two together.
THEOREM CachedBreakerJust == CacheSpec => []BenchingJust
  BY CacheKeepsBreaker, BreakerJust, PTL

-----------------------------------------------------------------------------
(* The order of the cache.                                                  *)

\* Where the calls are, and where the query of a fetch comes from.
CallsInv ==
  /\ cacheAt \in [Callers -> {"idle", "fetch", "answered", "failed"}]
  /\ key \in [Callers -> Queries \cup {NoQuery}]
  /\ \A c \in Callers : cacheAt[c] # "idle" => pc[c] = "asking"
  /\ \A c \in Callers : cacheAt[c] = "fetch" => key[c] \in Queries

\* The order, its entries and the uses: what is cached has been used.
OrderInv ==
  /\ cached \in SUBSET Queries /\ expired \subseteq cached
  /\ order \in Seq(Queries) /\ uses \in Seq(Queries)
  /\ OrderMatchesEntries
  /\ IsInjective(uses) /\ cached \subseteq ToSet(uses)
  /\ OrderIsRecency

CacheIInv == BreakerInv /\ CallsInv /\ OrderInv

\* promote, and the deletion of an expired entry, of an order without repetitions.
LEMMA WithoutLaw ==
  ASSUME NEW s \in Seq(Queries), IsInjective(s), NEW q \in Queries
  PROVE  /\ Without(s, q) \in Seq(Queries) /\ IsInjective(Without(s, q))
         /\ ToSet(Without(s, q)) = ToSet(s) \ {q}
<1>1. /\ Without(s, q) \in Seq(Queries \cap (Queries \ {q}))
      /\ ToSet(Without(s, q)) = ToSet(s) \cap (Queries \ {q})
      /\ IsInjective(Without(s, q))
    BY SelectedElements DEF Without
<1>2. Queries \cap (Queries \ {q}) \subseteq Queries /\ ToSet(s) \subseteq Queries
    BY DEF ToSet
<1> QED BY <1>1, <1>2

LEMMA PromoteLaw ==
  ASSUME NEW s \in Seq(Queries), IsInjective(s), NEW q \in Queries
  PROVE  /\ Promote(s, q) \in Seq(Queries) /\ IsInjective(Promote(s, q))
         /\ ToSet(Promote(s, q)) = ToSet(s) \cup {q}
<1> DEFINE w == Without(s, q)
           p == Append(w, q)
<1>1. w \in Seq(Queries) /\ IsInjective(w) /\ ToSet(w) = ToSet(s) \ {q}
    BY WithoutLaw
<1> HIDE DEF w
<1>2. /\ p \in Seq(Queries) /\ DOMAIN p = 1 .. (Len(w) + 1) /\ DOMAIN w = 1 .. Len(w)
      /\ Len(w) \in Nat /\ p[Len(w) + 1] = q /\ \A i \in 1 .. Len(w) : p[i] = w[i]
    BY <1>1
<1> HIDE DEF p
<1>3. \A i \in 1 .. (Len(w) + 1) : i \in 1 .. Len(w) \/ i = Len(w) + 1
    BY <1>2
<1>4. \A i \in 1 .. Len(w) : w[i] # q
    BY <1>1, <1>2 DEF ToSet
<1>5. IsInjective(p)
    BY <1>1, <1>2, <1>3, <1>4 DEF IsInjective
<1>6. ToSet(p) = ToSet(w) \cup {q}
  <2>1. ASSUME NEW x \in ToSet(p) PROVE x \in ToSet(w) \cup {q}
    <3>1. PICK i \in 1 .. (Len(w) + 1) : p[i] = x
        BY <1>2 DEF ToSet
    <3> QED BY <1>2, <1>3, <3>1 DEF ToSet
  <2>2. ASSUME NEW x \in ToSet(w) PROVE x \in ToSet(p)
    <3>1. PICK i \in 1 .. Len(w) : w[i] = x
        BY <1>2 DEF ToSet
    <3>2. i \in 1 .. (Len(w) + 1) /\ p[i] = x
        BY <1>2, <3>1
    <3> QED BY <1>2, <3>2 DEF ToSet
  <2>3. Len(w) + 1 \in 1 .. (Len(w) + 1)
      BY <1>2
  <2>4. q \in ToSet(p)
      BY <1>2, <2>3 DEF ToSet
  <2> QED BY <2>1, <2>2, <2>4
<1>7. p = Promote(s, q)
    BY DEF p, w, Promote
<1> QED BY <1>1, <1>2, <1>5, <1>6, <1>7

\* The eviction takes the oldest queries out of the order and nothing else.
LEMMA KeptLaw ==
  ASSUME NEW s \in Seq(Queries), IsInjective(s)
  PROVE  /\ Kept(s) = Selected(s, ToSet(s) \ Evicted(s))
         /\ Kept(s) \in Seq(Queries) /\ IsInjective(Kept(s))
         /\ ToSet(Kept(s)) = ToSet(s) \ Evicted(s)
         /\ Len(Kept(s)) <= MaxEntries
<1>1. EvictCount(s) \in 0 .. Len(s) /\ Len(s) - EvictCount(s) <= MaxEntries
    BY CacheAssumption DEF EvictCount
<1>2. Kept(s) = Selected(s, ToSet(s) \ Evicted(s))
    BY <1>1, SelectedRest DEF Kept, Evicted
<1>3. /\ Kept(s) \in Seq(Queries \cap (ToSet(s) \ Evicted(s))) /\ IsInjective(Kept(s))
      /\ ToSet(Kept(s)) = ToSet(s) \cap (ToSet(s) \ Evicted(s))
    BY <1>2, SelectedElements
<1>4. Kept(s) \in Seq(Queries)
  <2>1. Queries \cap (ToSet(s) \ Evicted(s)) \subseteq Queries
      OBVIOUS
  <2> QED BY <1>3, <2>1
<1>5. Len(Kept(s)) = Len(s) - EvictCount(s)
    BY <1>1 DEF Kept
<1> QED BY <1>1, <1>2, <1>3, <1>4, <1>5

\* A use puts the query last, in the order of the uses and in that of the cache alike.
LEMMA PromoteRecency ==
  ASSUME NEW u \in Seq(Queries), IsInjective(u), NEW C \in SUBSET Queries, NEW q \in Queries
  PROVE  Promote(Selected(u, C), q) = Selected(Promote(u, q), C \cup {q})
<1> DEFINE w == Without(u, q)
<1>1. w \in Seq(Queries)
    BY WithoutLaw
<1>2. Selected(w, C \cup {q}) = Selected(u, (Queries \ {q}) \cap (C \cup {q}))
    BY SelectedTwice DEF Without
<1>3. Without(Selected(u, C), q) = Selected(u, C \cap (Queries \ {q}))
    BY SelectedTwice DEF Without
<1>4. (Queries \ {q}) \cap (C \cup {q}) = C \cap (Queries \ {q})
    OBVIOUS
<1>5. Selected(w, C \cup {q}) = Without(Selected(u, C), q)
    BY <1>2, <1>3, <1>4
<1> HIDE DEF w
<1>6. Selected(Append(w, q), C \cup {q}) = Append(Selected(w, C \cup {q}), q)
  <2> DEFINE T == C \cup {q}
  <2>1. q \in T
      OBVIOUS
  <2> HIDE DEF T
  <2>2. Selected(Append(w, q), T) = IF q \in T THEN Append(Selected(w, T), q) ELSE Selected(w, T)
      BY <1>1, SelectedAppend
  <2>3. Selected(Append(w, q), T) = Append(Selected(w, T), q)
      BY <2>1, <2>2
  <2> QED BY <2>3 DEF T
<1>7. Promote(u, q) = Append(w, q)
    BY DEF Promote, w
<1> QED BY <1>5, <1>6, <1>7 DEF Promote

LEMMA CacheInitInv == CacheInit => CacheIInv
<1> SUFFICES ASSUME CacheInit PROVE CacheIInv
    OBVIOUS
<1>1. BreakerInv
    BY BreakerInit DEF CacheInit
<1>2. CallsInv
    BY DEF CacheInit, CallsInv
<1>3. OrderMatchesEntries
  <2>1. order = << >> /\ cached = {}
      BY DEF CacheInit
  <2>2. ToSet(order) = {} /\ IsInjective(order) /\ Len(order) = 0
      BY <2>1 DEF ToSet, IsInjective
  <2> QED BY <2>1, <2>2, CacheAssumption DEF OrderMatchesEntries
<1>4. Selected(<< >>, {}) = << >>
  <2>1. Selected(<< >>, {}) \in Seq({} \cap {})
      BY SelectedElements, << >> \in Seq({})
  <2>2. {} \cap {} = {}
      OBVIOUS
  <2>3. Selected(<< >>, {}) \in Seq({})
      BY <2>1, <2>2
  <2> HIDE DEF Selected
  <2> QED BY <2>3
<1>5. OrderInv
    BY <1>3, <1>4 DEF CacheInit, OrderInv, OrderIsRecency, IsInjective
<1> QED BY <1>1, <1>2, <1>5 DEF CacheIInv

\* A call of the cache that goes on.
LEMMA GotoCalls ==
  ASSUME TypeOK, CallsInv, NEW c \in Callers, NEW at \in {"fetch", "answered", "failed"},
         NEW q \in Queries \cup {NoQuery}, at = "fetch" => q \in Queries,
         pc[c] = "asking", Goto(c, at, q)
  PROVE  CallsInv'
  BY DEF CallsInv, Goto, vars, TypeOK

LEMMA CallsStep ==
  ASSUME TypeOK, CallsInv, [CacheNext]_allVars PROVE CallsInv'
<1>1. ASSUME NEW c \in Callers, NEW q \in Queries, Hit(c, q) PROVE CallsInv'
    BY <1>1, GotoCalls DEF Hit, Lookup
<1>2. ASSUME NEW c \in Callers, NEW q \in Queries, Miss(c, q) PROVE CallsInv'
    BY <1>2, GotoCalls DEF Miss, Lookup
<1>3. ASSUME NEW c \in Callers, FetchFails(c) \/ Store(c) PROVE CallsInv'
  <2>1. pc[c] = "asking"
      BY <1>3 DEF FetchFails, Store, CallsInv
  <2> QED BY <1>3, <2>1, GotoCalls DEF FetchFails, Store
<1>4. ASSUME NEW c \in Callers, SearchAnswered(c) \/ SearchFailed(c) PROVE CallsInv'
  <2>1. /\ cacheAt' = [cacheAt EXCEPT ![c] = "idle"] /\ UNCHANGED key
        /\ \A d \in Callers \ {c} : pc'[d] = pc[d]
      BY <1>4 DEF SearchAnswered, SearchFailed, Back, Succeed, Recovered, Fail, TypeOK
  <2> QED BY <2>1 DEF CallsInv
<1>5. ASSUME NEW q \in Queries, Expire(q) PROVE CallsInv'
    BY <1>5 DEF Expire, vars, CallsInv
<1>6. ASSUME BreakerStep, UNCHANGED cacheVars PROVE CallsInv'
  <2>1. \A c \in Callers : pc[c] = "asking" => pc'[c] = "asking"
      BY <1>6 DEF BreakerStep, CooldownOver, Ask, RecordFailure, Recorded, Recording, TypeOK
  <2> QED BY <1>6, <2>1 DEF CallsInv, cacheVars
<1>7. ASSUME UNCHANGED allVars PROVE CallsInv'
    BY <1>7 DEF allVars, vars, cacheVars, CallsInv
<1> QED BY <1>1, <1>2, <1>3, <1>4, <1>5, <1>6, <1>7 DEF CacheNext

\* A search that the cache answers.
LEMMA HitOrder ==
  ASSUME OrderInv, NEW c \in Callers, NEW q \in Queries, Hit(c, q) PROVE OrderInv'
<1> USE DEF OrderInv, OrderMatchesEntries
<1>1. /\ q \in cached /\ UNCHANGED <<cached, expired>>
      /\ order' = Promote(order, q) /\ uses' = Promote(uses, q)
    BY DEF Hit
<1>2. /\ order' \in Seq(Queries) /\ IsInjective(order') /\ ToSet(order') = cached
  <2>1. /\ order' \in Seq(Queries) /\ IsInjective(order')
        /\ ToSet(order') = ToSet(order) \cup {q}
      BY <1>1, PromoteLaw
  <2> QED BY <1>1, <2>1
<1>3. uses' \in Seq(Queries) /\ IsInjective(uses') /\ cached \subseteq ToSet(uses')
    BY <1>1, PromoteLaw
<1>4. Len(order') <= MaxEntries
  <2>1. Cardinality(ToSet(order)) = Len(order) /\ Cardinality(ToSet(order')) = Len(order')
      BY <1>2, InjectiveLength
  <2> QED BY <1>2, <2>1
<1>5. OrderIsRecency'
  <2>1. cached \cup {q} = cached
      BY <1>1
  <2>2. Promote(Selected(uses, cached), q) = Selected(uses', cached)
      BY <1>1, <2>1, PromoteRecency
  <2> QED BY <1>1, <2>2 DEF OrderIsRecency
<1> QED BY <1>1, <1>2, <1>3, <1>4, <1>5

\* A search that it does not answer: an expired entry goes.
LEMMA MissOrder ==
  ASSUME OrderInv, NEW c \in Callers, NEW q \in Queries, Miss(c, q) PROVE OrderInv'
<1> USE DEF OrderInv, OrderMatchesEntries
<1>1. /\ cached' = cached \ {q} /\ expired' = expired \ {q}
      /\ order' = Without(order, q) /\ UNCHANGED uses
    BY DEF Miss
<1>2. /\ order' \in Seq(Queries) /\ IsInjective(order') /\ ToSet(order') = cached'
    BY <1>1, WithoutLaw
<1>3. Len(order') <= MaxEntries
  <2>1. /\ IsFiniteSet(ToSet(order)) /\ Cardinality(ToSet(order)) = Len(order)
        /\ Cardinality(ToSet(order')) = Len(order')
      BY <1>2, InjectiveLength
  <2>2. Cardinality(ToSet(order')) <= Cardinality(ToSet(order))
      BY <1>1, <1>2, <2>1, FS_Subset
  <2> QED BY <1>2, <2>1, <2>2, CacheAssumption
<1>4. OrderIsRecency'
  <2>1. cached \cap (Queries \ {q}) = cached'
      BY <1>1
  <2>2. Without(Selected(uses, cached), q) = Selected(uses, cached')
      BY <2>1, SelectedTwice DEF Without
  <2> QED BY <1>1, <2>2 DEF OrderIsRecency
<1> QED BY <1>1, <1>2, <1>3, <1>4

\* An answer is stored, and the oldest queries go.
LEMMA StoreOrder ==
  ASSUME OrderInv, CallsInv, NEW c \in Callers, Store(c) PROVE OrderInv'
<1> USE DEF OrderInv, OrderMatchesEntries
<1> DEFINE q == key[c]
           all == Promote(order, q)
           C == cached \cup {q}
<1>1. /\ q \in Queries
      /\ order' = Kept(all) /\ cached' = C \ Evicted(all) /\ expired' = (expired \ {q}) \ Evicted(all)
      /\ uses' = Promote(uses, q)
    BY DEF Store, CallsInv
<1>2. all \in Seq(Queries) /\ IsInjective(all) /\ ToSet(all) = C
    BY <1>1, PromoteLaw
<1>3. uses' \in Seq(Queries) /\ IsInjective(uses') /\ ToSet(uses') = ToSet(uses) \cup {q}
    BY <1>1, PromoteLaw
<1>4. all = Selected(uses', C)
    BY <1>1, PromoteRecency DEF OrderIsRecency
<1>5. C \in SUBSET Queries /\ C \subseteq ToSet(uses')
    BY <1>1, <1>3
<1> HIDE DEF all
<1>6. /\ order' = Selected(all, C \ Evicted(all))
      /\ order' \in Seq(Queries) /\ IsInjective(order') /\ ToSet(order') = cached'
      /\ Len(order') <= MaxEntries
    BY <1>1, <1>2, KeptLaw
<1>7. OrderIsRecency'
  <2>1. C \cap (C \ Evicted(all)) = cached'
      BY <1>1
  <2>2. Selected(Selected(uses', C), C \ Evicted(all)) = Selected(uses', cached')
      BY <1>3, <2>1, SelectedTwice
  <2> QED BY <1>4, <1>6, <2>2 DEF OrderIsRecency
<1>8. cached' \in SUBSET Queries /\ expired' \subseteq cached' /\ cached' \subseteq ToSet(uses')
    BY <1>1, <1>5
<1> QED BY <1>3, <1>6, <1>7, <1>8

LEMMA OrderStep ==
  ASSUME OrderInv, CallsInv, [CacheNext]_allVars PROVE OrderInv'
<1>1. ASSUME NEW c \in Callers, NEW q \in Queries, Hit(c, q) \/ Miss(c, q) PROVE OrderInv'
    BY <1>1, HitOrder, MissOrder
<1>2. ASSUME NEW c \in Callers, Store(c) PROVE OrderInv'
    BY <1>2, StoreOrder
<1>3. ASSUME UNCHANGED <<cached, order, uses>>, expired' \subseteq cached PROVE OrderInv'
    BY <1>3 DEF OrderInv, OrderMatchesEntries, OrderIsRecency
<1>4. ASSUME NEW c \in Callers, FetchFails(c) \/ SearchAnswered(c) \/ SearchFailed(c)
      PROVE  UNCHANGED <<cached, expired, order, uses>>
    BY <1>4 DEF FetchFails, SearchAnswered, SearchFailed, Back
<1>5. ASSUME NEW q \in Queries, Expire(q)
      PROVE  UNCHANGED <<cached, order, uses>> /\ expired' \subseteq cached
    BY <1>5 DEF Expire, OrderInv
<1>6. UNCHANGED cacheVars => UNCHANGED <<cached, expired, order, uses>>
    BY DEF cacheVars
<1>7. expired \subseteq cached
    BY DEF OrderInv
<1> QED BY <1>1, <1>2, <1>3, <1>4, <1>5, <1>6, <1>7 DEF CacheNext, allVars

LEMMA CacheStep == CacheIInv /\ [CacheNext]_allVars => CacheIInv'
<1> SUFFICES ASSUME CacheIInv, [CacheNext]_allVars PROVE CacheIInv'
    OBVIOUS
<1>1. TypeOK
    BY DEF CacheIInv, BreakerInv
<1>2. BreakerInv'
    BY CacheStepIsBreakers, BreakerInvStep DEF CacheIInv
<1> QED BY <1>1, <1>2, CallsStep, OrderStep DEF CacheIInv

\* CachingSource, for any number of overlapping searches, any queries and any ceiling:
\* between its sections the order lists exactly the cached queries, each once and no more
\* than maxEntries, so that the eviction reaches every entry.
THEOREM CacheSound == CacheSpec => []CacheInv
<1>1. CacheIInv => CacheInv
    BY DEF CacheIInv, BreakerInv, CallsInv, OrderInv, CacheInv, CacheTypeOK
<1> QED BY <1>1, CacheInitInv, CacheStep, PTL DEF CacheSpec

\* And it lists them by their latest uses, whatever has expired, failed or been stored out
\* of turn: what the ceiling evicts is the least recently used query.
THEOREM CacheEvictsOldest == CacheSpec => []OrderIsRecency
<1>1. CacheIInv => OrderIsRecency
    BY DEF CacheIInv, OrderInv
<1> QED BY <1>1, CacheInitInv, CacheStep, PTL DEF CacheSpec
=============================================================================
