----------------------------- MODULE ScrapersProofs -----------------------------
(***************************************************************************)
(* The safety of what the sources keep between searches, for any number of *)
(* searches, pages, mirrors, dials, hosts and addresses.                   *)
(***************************************************************************)
EXTENDS Scrapers, SequenceTheorems, TLAPS

-----------------------------------------------------------------------------
(* The index of EZTV is fetched by one search at a time, and not before the *)
(* TTL has passed.                                                          *)

\* The initial state satisfies the invariant.
LEMMA InitIndex == Init => IndexInv
BY IndexAssumption DEF Init, IndexInv, TypeOK, OneFetches, StaleWhileFetched

\* Every step keeps it.
LEMMA StepIndex == IndexInv /\ [Next]_vars => IndexInv'
<1> SUFFICES ASSUME IndexInv, [Next]_vars PROVE IndexInv'
  OBVIOUS
<1> USE IndexAssumption DEF IndexInv, TypeOK, OneFetches, StaleWhileFetched, index, fetch, Goto, Fresh
<1>1. ASSUME NEW s \in Searchers, Look(s) PROVE IndexInv'
  BY <1>1 DEF Look
<1>2. ASSUME NEW s \in Searchers, Acquire(s) PROVE IndexInv'
  <2>1. CASE Fresh
    BY <1>2, <2>1 DEF Acquire
  <2>2. CASE ~Fresh
    BY <1>2, <2>2 DEF Acquire
  <2> QED BY <2>1, <2>2
<1>3. ASSUME NEW s \in Searchers, FetchPage(s) PROVE IndexInv'
  <2>0. PICK o \in {"rows", "empty", "error"} :
        IF page[s] = 1 /\ o = "error"
        THEN Leave(s, "failed") /\ UNCHANGED index
        ELSE IF o = "error" \/ page[s] = Pages
             THEN Store(s, Collected(s, o))
             ELSE /\ page' = [page EXCEPT ![s] = @ + 1]
                  /\ got' = [got EXCEPT ![s] = Collected(s, o)]
                  /\ UNCHANGED <<index, lock, at>>
    BY <1>3 DEF FetchPage
  <2>1. at[s] = "fetch" /\ UNCHANGED <<now, cancelled>> /\ lock = s
    BY <1>3 DEF FetchPage
  <2>2. CASE page[s] = 1 /\ o = "error"
    <3>1. Leave(s, "failed") /\ UNCHANGED index
      BY <2>0, <2>2
    <3>2. TypeOK'
      BY <2>1, <3>1 DEF Leave
    <3>3. OneFetches'
      BY <2>1, <3>1 DEF Leave
    <3>4. StaleWhileFetched'
      BY <2>1, <3>1 DEF Leave
    <3> QED BY <3>2, <3>3, <3>4
  <2>3. CASE ~(page[s] = 1 /\ o = "error") /\ (o = "error" \/ page[s] = Pages)
    <3>1. Store(s, Collected(s, o))
      BY <2>0, <2>3
    <3>2. Collected(s, o) \subseteq 1 .. Pages
      BY <2>1 DEF Collected
    <3>3. TypeOK'
      BY <2>1, <3>1, <3>2 DEF Store, Leave
    <3>4. OneFetches' /\ StaleWhileFetched'
      BY <2>1, <3>1 DEF Store, Leave
    <3> QED BY <3>3, <3>4
  <2>4. CASE ~(o = "error" \/ page[s] = Pages)
    <3>1. /\ page' = [page EXCEPT ![s] = @ + 1]
          /\ got' = [got EXCEPT ![s] = Collected(s, o)]
          /\ UNCHANGED <<index, lock, at>>
      BY <2>0, <2>4
    <3>2. Collected(s, o) \subseteq 1 .. Pages
      BY <2>1 DEF Collected
    <3>3. page'[s] \in 1 .. Pages
      BY <2>1, <2>4, <3>1
    <3>4. TypeOK'
      BY <2>1, <3>1, <3>2, <3>3
    <3> QED BY <2>1, <3>1, <3>4
  <2> QED BY <2>2, <2>3, <2>4
<1>4. ASSUME NEW s \in Searchers, Cancel(s) PROVE IndexInv'
  BY <1>4 DEF Cancel
<1>5. ASSUME NEW s \in Searchers, Again(s) PROVE IndexInv'
  BY <1>5 DEF Again
<1>6. CASE Tick
  BY <1>6 DEF Tick
<1>7. CASE UNCHANGED vars
  BY <1>7 DEF vars
<1> QED BY <1>1, <1>2, <1>3, <1>4, <1>5, <1>6, <1>7 DEF Next

\* A step that stores does so for a stale index.
LEMMA StepStores ==
  IndexInv /\ [Next]_vars => (cachedAt' # cachedAt \/ rows' # rows => rows = {} \/ now - cachedAt >= TTL)
<1> SUFFICES ASSUME IndexInv, [Next]_vars, cachedAt' # cachedAt \/ rows' # rows
             PROVE  rows = {} \/ now - cachedAt >= TTL
  OBVIOUS
<1>1. PICK s \in Searchers : FetchPage(s)
  BY DEF Next, vars, index, Look, Acquire, Cancel, Again, Tick
<1> QED BY <1>1 DEF FetchPage, IndexInv, StaleWhileFetched

\* The index, its lock and the searches keep their discipline, for every number of searches,
\* pages and ticks.
THEOREM IndexCorrect == Spec => []IndexInv
BY InitIndex, StepIndex, PTL DEF Spec

\* The index is fetched at most once per TTL, however many searches find it stale at once.
THEOREM IndexFetchedOnce == Spec => FetchedOnce
BY InitIndex, StepIndex, StepStores, PTL DEF Spec, FetchedOnce

-----------------------------------------------------------------------------
(* The mirrors of 1337x.                                                    *)

\* Taking the first element off a sequence that repeats none.
LEMMA TailLemma ==
  ASSUME NEW S, NEW q \in Seq(S), q # << >>, IsInjective(q)
  PROVE  /\ Tail(q) \in Seq(S) /\ IsInjective(Tail(q))
         /\ Head(q) \in S /\ Head(q) \notin ToSet(Tail(q))
         /\ ToSet(q) = ToSet(Tail(q)) \cup {Head(q)}
<1>. USE DEF IsInjective, ToSet
<1>1. /\ Len(q) \in Nat \ {0} /\ DOMAIN q = 1 .. Len(q)
      /\ Tail(q) \in Seq(S) /\ Len(Tail(q)) = Len(q) - 1
      /\ DOMAIN Tail(q) = 1 .. (Len(q) - 1)
      /\ \A i \in 1 .. (Len(q) - 1) : Tail(q)[i] = q[i + 1]
      /\ Head(q) = q[1] /\ q[1] \in S
  OBVIOUS
<1>2. IsInjective(Tail(q))
  <2>. SUFFICES ASSUME NEW i \in 1 .. (Len(q) - 1), NEW j \in 1 .. (Len(q) - 1), q[i + 1] = q[j + 1]
                PROVE  i = j
    BY <1>1
  <2>1. i + 1 \in DOMAIN q /\ j + 1 \in DOMAIN q  BY <1>1
  <2>2. i + 1 = j + 1  BY <2>1
  <2>. QED  BY <2>2, <1>1
<1>3. ASSUME NEW i \in DOMAIN Tail(q) PROVE Tail(q)[i] # Head(q)
  <2>1. i + 1 \in DOMAIN q /\ 1 \in DOMAIN q /\ i + 1 # 1  BY <1>1
  <2>. QED  BY <1>1, <2>1
<1>4. ASSUME NEW i \in DOMAIN q PROVE q[i] \in ToSet(Tail(q)) \cup {Head(q)}
  <2>1. CASE i = 1  BY <1>1, <2>1
  <2>2. CASE i # 1
    <3>1. i - 1 \in DOMAIN Tail(q) /\ Tail(q)[i - 1] = q[i]  BY <1>1, <2>2
    <3>. QED  BY <3>1
  <2>. QED  BY <2>1, <2>2
<1>5. ASSUME NEW i \in DOMAIN Tail(q) PROVE Tail(q)[i] \in ToSet(q)
  <2>1. i + 1 \in DOMAIN q  BY <1>1
  <2>. QED  BY <1>1, <2>1
<1>6. Head(q) \in ToSet(q)  BY <1>1
<1>. QED  BY <1>1, <1>2, <1>3, <1>4, <1>5, <1>6

\* Taking the k-th element out of a sequence.
LEMMA RemoveAtLemma ==
  ASSUME NEW S, NEW q \in Seq(S), NEW k \in 1 .. Len(q)
  PROVE  /\ RemoveAt(q, k) \in Seq(S) /\ Len(RemoveAt(q, k)) = Len(q) - 1
         /\ \A i \in 1 .. (Len(q) - 1) : RemoveAt(q, k)[i] = IF i < k THEN q[i] ELSE q[i + 1]
<1>. DEFINE n == Len(q)
            before == SubSeq(q, 1, k - 1)
            after == SubSeq(q, k + 1, n)
<1>0. n \in Nat /\ k \in Nat /\ 1 <= k /\ k <= n /\ \A i \in 1 .. n : q[i] \in S  OBVIOUS
<1>. HIDE DEF n
<1>1. /\ before \in Seq(S) /\ Len(before) = k - 1
      /\ \A i \in 1 .. (k - 1) : before[i] = q[i]
  <2>1. /\ 1 \in Int /\ k - 1 \in Int /\ \A i \in 1 .. (k - 1) : q[i] \in S  BY <1>0
  <2>2. before \in Seq(S) /\ Len(before) = (IF 1 <= k - 1 THEN (k - 1) - 1 + 1 ELSE 0)
        /\ \A i \in 1 .. ((k - 1) - 1 + 1) : before[i] = q[1 + i - 1]
    BY <2>1, SubSeqProperties, SMTT(30)
  <2>. HIDE DEF before
  <2>. QED  BY <1>0, <2>2
<1>2. /\ after \in Seq(S) /\ Len(after) = n - k
      /\ \A i \in 1 .. (n - k) : after[i] = q[k + i]
  <2>1. /\ k + 1 \in Int /\ n \in Int /\ \A i \in (k + 1) .. n : q[i] \in S  BY <1>0
  <2>2. after \in Seq(S) /\ Len(after) = (IF k + 1 <= n THEN n - (k + 1) + 1 ELSE 0)
        /\ \A i \in 1 .. (n - (k + 1) + 1) : after[i] = q[(k + 1) + i - 1]
    BY <2>1, SubSeqProperties, SMTT(30)
  <2>. HIDE DEF after
  <2>. QED  BY <1>0, <2>2
<1>3. RemoveAt(q, k) = before \o after  BY DEF RemoveAt, n
<1>. HIDE DEF before, after
<1>4. /\ before \o after \in Seq(S) /\ Len(before \o after) = Len(before) + Len(after)
      /\ \A i \in 1 .. (Len(before) + Len(after)) :
           (before \o after)[i] = IF i <= Len(before) THEN before[i] ELSE after[i - Len(before)]
  BY <1>1, <1>2, ConcatProperties, Zenon
<1>5. ASSUME NEW i \in 1 .. (n - 1) PROVE (before \o after)[i] = IF i < k THEN q[i] ELSE q[i + 1]
  <2>1. i \in 1 .. (Len(before) + Len(after))  BY <1>0, <1>1, <1>2
  <2>2. CASE i < k
    <3>1. i <= Len(before) /\ i \in 1 .. (k - 1)  BY <1>0, <1>1, <2>2
    <3>. QED  BY <1>1, <1>4, <2>1, <2>2, <3>1
  <2>3. CASE ~(i < k)
    <3>1. ~(i <= Len(before)) /\ i - Len(before) \in 1 .. (n - k) /\ k + (i - Len(before)) = i + 1
      BY <1>0, <1>1, <2>3
    <3>2. after[i - Len(before)] = q[k + (i - Len(before))]  BY <1>2, <3>1
    <3>. QED  BY <1>4, <2>1, <2>3, <3>1, <3>2
  <2>. QED  BY <2>2, <2>3
<1>6. Len(before \o after) = n - 1  BY <1>0, <1>1, <1>2, <1>4
<1>. QED  BY <1>3, <1>4, <1>5, <1>6 DEF n

\* The order in which a search tries the mirrors has each of them once, whichever is
\* remembered.
LEMMA OrderLemma ==
  ASSUME remembered \in HostSet \cup {NoHost}
  PROVE  Order \in Seq(HostSet) /\ IsInjective(Order) /\ ToSet(Order) = HostSet
<1>. USE HostAssumption DEF HostSet
<1>1. CASE remembered = NoHost  BY <1>1 DEF Order
<1>2. CASE remembered # NoHost
  <2>. DEFINE n == Len(Hosts)
              k == CHOOSE i \in 1 .. n : Hosts[i] = remembered
              Place(i) == IF i = 1 THEN k ELSE IF i <= k THEN i - 1 ELSE i
  <2>0. n \in Nat /\ DOMAIN Hosts = 1 .. n  OBVIOUS
  <2>1. k \in 1 .. n /\ Hosts[k] = remembered
    <3>1. \E i \in 1 .. n : Hosts[i] = remembered  BY <1>2, <2>0 DEF ToSet
    <3>. QED  BY <3>1
  <2>2. Order = <<remembered>> \o RemoveAt(Hosts, k)  BY <1>2 DEF Order
  <2>3. /\ RemoveAt(Hosts, k) \in Seq(HostSet) /\ Len(RemoveAt(Hosts, k)) = n - 1
        /\ \A i \in 1 .. (n - 1) :
             RemoveAt(Hosts, k)[i] = IF i < k THEN Hosts[i] ELSE Hosts[i + 1]
    BY <2>1, RemoveAtLemma
  <2>. HIDE DEF k, n, HostSet
  <2>4. Order \in Seq(HostSet) /\ Len(Order) = n
    BY <1>2, <2>0, <2>2, <2>3
  <2>5. ASSUME NEW i \in 1 .. n PROVE Order[i] = Hosts[Place(i)]
    <3>1. CASE i = 1  BY <2>1, <2>2, <2>3, <3>1
    <3>2. CASE i # 1
      <4>1. Order[i] = RemoveAt(Hosts, k)[i - 1]  BY <1>2, <2>0, <2>2, <2>3, <3>2
      <4>2. i - 1 \in 1 .. (n - 1) /\ (i - 1) + 1 = i /\ (i - 1 < k <=> i <= k)
        BY <2>0, <2>1, <3>2
      <4>3. RemoveAt(Hosts, k)[i - 1] = IF i - 1 < k THEN Hosts[i - 1] ELSE Hosts[(i - 1) + 1]
        BY <2>3, <4>2, Zenon
      <4>. QED  BY <3>2, <4>1, <4>2, <4>3
    <3>. QED  BY <3>1, <3>2
  <2>6. \A i \in 1 .. n : Place(i) \in 1 .. n  BY <2>0, <2>1
  <2>7. \A i, j \in 1 .. n : Place(i) = Place(j) => i = j  BY <2>0, <2>1
  <2>8. ASSUME NEW j \in 1 .. n PROVE \E i \in 1 .. n : Place(i) = j
    <3>1. CASE j = k
      <4>1. 1 \in 1 .. n /\ Place(1) = j  BY <2>0, <2>1, <3>1
      <4>. QED  BY <4>1
    <3>2. CASE j < k
      <4>1. j + 1 \in 1 .. n /\ Place(j + 1) = j  BY <2>0, <2>1, <3>2
      <4>. QED  BY <4>1
    <3>3. CASE j > k
      <4>1. Place(j) = j  BY <2>0, <2>1, <3>3
      <4>. QED  BY <4>1
    <3>. QED  BY <2>0, <2>1, <3>1, <3>2, <3>3
  <2>. HIDE DEF Place
  <2>9. DOMAIN Order = 1 .. n  BY <2>0, <2>4
  <2>10. IsInjective(Order)  BY <2>0, <2>5, <2>6, <2>7, <2>9 DEF IsInjective
  <2>11. ToSet(Order) = HostSet  BY <2>0, <2>5, <2>6, <2>8, <2>9 DEF ToSet, HostSet
  <2>. QED  BY <2>4, <2>10, <2>11
<1>. QED  BY <1>1, <1>2

\* What MirrorInv needs besides: a search under way has failed on exactly the mirrors
\* that it has not still before it.
Underway(s) == stage[s] \in {"try", "worked", "failed"}
AllAccounted ==
  \A s \in Visitors : Underway(s) =>
    outcome[s] = "none" /\ ToSet(left[s]) \cup refused[s] = HostSet
MirrorIInv == MirrorInv /\ AllAccounted

LEMMA InitMirror == MirrorInit => MirrorIInv
BY DEF MirrorInit, MirrorIInv, MirrorInv, MirrorTypeOK, AskedOnce, FailsOnlyIfAllDo, AllAccounted,
  Underway, IsInjective

LEMMA StepMirror == MirrorIInv /\ [MirrorNext]_mirrorVars => MirrorIInv'
<1>. SUFFICES ASSUME MirrorIInv, [MirrorNext]_mirrorVars PROVE MirrorIInv'  OBVIOUS
<1>. USE DEF MirrorIInv, MirrorInv, MirrorTypeOK, AskedOnce, FailsOnlyIfAllDo, AllAccounted, Underway,
  visit
<1>1. ASSUME NEW s \in Visitors, VisitStarts(s) PROVE MirrorIInv'
  <2>1. Order \in Seq(HostSet) /\ IsInjective(Order) /\ ToSet(Order) = HostSet  BY OrderLemma
  <2>. QED  BY <1>1, <2>1 DEF VisitStarts
<1>2. ASSUME NEW s \in Visitors, Try(s) PROVE MirrorIInv'
  BY <1>2 DEF Try
<1>3. ASSUME NEW s \in Visitors, Remember(s) PROVE MirrorIInv'
  <2>1. Head(left[s]) \in HostSet  BY <1>3, TailLemma DEF Remember
  <2>. QED  BY <1>3, <2>1 DEF Remember
<1>4. ASSUME NEW s \in Visitors, Forget(s) PROVE MirrorIInv'
  <2>1. left[s] \in Seq(HostSet) /\ left[s] # << >> /\ IsInjective(left[s])  BY <1>4 DEF Forget
  <2>2. /\ Tail(left[s]) \in Seq(HostSet) /\ IsInjective(Tail(left[s]))
        /\ Head(left[s]) \in HostSet /\ Head(left[s]) \notin ToSet(Tail(left[s]))
        /\ ToSet(left[s]) = ToSet(Tail(left[s])) \cup {Head(left[s])}
    BY <2>1, TailLemma
  <2>3. MirrorTypeOK'  BY <1>4, <2>2 DEF Forget
  <2>4. AskedOnce'  BY <1>4, <2>2 DEF Forget
  <2>5. FailsOnlyIfAllDo' /\ AllAccounted'  BY <1>4, <2>2 DEF Forget
  <2>. QED  BY <2>3, <2>4, <2>5
<1>5. ASSUME NEW s \in Visitors, GiveUp(s) PROVE MirrorIInv'
  <2>1. ToSet(left[s]) = {}  BY <1>5 DEF GiveUp, ToSet
  <2>. QED  BY <1>5, <2>1 DEF GiveUp
<1>6. ASSUME NEW s \in Visitors, VisitAgain(s) \/ VisitorLeaves(s) PROVE MirrorIInv'
  <2>1. IsInjective(<< >>) /\ << >> \in Seq(HostSet)  BY DEF IsInjective
  <2>2. CASE VisitAgain(s)  BY <2>1, <2>2 DEF VisitAgain
  <2>3. CASE VisitorLeaves(s)  BY <2>3 DEF VisitorLeaves
  <2>. QED  BY <1>6, <2>2, <2>3
<1>7. CASE Outage  BY <1>7 DEF Outage
<1>8. CASE UNCHANGED mirrorVars  BY <1>8 DEF mirrorVars
<1>. QED  BY <1>1, <1>2, <1>3, <1>4, <1>5, <1>6, <1>7, <1>8 DEF MirrorNext, Visit

\* A search asks no mirror twice and fails only when every one has refused it, for any
\* mirrors, any number of searches, and whatever they do to the memory they share.
THEOREM MirrorCorrect == MirrorSpec => []MirrorInv
<1>1. MirrorIInv => MirrorInv  BY DEF MirrorIInv
<1>. QED  BY <1>1, InitMirror, StepMirror, PTL DEF MirrorSpec

-----------------------------------------------------------------------------
(* The resolver.  The types are inductive as they stand; that no overdue    *)
(* address is used follows from them, for the TTL that is compared is the   *)
(* stored one, or the longest there is.                                     *)

CacheEntry == [count : 0..MaxAddresses, ttl : 0..MaxTTL, age : 0..MaxTTL]

LEMMA InitDoh == DohInit => DohTypeOK
<1> SUFFICES ASSUME DohInit PROVE DohTypeOK  OBVIOUS
<1>. USE DohAssumption DEF DohInit
<1>1. dnsCache \in [AllNames -> CacheEntry]
  <2>1. NoAnswer \in CacheEntry  BY DEF NoAnswer, CacheEntry
  <2>. QED  BY <2>1
<1>2. dial \in [Dials -> Places] /\ asked \in [Dials -> BOOLEAN]  BY DEF Places
<1>3. host \in [Dials -> AllNames]  BY DEF AllNames
<1>4. addresses \in [Dials -> 0..MaxAddresses]
  <2>1. 0 \in 0..MaxAddresses  OBVIOUS
  <2>. QED  BY <2>1
<1>5. \A d \in Dials : dial[d] = "connect" <=> addresses[d] > 0  OBVIOUS
<1>. QED  BY <1>1, <1>2, <1>3, <1>4, <1>5 DEF DohTypeOK, CacheEntry

\* One step of one dial.
LEMMA DialKeeps ==
  ASSUME DohTypeOK, NEW d \in Dials, DialStep(d)
  PROVE  DohTypeOK'
<1>. USE DohAssumption DEF Go, Querying
<1>1. CASE Lookup(d)
  <2>1. dial[d] = "lookup" /\ addresses[d] = 0 /\ host[d] \in AllNames
    BY <1>1 DEF Lookup, DohTypeOK
  <2>2. CASE Kept(host[d])
    <3>1. /\ dial' = [dial EXCEPT ![d] = "connect"]
          /\ addresses' = [addresses EXCEPT ![d] = dnsCache[host[d]].count]
          /\ UNCHANGED <<host, asked, dnsCache, pooled>>
      BY <1>1, <2>2 DEF Lookup
    <3>2. dnsCache[host[d]].count \in 0..MaxAddresses /\ dnsCache[host[d]].count > 0
      BY <2>1, <2>2 DEF DohTypeOK, Kept
    <3>. QED  BY <3>1, <3>2 DEF DohTypeOK, Places
  <2>3. CASE ~Kept(host[d])
    <3>1. /\ dial' = [dial EXCEPT ![d] = "A"]
          /\ UNCHANGED <<host, addresses, asked, dnsCache, pooled>>
      BY <1>1, <2>3 DEF Lookup
    <3>. QED  BY <2>1, <3>1 DEF DohTypeOK, Places
  <2>. QED  BY <2>2, <2>3
<1>2. CASE Send(d)  BY <1>2 DEF Send, DohTypeOK
<1>3. CASE Answer(d)
  <2>1. PICK n \in 1..MaxAddresses, t \in 0..MaxTTL :
          /\ dnsCache' = [dnsCache EXCEPT ![host[d]] = [count |-> n, ttl |-> t, age |-> 0]]
          /\ addresses' = [addresses EXCEPT ![d] = n]
    BY <1>3 DEF Answer
  <2>2. /\ dial' = [dial EXCEPT ![d] = "connect"] /\ asked' = [asked EXCEPT ![d] = FALSE]
        /\ UNCHANGED <<host, pooled>>
    BY <1>3 DEF Answer
  <2>3. /\ n \in 0..MaxAddresses /\ n > 0
        /\ [count |-> n, ttl |-> t, age |-> 0] \in CacheEntry
    BY DEF CacheEntry
  <2>. QED  BY <2>1, <2>2, <2>3 DEF DohTypeOK, Places, CacheEntry
<1>4. CASE QueryFails(d)  BY <1>4 DEF QueryFails, DohTypeOK, Places
<1>5. CASE Connect(d)
  <2>1. dial[d] = "connect" /\ UNCHANGED <<asked, dnsCache, pooled>>
    BY <1>5 DEF Connect
  <2>2. CASE Finish(d) /\ addresses' = [addresses EXCEPT ![d] = 0]
    BY <2>1, <2>2 DEF Finish, DohTypeOK, Places, AllNames
  <2>3. CASE addresses[d] > 1 /\ addresses' = [addresses EXCEPT ![d] = @ - 1] /\ UNCHANGED <<dial, host>>
    <3>1. addresses[d] - 1 \in 0..MaxAddresses /\ addresses[d] - 1 > 0
      BY <2>3 DEF DohTypeOK
    <3>. QED  BY <2>1, <2>3, <3>1 DEF DohTypeOK
  <2>. QED  BY <1>5, <2>2, <2>3 DEF Connect
<1>6. CASE ConnectSystem(d)
  BY <1>6 DEF ConnectSystem, Finish, DohTypeOK, Places, AllNames
<1>. QED  BY <1>1, <1>2, <1>3, <1>4, <1>5, <1>6 DEF DialStep

\* The transport starts a dial.
LEMMA DialBegins ==
  ASSUME DohTypeOK, NEW d \in Dials, NEW h \in AllNames, Dial(d, h)
  PROVE  DohTypeOK'
BY DEF Dial, Go, DohTypeOK, Places

LEMMA StepDoh == DohTypeOK /\ [DohNext]_dohVars => DohTypeOK'
<1> SUFFICES ASSUME DohTypeOK, [DohNext]_dohVars PROVE DohTypeOK'  OBVIOUS
<1>1. CASE \E d \in Dials : Request(d)  BY <1>1, DialBegins DEF Request, AllNames
<1>2. CASE \E d \in Dials : DialResolver(d)  BY <1>2, DialBegins DEF DialResolver, AllNames
<1>3. CASE \E d \in Dials : DialStep(d)  BY <1>3, DialKeeps
<1>4. CASE PoolCloses  BY <1>4 DEF PoolCloses, DohTypeOK
<1>5. CASE DnsTick
  <2>. DEFINE Older(n) == IF n = MaxTTL THEN n ELSE n + 1
  <2>1. /\ dnsCache' = [h \in AllNames |-> [dnsCache[h] EXCEPT !.age = Older(@)]]
        /\ UNCHANGED <<dial, host, addresses, asked, pooled>>
    BY <1>5 DEF DnsTick
  <2>2. ASSUME NEW h \in AllNames PROVE dnsCache'[h] \in CacheEntry
    <3>1. dnsCache[h] \in CacheEntry  BY DEF DohTypeOK, CacheEntry
    <3>2. dnsCache'[h] = [count |-> dnsCache[h].count, ttl |-> dnsCache[h].ttl,
                          age |-> Older(dnsCache[h].age)]
      BY <2>1, <3>1 DEF CacheEntry
    <3>3. Older(dnsCache[h].age) \in 0..MaxTTL  BY <3>1, DohAssumption DEF CacheEntry
    <3>. QED  BY <3>1, <3>2, <3>3 DEF CacheEntry
  <2>3. dnsCache' \in [AllNames -> CacheEntry]  BY <2>1, <2>2
  <2>. QED  BY <2>1, <2>3 DEF DohTypeOK, CacheEntry
<1>6. CASE UNCHANGED dohVars  BY <1>6 DEF dohVars, DohTypeOK
<1>. QED  BY <1>1, <1>2, <1>3, <1>4, <1>5, <1>6 DEF DohNext

\* A dial passes from the lookup to connecting only with an answer that is not overdue.
LEMMA LookupUses ==
  ASSUME DohTypeOK, [DohNext]_dohVars, NEW d \in Dials, dial[d] = "lookup", dial'[d] = "connect"
  PROVE  NotOverdue(host[d])
<1>1. Lookup(d)
  <2>1. ASSUME NEW e \in Dials, DialStep(e), e # d PROVE dial'[d] = dial[d]
    BY <2>1 DEF DialStep, Lookup, Send, Answer, QueryFails, Connect, ConnectSystem, Finish, Go, DohTypeOK
  <2>2. DialStep(d) => Lookup(d)
    BY DEF DialStep, Send, Answer, QueryFails, Connect, ConnectSystem, Querying
  <2>3. ASSUME NEW e \in Dials, NEW h \in AllNames, Dial(e, h) PROVE dial'[d] # "connect"
    BY <2>3 DEF Dial, Go, DohTypeOK
  <2>4. ASSUME PoolCloses \/ DnsTick \/ UNCHANGED dohVars PROVE dial' = dial
    BY <2>4 DEF PoolCloses, DnsTick, dohVars
  <2>5. ASSUME NEW e \in Dials, Request(e) \/ DialResolver(e) PROVE dial'[d] # "connect"
    BY <2>3, <2>5 DEF Request, DialResolver, AllNames
  <2>. QED  BY <2>1, <2>2, <2>4, <2>5 DEF DohNext
<1>2. Kept(host[d])  BY <1>1 DEF Lookup, Go, DohTypeOK
<1>3. dnsCache[host[d]].ttl \in 0..MaxTTL  BY DEF DohTypeOK
<1>. QED  BY <1>2, <1>3, DohAssumption DEF Kept, KeepFor, NotOverdue

\* DohSafe, for any number of dials and hosts: whatever was stored when, an address that a
\* dial takes from the cache is one whose TTL has not run out, unless that TTL is zero.
THEOREM DohCorrect == DohSpec => DohSafe
<1>1. DohTypeOK /\ [DohNext]_dohVars
        => [\A d \in Dials : dial[d] = "lookup" /\ dial'[d] = "connect" => NotOverdue(host[d])]_dohVars
  BY LookupUses
<1>. QED  BY InitDoh, StepDoh, <1>1, PTL DEF DohSpec, DohSafe, NoOverdueAddress
==============================================================================
