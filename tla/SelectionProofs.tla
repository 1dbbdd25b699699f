--------------------------- MODULE SelectionProofs ---------------------------
(***************************************************************************)
(* What the filtering loop returns, for every slice: a subsequence with    *)
(* all the elements that pass.  The provers have no induction over data,   *)
(* so arguments by induction are put as ones about a least element, which  *)
(* every set of numbers has, because the order of the naturals is well     *)
(* founded.                                                                *)
(***************************************************************************)
EXTENDS Selection, WellFoundedInduction, FunctionTheorems, FiniteSetTheorems, TLAPS

\* A set of naturals that is not empty has a least element.
LEMMA Least ==
  ASSUME NEW S \in SUBSET Nat, S # {}
  PROVE  \E n \in S : \A m \in S : n <= m
<1> DEFINE R == OpToRel(<, Nat)
<1>1. \A m, n \in Nat : <<m, n>> \in R <=> m < n
    BY DEF OpToRel
<1>2. IsWellFoundedOn(R, Nat)
    BY NatLessThanWellFounded
<1> HIDE DEF R
<1>3. PICK n \in S : \A m \in S : ~(<<m, n>> \in R)
    BY <1>2, WFMin
<1>4. \A m \in S : ~(m < n)
    BY <1>1, <1>3
<1> QED BY <1>3, <1>4

\* Induction up to a bound, on the set of the numbers for which something holds.
LEMMA Climb ==
  ASSUME NEW n \in Nat, NEW S, 0 \in S, \A i \in 1 .. n : i - 1 \in S => i \in S
  PROVE  0 .. n \subseteq S
<1> SUFFICES ASSUME (0 .. n) \ S # {} PROVE FALSE
    OBVIOUS
<1>1. PICK i \in (0 .. n) \ S : \A j \in (0 .. n) \ S : i <= j
    BY Least, (0 .. n) \ S \in SUBSET Nat
<1>2. i \in 1 .. n /\ i - 1 \in 0 .. n
    BY <1>1
<1>3. i - 1 \in S
    BY <1>1, <1>2
<1> QED BY <1>1, <1>2, <1>3

\* A function on the first n positions is a slice of length n.
LEMMA TypeOfSeq ==
  ASSUME NEW E, NEW n \in Nat, NEW s \in [1..n -> E]
  PROVE  s \in Seq(E) /\ Len(s) = n /\ DOMAIN s = 1..n
OBVIOUS

\* A slice without repetitions is as long as it has elements.
LEMMA InjectiveLength ==
  ASSUME NEW E, NEW s \in Seq(E), IsInjective(s)
  PROVE  IsFiniteSet(ToSet(s)) /\ Cardinality(ToSet(s)) = Len(s)
<1>1. Len(s) \in Nat /\ DOMAIN s = 1 .. Len(s)
    OBVIOUS
<1>2. IsFiniteSet(1 .. Len(s)) /\ Cardinality(1 .. Len(s)) = Len(s)
    BY <1>1, FS_Interval
<1>3. s \in [1 .. Len(s) -> ToSet(s)] /\ \A i, j \in 1 .. Len(s) : s[i] = s[j] => i = j
    BY <1>1 DEF ToSet, IsInjective
<1>4. \A x \in ToSet(s) : \E i \in 1 .. Len(s) : s[i] = x
    BY <1>1 DEF ToSet
<1>5. s \in Bijection(1 .. Len(s), ToSet(s))
    BY <1>3, <1>4, Fun_IsBij
<1>6. ExistsBijection(1 .. Len(s), ToSet(s))
    BY <1>5 DEF ExistsBijection
<1> QED BY <1>2, <1>6, FS_Bijection

-----------------------------------------------------------------------------
\* The positions that a selection from the first n elements takes its own from: in their
\* order, and all of those whose element passes.
Passing(s, T, n) == {i \in 1 .. n : s[i] \in T}
PicksUpTo(h, r, s, T, n) ==
  /\ h \in [1 .. Len(r) -> Passing(s, T, n)]
  /\ \A i, j \in 1 .. Len(r) : i < j => h[i] < h[j]
  /\ \A j \in Passing(s, T, n) : \E i \in 1 .. Len(r) : h[i] = j
  /\ \A i \in 1 .. Len(r) : r[i] = s[h[i]]
Picks(h, r, s, T) == PicksUpTo(h, r, s, T, Len(s))

\* What the loop has after its first n rounds.
Selecting(f, s, T, n) ==
  /\ f = [i \in 0 .. n |-> f[i]]
  /\ f[0] = << >>
  /\ \A i \in 1 .. n : f[i] = IF s[i] \in T THEN Append(f[i - 1], s[i]) ELSE f[i - 1]

\* There is such a function, for any number of rounds.
LEMMA SelectingExists ==
  ASSUME NEW E, NEW s \in Seq(E), NEW T
  PROVE  \E f : Selecting(f, s, T, Len(s))
<1> DEFINE S == {n \in 0 .. Len(s) : \E f : Selecting(f, s, T, n)}
<1>0. Len(s) \in Nat
    OBVIOUS
<1>1. 0 \in S
  <2> DEFINE f == [i \in 0 .. 0 |-> << >>]
  <2>1. f[0] = << >> /\ f = [i \in 0 .. 0 |-> f[i]]
      OBVIOUS
  <2>2. Selecting(f, s, T, 0)
      BY <2>1 DEF Selecting
  <2> QED BY <1>0, <2>2
<1>2. ASSUME NEW n \in 1 .. Len(s), n - 1 \in S PROVE n \in S
  <2>1. PICK f : Selecting(f, s, T, n - 1)
      BY <1>2
  <2> DEFINE g == [i \in 0 .. n |->
                     IF i = n THEN IF s[n] \in T THEN Append(f[n - 1], s[n]) ELSE f[n - 1]
                     ELSE f[i]]
  <2>2. \A i \in 0 .. (n - 1) : g[i] = f[i]
      OBVIOUS
  <2>3. g[n] = IF s[n] \in T THEN Append(g[n - 1], s[n]) ELSE g[n - 1]
      BY <2>2
  <2>4. ASSUME NEW i \in 1 .. (n - 1)
        PROVE  g[i] = IF s[i] \in T THEN Append(g[i - 1], s[i]) ELSE g[i - 1]
    <3>1. i \in 0 .. (n - 1) /\ i - 1 \in 0 .. (n - 1)
        BY <1>0
    <3>2. g[i] = f[i] /\ g[i - 1] = f[i - 1]
        BY <2>2, <3>1
    <3>3. f[i] = IF s[i] \in T THEN Append(f[i - 1], s[i]) ELSE f[i - 1]
        BY <2>1 DEF Selecting
    <3> QED BY <3>2, <3>3
  <2>5. g = [i \in 0 .. n |-> g[i]] /\ g[0] = << >>
    <3>1. g = [i \in 0 .. n |-> g[i]]
        OBVIOUS
    <3> QED BY <2>1, <2>2, <3>1 DEF Selecting
  <2> HIDE DEF g
  <2>6. Selecting(g, s, T, n)
    <3>1. \A i \in 1 .. n : i = n \/ i \in 1 .. (n - 1)
        BY <1>0
    <3>2. \A i \in 1 .. n : g[i] = IF s[i] \in T THEN Append(g[i - 1], s[i]) ELSE g[i - 1]
        BY <2>3, <2>4, <3>1
    <3> QED BY <2>5, <3>2 DEF Selecting
  <2> QED BY <1>0, <2>6
<1>3. 0 .. Len(s) \subseteq S
  <2>1. \A i \in 1 .. Len(s) : i - 1 \in S => i \in S
      BY <1>2
  <2> HIDE DEF S
  <2> QED BY <1>0, <1>1, <2>1, Climb
<1>4. Len(s) \in S
    BY <1>0, <1>3
<1> QED BY <1>4

\* So the loop ends with the last value of one.
LEMMA SelectedUnfolds ==
  ASSUME NEW E, NEW s \in Seq(E), NEW T
  PROVE  \E f : Selecting(f, s, T, Len(s)) /\ Selected(s, T) = f[Len(s)]
<1> DEFINE Loop(g) == [i \in 0 .. Len(s) |->
                         IF i = 0 THEN << >>
                         ELSE IF s[i] \in T THEN Append(g[i - 1], s[i]) ELSE g[i - 1]]
           f == CHOOSE g : g = Loop(g)
<1>1. \A g : g = Loop(g) => Selecting(g, s, T, Len(s))
  <2> SUFFICES ASSUME NEW g, g = Loop(g) PROVE Selecting(g, s, T, Len(s))
      BY Zenon
  <2>1. g = [i \in 0 .. Len(s) |-> g[i]]
    <3>1. \A k : Loop(k) = [i \in 0 .. Len(s) |-> Loop(k)[i]]
        OBVIOUS
    <3> HIDE DEF Loop
    <3> QED BY <3>1
  <2>2. \A i \in 0 .. Len(s) : g[i] = Loop(g)[i]
    <3> HIDE DEF Loop
    <3> QED OBVIOUS
  <2>3. \A i \in 0 .. Len(s) :
          Loop(g)[i] = IF i = 0 THEN << >>
                       ELSE IF s[i] \in T THEN Append(g[i - 1], s[i]) ELSE g[i - 1]
      OBVIOUS
  <2> HIDE DEF Loop
  <2> QED BY <2>1, <2>2, <2>3 DEF Selecting
<1>2. PICK e : Selecting(e, s, T, Len(s))
    BY SelectingExists
<1>3. e = Loop(e)
  <2>1. \A i \in 0 .. Len(s) : e[i] = Loop(e)[i]
    <3> SUFFICES ASSUME NEW i \in 0 .. Len(s) PROVE e[i] = Loop(e)[i]
        OBVIOUS
    <3>1. CASE i = 0
        BY <1>2, <3>1 DEF Selecting
    <3>2. CASE i # 0
      <4>1. i \in 1 .. Len(s)
          BY <3>2
      <4>2. e[i] = IF s[i] \in T THEN Append(e[i - 1], s[i]) ELSE e[i - 1]
          BY <1>2, <4>1 DEF Selecting
      <4> QED BY <3>2, <4>2
    <3> QED BY <3>1, <3>2
  <2>2. e = [i \in 0 .. Len(s) |-> e[i]]
      BY <1>2 DEF Selecting
  <2> QED BY <2>1, <2>2
<1>4. f = Loop(f)
  <2> HIDE DEF Loop
  <2> QED BY <1>3
<1>5. Selected(s, T) = f[Len(s)]
    BY DEF Selected
<1> HIDE DEF Loop, f
<1> QED BY <1>1, <1>4, <1>5
\* One round of the loop, on the positions.
LEMMA PickNext ==
  ASSUME NEW E, NEW s \in Seq(E), NEW T, NEW n \in 1 .. Len(s), NEW r \in Seq(E),
         NEW h, PicksUpTo(h, r, s, T, n - 1)
  PROVE  \E g : PicksUpTo(g, IF s[n] \in T THEN Append(r, s[n]) ELSE r, s, T, n)
<1>1. n \in Nat \ {0} /\ n - 1 \in Nat /\ Len(r) \in Nat /\ s[n] \in E
    OBVIOUS
<1>2. CASE s[n] \in T
  <2> DEFINE q == Append(r, s[n])
             g == [i \in 1 .. (Len(r) + 1) |-> IF i = Len(r) + 1 THEN n ELSE h[i]]
  <2>1. Passing(s, T, n) = Passing(s, T, n - 1) \cup {n}
      BY <1>1, <1>2 DEF Passing
  <2>2. /\ q \in Seq(E) /\ Len(q) = Len(r) + 1 /\ q[Len(r) + 1] = s[n]
        /\ \A i \in 1 .. Len(r) : q[i] = r[i]
      BY <1>1
  <2>3. \A i \in 1 .. (Len(r) + 1) : i \in 1 .. Len(r) \/ i = Len(r) + 1
      BY <1>1
  <2>4. /\ g[Len(r) + 1] = n
        /\ \A i \in 1 .. Len(r) : g[i] = h[i] /\ h[i] \in Passing(s, T, n - 1)
      BY <1>1 DEF PicksUpTo
  <2>5. g \in [1 .. Len(q) -> Passing(s, T, n)]
    <3>1. \A i \in 1 .. (Len(r) + 1) : g[i] \in Passing(s, T, n)
        BY <2>1, <2>3, <2>4
    <3>2. g \in [1 .. (Len(r) + 1) -> Passing(s, T, n)]
        BY <3>1
    <3> QED BY <2>2, <3>2
  <2> HIDE DEF q, g
  <2>6. \A i, j \in 1 .. Len(q) : i < j => g[i] < g[j]
    <3> SUFFICES ASSUME NEW i \in 1 .. Len(q), NEW j \in 1 .. Len(q), i < j PROVE g[i] < g[j]
        OBVIOUS
    <3>1. i \in 1 .. Len(r) /\ h[i] \in 1 .. (n - 1) /\ g[i] = h[i]
        BY <1>1, <2>2, <2>4 DEF Passing
    <3> QED BY <1>1, <2>2, <2>3, <2>4, <3>1 DEF PicksUpTo
  <2>7. \A j \in Passing(s, T, n) : \E i \in 1 .. Len(q) : g[i] = j
    <3> SUFFICES ASSUME NEW j \in Passing(s, T, n) PROVE \E i \in 1 .. Len(q) : g[i] = j
        OBVIOUS
    <3>1. CASE j = n
        BY <1>1, <2>2, <2>4, <3>1
    <3>2. CASE j \in Passing(s, T, n - 1)
      <4>1. PICK i \in 1 .. Len(r) : h[i] = j
          BY <3>2 DEF PicksUpTo
      <4> QED BY <1>1, <2>2, <2>4, <4>1
    <3> QED BY <2>1, <3>1, <3>2
  <2>8. \A i \in 1 .. Len(q) : q[i] = s[g[i]]
      BY <2>2, <2>3, <2>4 DEF PicksUpTo
  <2>9. PicksUpTo(g, q, s, T, n)
      BY <2>5, <2>6, <2>7, <2>8 DEF PicksUpTo
  <2> QED BY <1>2, <2>9 DEF q
<1>3. CASE s[n] \notin T
  <2>1. Passing(s, T, n) = Passing(s, T, n - 1)
      BY <1>1, <1>3 DEF Passing
  <2> QED BY <1>3, <2>1 DEF PicksUpTo
<1> QED BY <1>2, <1>3

\* What the loop returns is a selection.
LEMMA SelectedPicks ==
  ASSUME NEW E, NEW s \in Seq(E), NEW T
  PROVE  /\ Selected(s, T) \in Seq(E)
         /\ \E h : Picks(h, Selected(s, T), s, T)
<1>1. PICK f : Selecting(f, s, T, Len(s)) /\ Selected(s, T) = f[Len(s)]
    BY SelectedUnfolds
<1> DEFINE S == {n \in 0 .. Len(s) : f[n] \in Seq(E) /\ \E h : PicksUpTo(h, f[n], s, T, n)}
<1>2. 0 \in S
  <2>1. f[0] = << >>
      BY <1>1 DEF Selecting
  <2>2. PicksUpTo(<< >>, << >>, s, T, 0)
      BY DEF PicksUpTo, Passing
  <2>3. 0 \in 0 .. Len(s) /\ << >> \in Seq(E)
      OBVIOUS
  <2> QED BY <2>1, <2>2, <2>3
<1>3. ASSUME NEW n \in 1 .. Len(s), n - 1 \in S PROVE n \in S
  <2>1. f[n - 1] \in Seq(E) /\ \E h : PicksUpTo(h, f[n - 1], s, T, n - 1)
      BY <1>3
  <2>2. f[n] = IF s[n] \in T THEN Append(f[n - 1], s[n]) ELSE f[n - 1]
      BY <1>1 DEF Selecting
  <2>3. f[n] \in Seq(E)
      BY <2>1, <2>2
  <2>4. \E h : PicksUpTo(h, f[n], s, T, n)
      BY <2>1, <2>2, PickNext
  <2> QED BY <2>3, <2>4
<1>4. Len(s) \in Nat
    OBVIOUS
<1>5. \A n \in 1 .. Len(s) : n - 1 \in S => n \in S
    BY <1>3
<1>6. Len(s) \in S
  <2> HIDE DEF S
  <2>1. 0 .. Len(s) \subseteq S
      BY <1>2, <1>4, <1>5, Climb
  <2> QED BY <1>4, <2>1
<1> QED BY <1>1, <1>6 DEF Picks

\* Two selections of the same elements: the first is no longer, and takes the same.
LEMMA PicksAgree ==
  ASSUME NEW E, NEW s \in Seq(E), NEW T, NEW r \in Seq(E), NEW q \in Seq(E),
         NEW h, NEW g, Picks(h, r, s, T), Picks(g, q, s, T)
  PROVE  \A k \in 1 .. Len(r) : k <= Len(q) /\ h[k] = g[k]
<1> DEFINE Bad == {k \in 1 .. Len(r) : ~(k <= Len(q) /\ h[k] = g[k])}
<1> SUFFICES ASSUME Bad # {} PROVE FALSE
    OBVIOUS
<1>0. Len(r) \in Nat /\ Len(q) \in Nat /\ Len(s) \in Nat
    OBVIOUS
<1>1. PICK k \in Bad : \A m \in Bad : k <= m
    BY <1>0, Least, Bad \in SUBSET Nat
<1>2. k \in 1 .. Len(r) /\ h[k] \in Passing(s, T, Len(s))
    BY DEF Picks, PicksUpTo
<1>3. \A m \in 1 .. (k - 1) : m \in 1 .. Len(q) /\ m \in 1 .. Len(r) /\ h[m] = g[m]
  <2> SUFFICES ASSUME NEW m \in 1 .. (k - 1)
               PROVE  m \in 1 .. Len(q) /\ m \in 1 .. Len(r) /\ h[m] = g[m]
      OBVIOUS
  <2>1. m \in 1 .. Len(r) /\ ~(k <= m)
      BY <1>0, <1>2
  <2>2. m \notin Bad
      BY <1>1, <2>1
  <2> QED BY <1>0, <2>1, <2>2
<1>4. PICK m \in 1 .. Len(q) : g[m] = h[k]
    BY <1>2 DEF Picks, PicksUpTo
<1>5. k <= m
  <2> SUFFICES ASSUME m < k PROVE FALSE
      BY <1>0, <1>2
  <2>1. m \in 1 .. (k - 1)
      BY <1>0, <1>2
  <2>2. h[m] < h[k] /\ h[m] = h[k] /\ h[k] \in 1 .. Len(s)
      BY <1>2, <1>3, <1>4, <2>1 DEF Picks, PicksUpTo, Passing
  <2> QED BY <1>0, <2>2
<1>6. k \in 1 .. Len(q) /\ g[k] \in Passing(s, T, Len(s)) /\ g[k] <= h[k]
  <2>1. k \in 1 .. Len(q)
      BY <1>0, <1>2, <1>5
  <2>2. g[k] \in Passing(s, T, Len(s))
      BY <2>1 DEF Picks, PicksUpTo
  <2>3. g[k] \in 1 .. Len(s) /\ h[k] \in 1 .. Len(s)
      BY <1>2, <2>2 DEF Passing
  <2>4. k = m \/ g[k] < g[m]
      BY <1>0, <1>5, <2>1 DEF Picks, PicksUpTo
  <2> QED BY <1>0, <1>4, <2>1, <2>2, <2>3, <2>4
<1>7. PICK p \in 1 .. Len(r) : h[p] = g[k]
    BY <1>6 DEF Picks, PicksUpTo
<1>8. k <= p
  <2> SUFFICES ASSUME p < k PROVE FALSE
      BY <1>0, <1>2
  <2>1. p \in 1 .. (k - 1)
      BY <1>0, <1>2
  <2>2. g[p] < g[k] /\ g[p] = g[k] /\ g[k] \in 1 .. Len(s)
      BY <1>3, <1>6, <1>7, <2>1 DEF Picks, PicksUpTo, Passing
  <2> QED BY <1>0, <2>2
<1>9. h[k] <= g[k]
  <2>1. k = p \/ h[k] < h[p]
      BY <1>0, <1>2, <1>8 DEF Picks, PicksUpTo
  <2>2. g[k] \in 1 .. Len(s) /\ h[k] \in 1 .. Len(s)
      BY <1>2, <1>6 DEF Passing
  <2> QED BY <1>0, <1>7, <2>1, <2>2
<1>10. h[k] = g[k]
    BY <1>0, <1>2, <1>6, <1>9 DEF Passing
<1> QED BY <1>0, <1>6, <1>10

\* There is but one selection: to be one is to be what the loop returns.
LEMMA SelectedUnique ==
  ASSUME NEW E, NEW s \in Seq(E), NEW T, NEW r \in Seq(E), NEW h, Picks(h, r, s, T)
  PROVE  r = Selected(s, T)
<1> DEFINE q == Selected(s, T)
<1>1. q \in Seq(E)
    BY SelectedPicks
<1>2. PICK g : Picks(g, q, s, T)
    BY SelectedPicks
<1> HIDE DEF q
<1>3. \A k \in 1 .. Len(r) : k <= Len(q) /\ h[k] = g[k]
    BY <1>1, <1>2, PicksAgree
<1>4. \A k \in 1 .. Len(q) : k <= Len(r) /\ g[k] = h[k]
    BY <1>1, <1>2, PicksAgree
<1>5. Len(r) \in Nat /\ Len(q) \in Nat
    BY <1>1
<1>6. Len(r) = Len(q)
    BY <1>3, <1>4, <1>5
<1>7. \A k \in 1 .. Len(r) : r[k] = q[k]
    BY <1>2, <1>3, <1>6 DEF Picks, PicksUpTo
<1>8. r = q
    BY <1>1, <1>6, <1>7
<1> QED BY <1>8 DEF q
-----------------------------------------------------------------------------
(* The laws of the loop that the proofs about its users cite.               *)

\* What is selected: the elements that pass, each as often as it stands there.
LEMMA SelectedElements ==
  ASSUME NEW E, NEW s \in Seq(E), NEW T
  PROVE  /\ Selected(s, T) \in Seq(E \cap T)
         /\ ToSet(Selected(s, T)) = ToSet(s) \cap T
         /\ IsInjective(s) => IsInjective(Selected(s, T))
<1> DEFINE r == Selected(s, T)
<1>1. r \in Seq(E)
    BY SelectedPicks
<1>2. PICK h : Picks(h, r, s, T)
    BY SelectedPicks
<1> HIDE DEF r
<1>3. \A i \in 1 .. Len(r) : h[i] \in 1 .. Len(s) /\ s[h[i]] \in T /\ r[i] = s[h[i]]
    BY <1>2 DEF Picks, PicksUpTo, Passing
<1>4. DOMAIN r = 1 .. Len(r) /\ DOMAIN s = 1 .. Len(s) /\ Len(r) \in Nat /\ Len(s) \in Nat
    BY <1>1
<1>5. \A j \in 1 .. Len(s) : s[j] \in T => \E i \in 1 .. Len(r) : r[i] = s[j]
    BY <1>2 DEF Picks, PicksUpTo, Passing
<1>6. r \in Seq(E \cap T)
  <2>1. \A i \in 1 .. Len(r) : r[i] \in E \cap T
      BY <1>1, <1>3
  <2>2. r \in [1 .. Len(r) -> E \cap T]
      BY <1>1, <2>1
  <2> QED BY <1>4, <2>2
<1>7. ToSet(r) = ToSet(s) \cap T
  <2>1. ASSUME NEW x \in ToSet(r) PROVE x \in ToSet(s) \cap T
    <3>1. PICK i \in 1 .. Len(r) : r[i] = x
        BY <1>4 DEF ToSet
    <3> QED BY <1>3, <1>4, <3>1 DEF ToSet
  <2>2. ASSUME NEW x \in ToSet(s) \cap T PROVE x \in ToSet(r)
    <3>1. PICK j \in 1 .. Len(s) : s[j] = x
        BY <1>4 DEF ToSet
    <3> QED BY <1>4, <1>5, <3>1 DEF ToSet
  <2> QED BY <2>1, <2>2
<1>8. ASSUME IsInjective(s) PROVE IsInjective(r)
  <2> SUFFICES ASSUME NEW i \in 1 .. Len(r), NEW j \in 1 .. Len(r), r[i] = r[j], i # j PROVE FALSE
      BY <1>4 DEF IsInjective
  <2>1. h[i] = h[j]
      BY <1>3, <1>4, <1>8 DEF IsInjective
  <2>2. i < j \/ j < i
      BY <1>4
  <2>3. h[i] < h[j] \/ h[j] < h[i]
      BY <1>2, <2>2 DEF Picks, PicksUpTo
  <2> QED BY <1>3, <1>4, <2>1, <2>3
<1> QED BY <1>6, <1>7, <1>8 DEF r

\* Only what is in the slice matters of a filter.
LEMMA SelectedSame ==
  ASSUME NEW E, NEW s \in Seq(E), NEW T, NEW U, ToSet(s) \cap T = ToSet(s) \cap U
  PROVE  Selected(s, T) = Selected(s, U)
<1> DEFINE r == Selected(s, T)
<1>1. r \in Seq(E)
    BY SelectedPicks
<1>2. PICK h : Picks(h, r, s, T)
    BY SelectedPicks
<1>3. Passing(s, T, Len(s)) = Passing(s, U, Len(s))
    BY DEF Passing, ToSet
<1> HIDE DEF r
<1>4. Picks(h, r, s, U)
    BY <1>2, <1>3 DEF Picks, PicksUpTo
<1>5. r = Selected(s, U)
    BY <1>1, <1>4, SelectedUnique
<1> QED BY <1>5 DEF r

\* One more element.
LEMMA SelectedAppend ==
  ASSUME NEW E, NEW s \in Seq(E), NEW T, NEW x \in E
  PROVE  Selected(Append(s, x), T) =
           IF x \in T THEN Append(Selected(s, T), x) ELSE Selected(s, T)
<1> DEFINE t == Append(s, x)
           r == Selected(s, T)
           q == IF t[Len(t)] \in T THEN Append(r, t[Len(t)]) ELSE r
<1>1. r \in Seq(E)
    BY SelectedPicks
<1>2. PICK h : Picks(h, r, s, T)
    BY SelectedPicks
<1>3. /\ t \in Seq(E) /\ Len(t) = Len(s) + 1 /\ Len(t) - 1 = Len(s) /\ t[Len(t)] = x
      /\ Len(t) \in 1 .. Len(t) /\ Len(s) \in Nat
      /\ \A i \in 1 .. Len(s) : t[i] = s[i]
    OBVIOUS
<1> HIDE DEF t, r
<1>4. Passing(t, T, Len(s)) = Passing(s, T, Len(s))
    BY <1>3 DEF Passing
<1>5. \A i \in 1 .. Len(r) : h[i] \in 1 .. Len(s) /\ r[i] = s[h[i]]
    BY <1>2 DEF Picks, PicksUpTo, Passing
<1>6. PicksUpTo(h, r, t, T, Len(t) - 1)
    BY <1>2, <1>3, <1>4, <1>5 DEF Picks, PicksUpTo
<1>7. \E g : PicksUpTo(g, q, t, T, Len(t))
    BY <1>1, <1>3, <1>6, PickNext
<1>8. q \in Seq(E)
    BY <1>1, <1>3
<1> HIDE DEF q
<1>9. q = Selected(t, T)
    BY <1>3, <1>7, <1>8, SelectedUnique DEF Picks
<1> QED BY <1>3, <1>9 DEF q, r, t

\* A filter after a filter.
LEMMA SelectedTwice ==
  ASSUME NEW E, NEW s \in Seq(E), NEW T, NEW U
  PROVE  Selected(Selected(s, T), U) = Selected(s, T \cap U)
<1> DEFINE r == Selected(s, T)
           q == Selected(r, U)
<1>1. r \in Seq(E)
    BY SelectedPicks
<1>2. PICK h : Picks(h, r, s, T)
    BY SelectedPicks
<1> HIDE DEF r
<1>3. q \in Seq(E)
    BY <1>1, SelectedPicks
<1>4. PICK g : Picks(g, q, r, U)
    BY <1>1, SelectedPicks
<1> HIDE DEF q
<1> DEFINE f == [k \in 1 .. Len(q) |-> h[g[k]]]
<1>5. \A k \in 1 .. Len(q) : g[k] \in 1 .. Len(r) /\ r[g[k]] \in U /\ q[k] = r[g[k]]
    BY <1>4 DEF Picks, PicksUpTo, Passing
<1>6. \A i \in 1 .. Len(r) : h[i] \in 1 .. Len(s) /\ s[h[i]] \in T /\ r[i] = s[h[i]]
    BY <1>2 DEF Picks, PicksUpTo, Passing
<1>7. f \in [1 .. Len(q) -> Passing(s, T \cap U, Len(s))]
    BY <1>5, <1>6 DEF Passing
<1>8. \A k \in 1 .. Len(q) : f[k] = h[g[k]] /\ q[k] = s[f[k]]
    BY <1>5, <1>6
<1> HIDE DEF f
<1>9. \A i, j \in 1 .. Len(q) : i < j => f[i] < f[j]
  <2>1. \A i, j \in 1 .. Len(q) : i < j => g[i] < g[j]
      BY <1>4 DEF Picks, PicksUpTo
  <2>2. \A i, j \in 1 .. Len(r) : i < j => h[i] < h[j]
      BY <1>2 DEF Picks, PicksUpTo
  <2> QED BY <1>5, <1>8, <2>1, <2>2
<1>10. \A j \in Passing(s, T \cap U, Len(s)) : \E k \in 1 .. Len(q) : f[k] = j
  <2> SUFFICES ASSUME NEW j \in Passing(s, T \cap U, Len(s))
               PROVE  \E k \in 1 .. Len(q) : f[k] = j
      OBVIOUS
  <2>1. j \in Passing(s, T, Len(s)) /\ s[j] \in U
      BY DEF Passing
  <2>2. PICK i \in 1 .. Len(r) : h[i] = j
      BY <1>2, <2>1 DEF Picks, PicksUpTo
  <2>3. i \in Passing(r, U, Len(r))
      BY <1>6, <2>1, <2>2 DEF Passing
  <2>4. PICK k \in 1 .. Len(q) : g[k] = i
      BY <1>4, <2>3 DEF Picks, PicksUpTo
  <2> QED BY <1>8, <2>2, <2>4
<1>11. Picks(f, q, s, T \cap U)
    BY <1>7, <1>8, <1>9, <1>10 DEF Picks, PicksUpTo
<1>12. q = Selected(s, T \cap U)
    BY <1>3, <1>11, SelectedUnique
<1> QED BY <1>12 DEF q, r

\* Of a slice without repetitions, all but the first k elements.
LEMMA SelectedRest ==
  ASSUME NEW E, NEW s \in Seq(E), IsInjective(s), NEW k \in 0 .. Len(s)
  PROVE  SubSeq(s, k + 1, Len(s)) = Selected(s, ToSet(s) \ {s[i] : i \in 1 .. k})
<1> DEFINE T == ToSet(s) \ {s[i] : i \in 1 .. k}
           r == SubSeq(s, k + 1, Len(s))
           h == [i \in 1 .. (Len(s) - k) |-> k + i]
<1>1. Len(s) \in Nat /\ k \in Nat /\ k <= Len(s) /\ DOMAIN s = 1 .. Len(s)
    OBVIOUS
<1>2. r \in Seq(E) /\ Len(r) = Len(s) - k /\ \A i \in 1 .. (Len(s) - k) : r[i] = s[k + i]
  <2>1. k + 1 \in 1 .. (Len(s) + 1) /\ Len(s) \in k .. Len(s)
      BY <1>1
  <2>2. r = [i \in 1 .. (Len(s) - k) |-> s[i + k]]
      BY <1>1
  <2> HIDE DEF r
  <2>3. \A i \in 1 .. (Len(s) - k) : s[i + k] \in E /\ i + k = k + i
      BY <1>1
  <2>4. r \in [1 .. (Len(s) - k) -> E]
      BY <2>2, <2>3
  <2> QED BY <1>1, <2>2, <2>3, <2>4
<1>3. Passing(s, T, Len(s)) = (k + 1) .. Len(s)
  <2>1. \A i \in 1 .. Len(s) : s[i] \in T <=> ~(\E j \in 1 .. k : s[j] = s[i])
      BY <1>1 DEF ToSet
  <2>2. \A i \in 1 .. Len(s) : (\E j \in 1 .. k : s[j] = s[i]) <=> i \in 1 .. k
      BY <1>1 DEF IsInjective
  <2>3. \A i : i \in 1 .. Len(s) /\ i \notin 1 .. k <=> i \in (k + 1) .. Len(s)
      BY <1>1
  <2> HIDE DEF T
  <2> QED BY <2>1, <2>2, <2>3 DEF Passing
<1> HIDE DEF T, r
<1>4. h \in [1 .. Len(r) -> Passing(s, T, Len(s))]
    BY <1>1, <1>2, <1>3
<1>5. \A i, j \in 1 .. Len(r) : i < j => h[i] < h[j]
    BY <1>1, <1>2
<1>6. \A j \in Passing(s, T, Len(s)) : \E i \in 1 .. Len(r) : h[i] = j
  <2> SUFFICES ASSUME NEW j \in Passing(s, T, Len(s)) PROVE \E i \in 1 .. Len(r) : h[i] = j
      OBVIOUS
  <2>1. j - k \in 1 .. Len(r) /\ k + (j - k) = j
      BY <1>1, <1>2, <1>3
  <2> QED BY <1>2, <2>1
<1>7. \A i \in 1 .. Len(r) : r[i] = s[h[i]]
    BY <1>1, <1>2
<1>8. Picks(h, r, s, T)
    BY <1>4, <1>5, <1>6, <1>7 DEF Picks, PicksUpTo
<1>9. r = Selected(s, T)
    BY <1>2, <1>8, SelectedUnique
<1> QED BY <1>9 DEF r, T
=============================================================================
