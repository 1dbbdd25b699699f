---------------------------- MODULE RankingProofs ----------------------------
(***************************************************************************)
(* Proofs about Manager.Search: that the fan-out loses no answer, for any  *)
(* number of sources, and that the ranking of any answers has one row per  *)
(* torrent, with the best of what its rows say.                            *)
(***************************************************************************)
EXTENDS Ranking, SelectionProofs

-----------------------------------------------------------------------------
(* Slices and channels.                                                     *)

\* A slice that grows by one element.
LEMMA Appended ==
  ASSUME NEW E, NEW s \in Seq(E), NEW x \in E
  PROVE  /\ Append(s, x) \in Seq(E)
         /\ ToSet(Append(s, x)) = ToSet(s) \cup {x}
         /\ IsInjective(s) /\ x \notin ToSet(s) => IsInjective(Append(s, x))
<1>. DEFINE t == Append(s, x)
<1>1. /\ t \in Seq(E) /\ DOMAIN t = 1 .. (Len(s) + 1) /\ DOMAIN s = 1 .. Len(s)
      /\ Len(s) \in Nat /\ t[Len(s) + 1] = x /\ \A i \in 1 .. Len(s) : t[i] = s[i]
  OBVIOUS
<1>. HIDE DEF t
<1>2. \A i \in 1 .. (Len(s) + 1) : i \in 1 .. Len(s) \/ i = Len(s) + 1  BY <1>1
<1>3. 1 .. Len(s) \subseteq 1 .. (Len(s) + 1) /\ Len(s) + 1 \in 1 .. (Len(s) + 1)  BY <1>1
<1>4. ToSet(t) = ToSet(s) \cup {x}
  <2>1. ToSet(t) = {t[i] : i \in 1 .. (Len(s) + 1)} /\ ToSet(s) = {s[i] : i \in 1 .. Len(s)}
    BY <1>1 DEF ToSet
  <2>. QED  BY <1>1, <1>2, <1>3, <2>1
<1>5. IsInjective(s) /\ x \notin ToSet(s) => IsInjective(t)
  BY <1>1, <1>2 DEF IsInjective, ToSet
<1>. QED  BY <1>1, <1>4, <1>5 DEF t

\* A slice without its first element.
LEMMA Consumed ==
  ASSUME NEW E, NEW s \in Seq(E), s # << >>
  PROVE  /\ Head(s) \in E /\ Tail(s) \in Seq(E)
         /\ Head(s) \in ToSet(s) /\ ToSet(s) = ToSet(Tail(s)) \cup {Head(s)}
         /\ IsInjective(s) => IsInjective(Tail(s)) /\ Head(s) \notin ToSet(Tail(s))
<1>. DEFINE t == Tail(s)
            n == Len(s)
<1>1. /\ n \in Nat /\ n >= 1 /\ t \in Seq(E) /\ DOMAIN t = 1 .. (n - 1) /\ DOMAIN s = 1 .. n
      /\ Head(s) = s[1] /\ \A i \in 1 .. (n - 1) : t[i] = s[i + 1]
  OBVIOUS
<1>. HIDE DEF t, n
<1>2. \A i \in 1 .. n : i = 1 \/ (i - 1 \in 1 .. (n - 1) /\ (i - 1) + 1 = i)  BY <1>1
<1>3. 1 \in 1 .. n /\ \A i \in 1 .. (n - 1) : i + 1 \in 1 .. n /\ i + 1 # 1  BY <1>1
<1>4. ToSet(s) = ToSet(t) \cup {s[1]}
  <2>1. ToSet(t) = {t[i] : i \in 1 .. (n - 1)} /\ ToSet(s) = {s[i] : i \in 1 .. n}
    BY <1>1 DEF ToSet
  <2>2. ASSUME NEW x \in ToSet(s) PROVE x \in ToSet(t) \cup {s[1]}
    <3>1. PICK i \in 1 .. n : x = s[i]  BY <2>1
    <3>2. i = 1 \/ (i - 1 \in 1 .. (n - 1) /\ t[i - 1] = s[i])  BY <1>1, <1>2
    <3>. QED  BY <2>1, <3>1, <3>2
  <2>3. ASSUME NEW x \in ToSet(t) \cup {s[1]} PROVE x \in ToSet(s)
    BY <1>1, <1>3, <2>1
  <2>. QED  BY <2>2, <2>3
<1>5. ASSUME IsInjective(s) PROVE IsInjective(t) /\ s[1] \notin ToSet(t)
  <2>1. \A i, j \in 1 .. (n - 1) : i + 1 = j + 1 => i = j  BY <1>1
  <2>2. IsInjective(t)  BY <1>1, <1>3, <1>5, <2>1 DEF IsInjective
  <2>3. \A i \in 1 .. (n - 1) : t[i] # s[1]  BY <1>1, <1>3, <1>5 DEF IsInjective
  <2>. QED  BY <1>1, <2>2, <2>3 DEF ToSet
<1>6. s[1] \in E  BY <1>1, <1>3
<1>. QED  BY <1>1, <1>4, <1>5, <1>6 DEF t

-----------------------------------------------------------------------------
(* The fan-out: no answer is lost.                                          *)

\* The sources whose answer has been sent.
Sent == {s \in Sources : outcome[s] = "ok" /\ pc[s] \in {"ending", "done"}}

\* Where the goroutines of a search stand to one another, to the counter and to the channel.
SearchIInv ==
  /\ TypeOK
  /\ wg = Cardinality(Running)
  /\ at # "asking" => toAsk = {}
  /\ at = "asking" <=> closer = "none"
  /\ closed <=> closer = "done"
  /\ closed => Running = {}
  /\ at = "answered" => closed /\ chan = << >>
  /\ \A s \in toAsk : pc[s] = "none"
  /\ \A s \in Sources : /\ outcome[s] = "none" <=> pc[s] \in {"none", "asking"}
                        /\ pc[s] = "sending" => outcome[s] = "ok"
  /\ IsInjective(answers) /\ IsInjective(chan)
  /\ ToSet(answers) \cap ToSet(chan) = {} /\ ToSet(answers) \cup ToSet(chan) = Sent
  /\ ~panicked

LEMMA NothingYet ==
  ToSet(<< >>) = {} /\ IsInjective(<< >>) /\ \A E : << >> \in Seq(E)
BY DEF ToSet, IsInjective

LEMMA InitSearch == Init => SearchIInv
<1>. SUFFICES ASSUME Init PROVE SearchIInv  OBVIOUS
<1>1. Running = {} /\ Sent = {}  BY DEF Init, Running, Sent
<1>2. TypeOK  BY NothingYet DEF Init, TypeOK
<1>. QED  BY <1>1, <1>2, NothingYet, FS_EmptySet DEF Init, SearchIInv

\* The counter counts: no more goroutines than sources.
LEMMA RunningFinite ==
  ASSUME NEW T \in SUBSET Sources
  PROVE  IsFiniteSet(T) /\ Cardinality(T) \in Nat
BY ManagerAssumption, FS_Subset, FS_CardinalityType

\* A goroutine that has still to send finds room: the channel holds at most one answer of
\* every other source.
LEMMA Room ==
  ASSUME SearchIInv, NEW s \in Sources, pc[s] = "sending"
  PROVE  ~closed /\ Len(chan) < Capacity /\ s \notin ToSet(chan) \cup ToSet(answers)
<1>1. s \in Running /\ s \notin Sent  BY DEF Running, Sent
<1>2. ~closed /\ s \notin ToSet(chan) \cup ToSet(answers)  BY <1>1 DEF SearchIInv
<1>3. chan \in Seq(Sources) /\ IsInjective(chan)  BY DEF SearchIInv, TypeOK
<1>4. Cardinality(ToSet(chan)) = Len(chan) /\ Len(chan) \in Nat  BY <1>3, InjectiveLength
<1>5. ToSet(chan) \in SUBSET (Sources \ {s})  BY <1>1 DEF SearchIInv, Sent
<1>6. IsFiniteSet(Sources \ {s}) /\ Cardinality(Sources \ {s}) = Cardinality(Sources) - 1
  BY ManagerAssumption, FS_RemoveElement
<1>7. Cardinality(ToSet(chan)) <= Cardinality(Sources) - 1  BY <1>5, <1>6, FS_Subset
<1>8. Cardinality(Sources) \in Nat  BY ManagerAssumption, FS_CardinalityType
<1>. QED  BY <1>2, <1>4, <1>7, <1>8 DEF Capacity

LEMMA AskStep == ASSUME SearchIInv, NEW s \in Sources, Ask(s) PROVE SearchIInv'
<1>. USE DEF SearchIInv
<1>1. /\ pc' = [pc EXCEPT ![s] = "asking"] /\ wg' = wg + 1 /\ pc[s] = "none"
      /\ UNCHANGED <<target, at, closer, chan, closed, panicked, answers, outcome>>
      /\ toAsk' = toAsk \ {s} /\ at = "asking" /\ s \in toAsk
  BY DEF Ask
<1>2. TypeOK'  BY <1>1 DEF TypeOK
<1>3. Running' = Running \cup {s} /\ s \notin Running  BY <1>1 DEF Running, TypeOK
<1>4. wg' = Cardinality(Running')
  BY <1>1, <1>3, RunningFinite, FS_AddElement, Running \in SUBSET Sources DEF Running
<1>5. Sent' = Sent  BY <1>1 DEF Sent, TypeOK
<1>6. ~closed' /\ at' = at  BY <1>1
<1>. QED  BY <1>1, <1>2, <1>4, <1>5, <1>6 DEF TypeOK

LEMMA ReturnsStep == ASSUME SearchIInv, NEW s \in Sources, Returns(s) PROVE SearchIInv'
<1>. USE DEF SearchIInv
<1>1. PICK o \in {"ok", "error"} :
        /\ outcome' = [outcome EXCEPT ![s] = o]
        /\ pc' = [pc EXCEPT ![s] = IF o = "ok" THEN "sending" ELSE "ending"]
  BY DEF Returns
<1>2. /\ pc[s] = "asking"
      /\ UNCHANGED <<target, at, toAsk, wg, closer, chan, closed, panicked, answers>>
  BY DEF Returns
<1>3. TypeOK'  BY <1>1, <1>2 DEF TypeOK
<1>4. Running' = Running  BY <1>1, <1>2 DEF Running, TypeOK
<1>5. Sent' = Sent  BY <1>1, <1>2 DEF Sent, TypeOK
<1>6. \A q \in Sources : /\ outcome'[q] = "none" <=> pc'[q] \in {"none", "asking"}
                         /\ pc'[q] = "sending" => outcome'[q] = "ok"
  BY <1>1, <1>2 DEF TypeOK
<1>7. \A q \in toAsk' : pc'[q] = "none"  BY <1>1, <1>2 DEF TypeOK
<1>. QED  BY <1>2, <1>3, <1>4, <1>5, <1>6, <1>7

LEMMA SendStep == ASSUME SearchIInv, NEW s \in Sources, Send(s) PROVE SearchIInv'
<1>. USE DEF SearchIInv
<1>1. /\ ~closed /\ s \notin ToSet(chan) \cup ToSet(answers)
  BY Room DEF Send
<1>2. /\ pc[s] = "sending" /\ pc' = [pc EXCEPT ![s] = "ending"] /\ chan' = Append(chan, s)
      /\ UNCHANGED <<target, at, toAsk, wg, closer, closed, panicked, answers, outcome>>
  BY <1>1 DEF Send
<1>3. /\ chan' \in Seq(Sources) /\ IsInjective(chan') /\ ToSet(chan') = ToSet(chan) \cup {s}
  BY <1>1, <1>2, Appended DEF TypeOK
<1>4. TypeOK'  BY <1>2, <1>3 DEF TypeOK
<1>5. Running' = Running  BY <1>2 DEF Running, TypeOK
<1>6. Sent' = Sent \cup {s}  BY <1>2 DEF Sent, TypeOK
<1>7. \A q \in Sources : /\ outcome'[q] = "none" <=> pc'[q] \in {"none", "asking"}
                         /\ pc'[q] = "sending" => outcome'[q] = "ok"
  BY <1>2 DEF TypeOK
<1>8. \A q \in toAsk' : pc'[q] = "none"  BY <1>2 DEF TypeOK
<1>. QED  BY <1>1, <1>2, <1>3, <1>4, <1>5, <1>6, <1>7, <1>8

LEMMA DoneStep == ASSUME SearchIInv, NEW s \in Sources, Done(s) PROVE SearchIInv'
<1>. USE DEF SearchIInv
<1>1. /\ pc[s] = "ending" /\ pc' = [pc EXCEPT ![s] = "done"] /\ wg' = wg - 1
      /\ UNCHANGED <<target, at, toAsk, closer, chan, closed, panicked, answers, outcome>>
  BY DEF Done
<1>2. Running' = Running \ {s} /\ s \in Running  BY <1>1 DEF Running, TypeOK
<1>3. wg' = Cardinality(Running')
  <2>1. IsFiniteSet(Running)  BY RunningFinite, Running \in SUBSET Sources DEF Running
  <2>2. Cardinality(Running \ {s}) = Cardinality(Running) - 1  BY <1>2, <2>1, FS_RemoveElement
  <2>. QED  BY <1>1, <1>2, <2>2
<1>4. wg' \in Nat  BY <1>2, <1>3, RunningFinite, Running' \in SUBSET Sources DEF Running
<1>5. TypeOK'  BY <1>1, <1>4 DEF TypeOK
<1>6. Sent' = Sent  BY <1>1 DEF Sent, TypeOK
<1>7. \A q \in Sources : /\ outcome'[q] = "none" <=> pc'[q] \in {"none", "asking"}
                         /\ pc'[q] = "sending" => outcome'[q] = "ok"
  BY <1>1 DEF TypeOK
<1>8. \A q \in toAsk' : pc'[q] = "none"  BY <1>1 DEF TypeOK
<1>. QED  BY <1>1, <1>2, <1>3, <1>5, <1>6, <1>7, <1>8

LEMMA CollectStep == ASSUME SearchIInv, Collect PROVE SearchIInv'
<1>. USE DEF SearchIInv
<1>1. /\ at = "collecting" /\ chan # << >>
      /\ answers' = Append(answers, Head(chan)) /\ chan' = Tail(chan)
      /\ UNCHANGED <<target, at, toAsk, pc, wg, closer, closed, panicked, outcome>>
  BY DEF Collect
<1>2. /\ Head(chan) \in Sources /\ chan' \in Seq(Sources) /\ IsInjective(chan')
      /\ ToSet(chan) = ToSet(chan') \cup {Head(chan)} /\ Head(chan) \notin ToSet(chan')
  BY <1>1, Consumed DEF TypeOK
<1>3. Head(chan) \notin ToSet(answers)  BY <1>2
<1>4. /\ answers' \in Seq(Sources) /\ IsInjective(answers')
      /\ ToSet(answers') = ToSet(answers) \cup {Head(chan)}
  BY <1>1, <1>2, <1>3, Appended DEF TypeOK
<1>5. TypeOK'  BY <1>1, <1>2, <1>4 DEF TypeOK
<1>6. Running' = Running /\ Sent' = Sent  BY <1>1 DEF Running, Sent
<1>7. ToSet(answers') \cap ToSet(chan') = {} /\ ToSet(answers') \cup ToSet(chan') = Sent'
  BY <1>2, <1>4, <1>6
<1>. QED  BY <1>1, <1>2, <1>4, <1>5, <1>6, <1>7

LEMMA SearchStep == SearchIInv /\ [Next]_vars => SearchIInv'
<1>. SUFFICES ASSUME SearchIInv, [Next]_vars PROVE SearchIInv'  OBVIOUS
<1>. USE DEF SearchIInv
<1>1. ASSUME NEW s \in Sources, SkipSource(s) PROVE SearchIInv'
  <2>1. Running' = Running /\ Sent' = Sent /\ TypeOK'
    BY <1>1 DEF SkipSource, Running, Sent, TypeOK
  <2>. QED  BY <1>1, <2>1 DEF SkipSource
<1>2. CASE StartCloser
  <2>1. Running' = Running /\ Sent' = Sent /\ TypeOK'
    BY <1>2 DEF StartCloser, Running, Sent, TypeOK
  <2>. QED  BY <1>2, <2>1 DEF StartCloser
<1>3. CASE Return
  <2>1. Running' = Running /\ Sent' = Sent /\ TypeOK'
    BY <1>3 DEF Return, Running, Sent, TypeOK
  <2>. QED  BY <1>3, <2>1 DEF Return
<1>4. CASE Close
  <2>1. Running' = Running /\ Sent' = Sent /\ TypeOK'
    BY <1>4 DEF Close, Running, Sent, TypeOK
  <2>2. Running = {}
    BY <1>4, RunningFinite, FS_EmptySet, Running \in SUBSET Sources DEF Close, Running
  <2>. QED  BY <1>4, <2>1, <2>2 DEF Close
<1>5. CASE UNCHANGED vars
  <2>1. Running' = Running /\ Sent' = Sent /\ TypeOK'
    BY <1>5 DEF vars, Running, Sent, TypeOK
  <2>. QED  BY <1>5, <2>1 DEF vars
<1>. QED
  BY <1>1, <1>2, <1>3, <1>4, <1>5, AskStep, ReturnsStep, SendStep, DoneStep, CollectStep
  DEF Next, GoOn

\* Once the channel is closed and empty, all that was sent has been collected.
LEMMA SearchIInvSuffices == SearchIInv => NoAnswerLost
<1>. SUFFICES ASSUME SearchIInv PROVE NoAnswerLost  OBVIOUS
<1>1. ASSUME at = "answered" PROVE ToSet(answers) = {s \in Sources : outcome[s] = "ok"}
  <2>1. Running = {} /\ ToSet(answers) = Sent  BY <1>1, NothingYet DEF SearchIInv
  <2>2. \A s \in Sources : outcome[s] = "ok" => pc[s] = "done"
    BY <2>1 DEF SearchIInv, TypeOK, Running
  <2>. QED  BY <2>1, <2>2 DEF Sent
<1>. QED  BY <1>1, Room DEF SearchIInv, NoAnswerLost

\* For any number of sources that answer or fail at any time: the caller gets each answer
\* once, nothing is sent on the closed channel, and no goroutine is held up by it.
THEOREM NoAnswerIsLost == Spec => [](TypeOK /\ NoAnswerLost)
<1>1. SearchIInv => TypeOK /\ NoAnswerLost  BY SearchIInvSuffices DEF SearchIInv
<1>. QED  BY <1>1, InitSearch, SearchStep, PTL DEF Spec

-----------------------------------------------------------------------------
(* Torrents and their hashes.                                               *)

\* However a row writes its hash: normalised it is the torrent's.
LEMMA HashIsTorrent ==
  ASSUME NEW r \in Row
  PROVE  /\ TorrentOf(r) \in Hashes \cup {NoHash} /\ HashOf(r) \in Written \cup {NoHash}
         /\ HashOf(r) = IF TorrentOf(r) = NoHash THEN NoHash
                        ELSE [hash |-> TorrentOf(r), as |-> "hex"]
<1>1. r.infoHash \in Written \cup {NoHash} /\ r.magnet.xt \in Written \cup {NoHash}
  BY DEF Row, Magnet
<1>2. ASSUME NEW w \in Written
      PROVE  /\ w.hash \in Hashes /\ w.hash # NoHash /\ w # NoHash
             /\ NormalizeInfoHash(w) = [hash |-> w.hash, as |-> "hex"]
             /\ NormalizeInfoHash(w) \in Written
  BY RankingAssumption DEF Written, NormalizeInfoHash
<1>3. CASE r.infoHash # NoHash  BY <1>1, <1>2, <1>3 DEF HashOf, TorrentOf
<1>4. CASE r.infoHash = NoHash /\ r.magnet.xt # NoHash
  BY <1>1, <1>2, <1>4 DEF HashOf, TorrentOf
<1>5. CASE r.infoHash = NoHash /\ r.magnet.xt = NoHash  BY <1>5 DEF HashOf, TorrentOf
<1>. QED  BY <1>3, <1>4, <1>5

\* A row of the answer has its hash in its field, if it has one.
Named(r) == r.infoHash = HashOf(r)

LEMMA HexIsWritten ==
  ASSUME NEW h \in Hashes
  PROVE  [hash |-> h, as |-> "hex"] \in Written /\ [hash |-> h, as |-> "hex"] # NoHash
<1>1. [hash |-> h, as |-> "hex"] \in Written  BY DEF Written
<1>. QED  BY <1>1, RankingAssumption

\* DedupeAndMerge writes the hash into the row that it visits, which stays of its torrent.
LEMMA Naming ==
  ASSUME NEW r \in Row
  PROVE  LET n == [r EXCEPT !.infoHash = HashOf(r)]
         IN  /\ n \in Row /\ Named(n) /\ TorrentOf(n) = TorrentOf(r) /\ HashOf(n) = HashOf(r)
             /\ n.site = r.site /\ n.seeders = r.seeders /\ n.bonus = r.bonus
             /\ n.added = r.added /\ n.magnet = r.magnet
             /\ TorrentOf(r) = NoHash => n = r
<1>. DEFINE n == [r EXCEPT !.infoHash = HashOf(r)]
<1>1. /\ TorrentOf(r) \in Hashes \cup {NoHash} /\ HashOf(r) \in Written \cup {NoHash}
      /\ HashOf(r) = IF TorrentOf(r) = NoHash THEN NoHash
                     ELSE [hash |-> TorrentOf(r), as |-> "hex"]
  BY HashIsTorrent
<1>2. /\ n \in Row /\ n.infoHash = HashOf(r)
      /\ n.site = r.site /\ n.seeders = r.seeders /\ n.bonus = r.bonus
      /\ n.added = r.added /\ n.magnet = r.magnet
  BY <1>1 DEF Row
<1>3. CASE TorrentOf(r) = NoHash
  <2>0. r.infoHash \in Written \cup {NoHash} /\ NoHash \notin Hashes
    <3>1. NoHash \notin Hashes  BY RankingAssumption
    <3>2. r.infoHash \in Written \cup {NoHash}  BY DEF Row
    <3>. QED  BY <3>1, <3>2
  <2>1. r.infoHash = NoHash
    <3>1. r.infoHash # NoHash => TorrentOf(r) = r.infoHash.hash  BY DEF TorrentOf
    <3>2. r.infoHash \in Written => r.infoHash.hash \in Hashes  BY DEF Written
    <3>. QED  BY <1>3, <2>0, <3>1, <3>2
  <2>2. n = r  BY <1>1, <1>3, <2>1 DEF Row
  <2>. QED  BY <1>1, <1>2, <1>3, <2>1, <2>2 DEF Named
<1>4. CASE TorrentOf(r) # NoHash
  <2>1. n.infoHash = [hash |-> TorrentOf(r), as |-> "hex"] /\ n.infoHash # NoHash
    BY <1>1, <1>2, <1>4, HexIsWritten
  <2>2. TorrentOf(n) = TorrentOf(r)  BY <2>1 DEF TorrentOf
  <2>3. HashOf(n) = n.infoHash  BY <2>1 DEF HashOf, NormalizeInfoHash
  <2>. QED  BY <1>1, <1>2, <1>4, <2>2, <2>3 DEF Named
<1>. QED  BY <1>3, <1>4

-----------------------------------------------------------------------------
(* Merging two rows.                                                        *)

\* The rows of V that are of one torrent.
Among(V, h) == {q \in V : TorrentOf(q) = h}

\* The row r is one of the best rows of its torrent in V, with what the others add to it.
Made(r, V) ==
  /\ \E q \in Among(V, TorrentOf(r)) :
       /\ Identity(r, q)
       /\ TorrentOf(r) # NoHash => \A o \in Among(V, TorrentOf(r)) : ~ByScoreAndSeeders(o, q)
  /\ TorrentOf(r) # NoHash =>
       /\ r.magnet.trackers = UNION {q.magnet.trackers : q \in Among(V, TorrentOf(r))}
       /\ r.magnet.uri = NoUri <=> \A q \in Among(V, TorrentOf(r)) : q.magnet.uri = NoUri
       /\ r.added = 0 <=> \A q \in Among(V, TorrentOf(r)) : q.added = 0

LEMMA RowFields ==
  ASSUME NEW r \in Row
  PROVE  /\ r.seeders \in Nat /\ r.bonus \in Nat /\ r.added \in Nat /\ r.magnet \in Magnet
         /\ r.magnet.uri = NoUri => r.magnet.xt = NoHash /\ r.magnet.trackers = {}
         /\ r.magnet.trackers \subseteq Trackers
BY RankingAssumption DEF Row, Magnet

\* The merged magnet has the trackers of both, and is missing only if both are.
LEMMA MagnetsMerged ==
  ASSUME NEW m \in Magnet, NEW o \in Magnet
  PROVE  /\ MergeMagnets(m, o) \in Magnet
         /\ MergeMagnets(m, o).trackers = m.trackers \cup o.trackers
         /\ MergeMagnets(m, o).uri = NoUri <=> m.uri = NoUri /\ o.uri = NoUri
         /\ m.uri # NoUri => /\ MergeMagnets(m, o).uri = m.uri
                             /\ MergeMagnets(m, o).xt = m.xt
<1>1. CASE m.uri = NoUri  BY <1>1 DEF MergeMagnets, Magnet
<1>2. CASE m.uri # NoUri
  <2>1. MergeMagnets(m, o) = [m EXCEPT !.trackers = @ \cup o.trackers]
    BY <1>2 DEF MergeMagnets
  <2>. QED  BY <1>2, <2>1 DEF Magnet
<1>. QED  BY <1>1, <1>2

\* What the loser of two rows of one torrent leaves to the winner.
LEMMA Merged ==
  ASSUME NEW e \in Row, NEW r \in Row, Named(e), Named(r), TorrentOf(e) = TorrentOf(r),
         TorrentOf(r) # NoHash
  PROVE  LET m == Merge(e, r)
         IN  /\ m \in Row /\ Named(m) /\ TorrentOf(m) = TorrentOf(r)
             /\ IF Beats(r, e)
                THEN Identity(m, r) /\ m.seeders = r.seeders /\ m.bonus = r.bonus
                ELSE Identity(m, e) /\ m.seeders = e.seeders /\ m.bonus = e.bonus
             /\ m.magnet.trackers = e.magnet.trackers \cup r.magnet.trackers
             /\ m.magnet.uri = NoUri <=> e.magnet.uri = NoUri /\ r.magnet.uri = NoUri
             /\ m.added = 0 <=> e.added = 0 /\ r.added = 0
<1>1. ASSUME NEW w \in Row, NEW l \in Row, Named(w), TorrentOf(w) = TorrentOf(r)
      PROVE  LET m == Completed(w, l)
             IN  /\ m \in Row /\ Named(m) /\ TorrentOf(m) = TorrentOf(r) /\ Identity(m, w)
                 /\ m.seeders = w.seeders /\ m.bonus = w.bonus
                 /\ m.magnet.trackers = w.magnet.trackers \cup l.magnet.trackers
                 /\ m.magnet.uri = NoUri <=> w.magnet.uri = NoUri /\ l.magnet.uri = NoUri
                 /\ m.added = 0 <=> w.added = 0 /\ l.added = 0
  <2>. DEFINE x == MergeMagnets(w.magnet, l.magnet)
              t == IF w.added = 0 /\ l.added > 0 THEN l.added ELSE w.added
              m == Completed(w, l)
  <2>1. /\ w.added \in Times /\ l.added \in Times /\ w.added \in Nat /\ l.added \in Nat
        /\ w.magnet \in Magnet /\ l.magnet \in Magnet
    BY RowFields DEF Row
  <2>2. /\ x \in Magnet /\ x.trackers = w.magnet.trackers \cup l.magnet.trackers
        /\ x.uri = NoUri <=> w.magnet.uri = NoUri /\ l.magnet.uri = NoUri
        /\ w.magnet.uri # NoUri => x.uri = w.magnet.uri /\ x.xt = w.magnet.xt
    BY <2>1, MagnetsMerged
  <2>3. t \in Times /\ (t = 0 <=> w.added = 0 /\ l.added = 0) /\ (w.added > 0 => t = w.added)
    BY <2>1
  <2>4. m = [w EXCEPT !.added = t, !.magnet = x]  BY DEF Completed
  <2>. HIDE DEF x, t, m
  <2>5. /\ m \in Row /\ m.site = w.site /\ m.seeders = w.seeders /\ m.bonus = w.bonus
        /\ m.infoHash = w.infoHash /\ m.added = t /\ m.magnet = x
    BY <2>2, <2>3, <2>4 DEF Row
  <2>6. w.infoHash = [hash |-> TorrentOf(r), as |-> "hex"] /\ w.infoHash # NoHash
    <3>1. TorrentOf(w) = TorrentOf(r) /\ TorrentOf(w) # NoHash /\ w.infoHash = HashOf(w)
      BY <1>1 DEF Named
    <3>2. /\ TorrentOf(w) \in Hashes \cup {NoHash}
          /\ HashOf(w) = IF TorrentOf(w) = NoHash THEN NoHash
                         ELSE [hash |-> TorrentOf(w), as |-> "hex"]
      BY HashIsTorrent
    <3>. QED  BY <3>1, <3>2, HexIsWritten
  <2>7. /\ m.infoHash # NoHash /\ m.infoHash.hash = TorrentOf(r)
        /\ NormalizeInfoHash(m.infoHash) = m.infoHash
    <3>1. ASSUME NEW h
          PROVE  NormalizeInfoHash([hash |-> h, as |-> "hex"]) = [hash |-> h, as |-> "hex"]
      BY DEF NormalizeInfoHash
    <3>. QED  BY <2>5, <2>6, <3>1
  <2>8. Named(m) /\ TorrentOf(m) = TorrentOf(r)  BY <2>7 DEF Named, HashOf, TorrentOf
  <2>9. Identity(m, w)  BY <2>2, <2>3, <2>5 DEF Identity
  <2>. QED  BY <2>2, <2>3, <2>5, <2>8, <2>9 DEF m
<1>2. CASE Beats(r, e)  BY <1>1, <1>2 DEF Merge
<1>3. CASE ~Beats(r, e)  BY <1>1, <1>3 DEF Merge
<1>. QED  BY <1>2, <1>3

\* The order of the answer, as far as Made needs it.
LEMMA OrderOfRows ==
  ASSUME NEW a \in Row, NEW b \in Row, NEW c \in Row
  PROVE  /\ ~ByScoreAndSeeders(a, a)
         /\ ByScoreAndSeeders(a, b) /\ ~ByScoreAndSeeders(c, b) => ~ByScoreAndSeeders(c, a)
BY RowFields DEF ByScoreAndSeeders, Score

LEMMA SameRank ==
  ASSUME NEW a \in Row, NEW b \in Row, NEW c \in Row, a.seeders = b.seeders, a.bonus = b.bonus
  PROVE  /\ ByScoreAndSeeders(a, c) <=> ByScoreAndSeeders(b, c)
         /\ ByScoreAndSeeders(c, a) <=> ByScoreAndSeeders(c, b)
BY RowFields DEF ByScoreAndSeeders, Score

\* A row of a torrent that is new stands for itself.
LEMMA MadeAlone ==
  ASSUME NEW h \in Row, NEW V \in SUBSET Row,
         TorrentOf(h) # NoHash => Among(V, TorrentOf(h)) = {}
  PROVE  Made([h EXCEPT !.infoHash = HashOf(h)], V \cup {h})
<1>. DEFINE n == [h EXCEPT !.infoHash = HashOf(h)]
            T == Among(V \cup {h}, TorrentOf(h))
<1>1. /\ TorrentOf(n) = TorrentOf(h) /\ n.site = h.site /\ n.seeders = h.seeders
      /\ n.bonus = h.bonus /\ n.added = h.added /\ n.magnet = h.magnet
  BY Naming
<1>2. h \in T /\ (TorrentOf(h) # NoHash => T = {h})  BY DEF Among
<1>. HIDE DEF n, T
<1>3. Identity(n, h) /\ ~ByScoreAndSeeders(h, h)  BY <1>1, OrderOfRows DEF Identity
<1>4. TorrentOf(h) # NoHash =>
        /\ UNION {q.magnet.trackers : q \in T} = h.magnet.trackers
        /\ h.magnet.uri = NoUri <=> \A q \in T : q.magnet.uri = NoUri
        /\ h.added = 0 <=> \A q \in T : q.added = 0
  BY <1>2
<1>5. Made(n, V \cup {h})
  <2>1. T = Among(V \cup {h}, TorrentOf(n))  BY <1>1 DEF T
  <2>. QED  BY <1>1, <1>2, <1>3, <1>4, <2>1 DEF Made
<1>. QED  BY <1>5 DEF n

\* A row of another torrent changes nothing for this one.
LEMMA MadeElsewhere ==
  ASSUME NEW e \in Row, NEW h \in Row, NEW V \in SUBSET Row, Made(e, V),
         TorrentOf(h) # TorrentOf(e) \/ TorrentOf(e) = NoHash
  PROVE  Made(e, V \cup {h})
<1>1. CASE TorrentOf(e) = NoHash  BY <1>1 DEF Made, Among
<1>2. CASE TorrentOf(e) # NoHash
  <2>1. Among(V \cup {h}, TorrentOf(e)) = Among(V, TorrentOf(e))  BY <1>2 DEF Among
  <2>. QED  BY <2>1 DEF Made
<1>. QED  BY <1>1, <1>2

\* A further row of the torrent.
LEMMA MadeMerged ==
  ASSUME NEW e \in Row, NEW h \in Row, NEW V \in SUBSET Row, Made(e, V), Named(e),
         TorrentOf(h) = TorrentOf(e), TorrentOf(h) # NoHash
  PROVE  Made(Merge(e, [h EXCEPT !.infoHash = HashOf(h)]), V \cup {h})
<1>. DEFINE r == [h EXCEPT !.infoHash = HashOf(h)]
            m == Merge(e, r)
            T == Among(V, TorrentOf(h))
            U == Among(V \cup {h}, TorrentOf(h))
<1>1. /\ r \in Row /\ Named(r) /\ TorrentOf(r) = TorrentOf(h) /\ r.site = h.site
      /\ r.seeders = h.seeders /\ r.bonus = h.bonus /\ r.added = h.added /\ r.magnet = h.magnet
  BY Naming
<1>. HIDE DEF r
<1>2. /\ m \in Row /\ TorrentOf(m) = TorrentOf(h)
      /\ IF Beats(r, e) THEN Identity(m, r) ELSE Identity(m, e)
      /\ m.magnet.trackers = e.magnet.trackers \cup h.magnet.trackers
      /\ m.magnet.uri = NoUri <=> e.magnet.uri = NoUri /\ h.magnet.uri = NoUri
      /\ m.added = 0 <=> e.added = 0 /\ h.added = 0
  BY <1>1, Merged
<1>3. U = T \cup {h} /\ T \subseteq Row /\ U \subseteq Row  BY DEF Among
<1>4. PICK q \in T : Identity(e, q) /\ \A o \in T : ~ByScoreAndSeeders(o, q)
  BY DEF Made
<1>5. /\ e.magnet.trackers = UNION {o.magnet.trackers : o \in T}
      /\ e.magnet.uri = NoUri <=> \A o \in T : o.magnet.uri = NoUri
      /\ e.added = 0 <=> \A o \in T : o.added = 0
  BY DEF Made
<1>. HIDE DEF m, T, U
<1>6. m.magnet.trackers = UNION {o.magnet.trackers : o \in U}  BY <1>2, <1>3, <1>5
<1>7. /\ m.magnet.uri = NoUri <=> \A o \in U : o.magnet.uri = NoUri
      /\ m.added = 0 <=> \A o \in U : o.added = 0
  BY <1>2, <1>3, <1>5
<1>8. q \in Row /\ q.seeders = e.seeders /\ q.bonus = e.bonus  BY <1>3, <1>4 DEF Identity
<1>9. \E b \in U : Identity(m, b) /\ \A o \in U : ~ByScoreAndSeeders(o, b)
  <2>1. CASE Beats(r, e)
    <3>1. Identity(m, h)  BY <1>1, <1>2, <2>1 DEF Identity
    <3>2. ByScoreAndSeeders(h, q)
      BY <1>1, <1>8, <2>1, SameRank DEF Beats
    <3>3. \A o \in T : ~ByScoreAndSeeders(o, h)  BY <1>3, <1>4, <1>8, <3>2, OrderOfRows
    <3>4. ~ByScoreAndSeeders(h, h)  BY OrderOfRows
    <3>. QED  BY <1>3, <3>1, <3>3, <3>4
  <2>2. CASE ~Beats(r, e)
    <3>1. ~ByScoreAndSeeders(h, q)
      BY <1>1, <1>8, <2>2, SameRank DEF Beats
    <3>2. Identity(m, e)  BY <1>2, <2>2
    <3>3. q.added \in Nat /\ e.added \in Nat  BY <1>8, RowFields
    <3>4. Identity(m, q)  BY <1>4, <3>2, <3>3 DEF Identity
    <3>. QED  BY <1>3, <1>4, <3>1, <3>4
  <2>. QED  BY <2>1, <2>2
<1>10. Made(m, V \cup {h})
  <2>1. U = Among(V \cup {h}, TorrentOf(m))  BY <1>2 DEF U
  <2>. QED  BY <1>2, <1>6, <1>7, <1>9, <2>1 DEF Made
<1>. QED  BY <1>10 DEF m, r

-----------------------------------------------------------------------------
(* Merging a list of rows.                                                  *)

\* The list m is what becomes of the rows of V.
Fold(m, V) ==
  /\ \A i, j \in 1 .. Len(m) :
       TorrentOf(m[i]) = TorrentOf(m[j]) /\ TorrentOf(m[i]) # NoHash => i = j
  /\ {TorrentOf(r) : r \in ToSet(m)} = {TorrentOf(r) : r \in V}
  /\ \A r \in V : TorrentOf(r) = NoHash => r \in ToSet(m)
  /\ \A r \in ToSet(m) : Made(r, V)

LEMMA FoldNothing == Fold(<< >>, {})
BY DEF Fold, ToSet

\* A list of at most one row is as it should be already.
LEMMA FoldOne ==
  ASSUME NEW m \in Seq(Row), Len(m) <= 1
  PROVE  Fold(m, ToSet(m))
<1>1. Len(m) \in Nat /\ DOMAIN m = 1 .. Len(m)  OBVIOUS
<1>2. \A i, j \in 1 .. Len(m) : i = j  BY <1>1
<1>3. \A r, q \in ToSet(m) : r = q  BY <1>1, <1>2 DEF ToSet
<1>4. ASSUME NEW r \in ToSet(m) PROVE Made(r, ToSet(m))
  <2>1. r \in Row  BY <1>1, <1>4 DEF ToSet
  <2>2. Among(ToSet(m), TorrentOf(r)) = {r}  BY <1>3, <1>4 DEF Among
  <2>3. Identity(r, r) /\ ~ByScoreAndSeeders(r, r)  BY <2>1, OrderOfRows DEF Identity
  <2>4. UNION {q.magnet.trackers : q \in {r}} = r.magnet.trackers  OBVIOUS
  <2>. QED  BY <2>2, <2>3, <2>4 DEF Made
<1>. QED  BY <1>2, <1>4 DEF Fold

\* A row of a torrent that is not in the list, or of none, is appended.
LEMMA FoldAppended ==
  ASSUME NEW m \in Seq(Row), NEW V \in SUBSET Row, Fold(m, V), NEW h \in Row,
         \A i \in 1 .. Len(m) : TorrentOf(m[i]) # TorrentOf(h) \/ TorrentOf(h) = NoHash
  PROVE  Fold(Append(m, [h EXCEPT !.infoHash = HashOf(h)]), V \cup {h})
<1>. DEFINE n == [h EXCEPT !.infoHash = HashOf(h)]
            t == Append(m, n)
            k == Len(m) + 1
<1>1. /\ n \in Row /\ TorrentOf(n) = TorrentOf(h) /\ (TorrentOf(h) = NoHash => n = h)
  BY Naming
<1>2. TorrentOf(h) # NoHash => Among(V, TorrentOf(h)) = {}
  <2>1. \A r \in ToSet(m) : TorrentOf(r) # TorrentOf(h) \/ TorrentOf(h) = NoHash  BY DEF ToSet
  <2>. QED  BY <2>1 DEF Fold, Among
<1>3. Made(n, V \cup {h})  BY <1>2, MadeAlone
<1>. HIDE DEF n
<1>4. /\ Len(m) \in Nat /\ Len(t) = k /\ t[k] = n /\ \A i \in 1 .. Len(m) : t[i] = m[i]
      /\ \A i \in 1 .. k : i \in 1 .. Len(m) \/ i = k
  BY <1>1
<1>5. ToSet(t) = ToSet(m) \cup {n}  BY <1>1, Appended
<1>. HIDE DEF t
<1>6. ASSUME NEW r \in ToSet(m) PROVE Made(r, V \cup {h})
  <2>1. PICK i \in 1 .. Len(m) : r = m[i]  BY DEF ToSet
  <2>2. r \in Row /\ Made(r, V)  BY <2>1 DEF Fold
  <2>3. TorrentOf(h) # TorrentOf(r) \/ TorrentOf(r) = NoHash  BY <2>1
  <2>. QED  BY <2>2, <2>3, MadeElsewhere
<1>7. ASSUME NEW i \in 1 .. k, NEW j \in 1 .. k, TorrentOf(t[i]) = TorrentOf(t[j]),
             TorrentOf(t[i]) # NoHash
      PROVE  i = j
  <2>1. CASE i \in 1 .. Len(m) /\ j \in 1 .. Len(m)  BY <1>4, <1>7, <2>1 DEF Fold
  <2>2. CASE i = k /\ j \in 1 .. Len(m)  BY <1>1, <1>4, <1>7, <2>2
  <2>3. CASE j = k /\ i \in 1 .. Len(m)  BY <1>1, <1>4, <1>7, <2>3
  <2>. QED  BY <1>4, <2>1, <2>2, <2>3
<1>8. {TorrentOf(r) : r \in ToSet(t)} = {TorrentOf(r) : r \in V \cup {h}}
  <2>1. {TorrentOf(r) : r \in ToSet(m)} = {TorrentOf(r) : r \in V}  BY DEF Fold
  <2>2. {TorrentOf(r) : r \in ToSet(t)} = {TorrentOf(r) : r \in ToSet(m)} \cup {TorrentOf(h)}
    BY <1>1, <1>5
  <2>. QED  BY <2>1, <2>2
<1>9. \A r \in V \cup {h} : TorrentOf(r) = NoHash => r \in ToSet(t)  BY <1>1, <1>5 DEF Fold
<1>10. \A r \in ToSet(t) : Made(r, V \cup {h})  BY <1>3, <1>5, <1>6
<1>11. Fold(t, V \cup {h})  BY <1>4, <1>7, <1>8, <1>9, <1>10 DEF Fold
<1>. QED  BY <1>11 DEF t, n

\* A further row of a torrent in the list is merged into its row.
LEMMA FoldMerged ==
  ASSUME NEW m \in Seq(Row), NEW V \in SUBSET Row, Fold(m, V), NEW h \in Row,
         NEW k \in 1 .. Len(m), Named(m[k]), TorrentOf(m[k]) = TorrentOf(h),
         TorrentOf(h) # NoHash
  PROVE  LET n == [h EXCEPT !.infoHash = HashOf(h)]
             t == [i \in 1 .. Len(m) |-> IF i = k THEN Merge(m[i], n) ELSE m[i]]
         IN  t \in Seq(Row) /\ Fold(t, V \cup {h}) /\ Named(t[k])
<1>. DEFINE n == [h EXCEPT !.infoHash = HashOf(h)]
            t == [i \in 1 .. Len(m) |-> IF i = k THEN Merge(m[i], n) ELSE m[i]]
            x == Merge(m[k], n)
<1>0. Len(m) \in Nat /\ DOMAIN m = 1 .. Len(m) /\ \A i \in 1 .. Len(m) : m[i] \in Row  OBVIOUS
<1>1. m[k] \in Row /\ Made(m[k], V)
  <2>1. m[k] \in ToSet(m)  BY <1>0 DEF ToSet
  <2>. QED  BY <1>0, <2>1 DEF Fold
<1>2. n \in Row /\ Named(n) /\ TorrentOf(n) = TorrentOf(h)  BY Naming
<1>3. Made(x, V \cup {h})  BY <1>1, MadeMerged
<1>. HIDE DEF n
<1>4. x \in Row /\ Named(x) /\ TorrentOf(x) = TorrentOf(h)  BY <1>1, <1>2, Merged
<1>. HIDE DEF x
<1>5. /\ DOMAIN t = 1 .. Len(m) /\ t[k] = x
      /\ \A i \in 1 .. Len(m) : t[i] = IF i = k THEN x ELSE m[i]
  BY DEF x
<1>6. t \in Seq(Row) /\ Len(t) = Len(m)
  <2>1. t \in [1 .. Len(m) -> Row]  BY <1>0, <1>4 DEF x
  <2>. HIDE DEF t
  <2>. QED  BY <1>0, <2>1, TypeOfSeq
<1>. HIDE DEF t
<1>7. \A i \in 1 .. Len(m) : TorrentOf(t[i]) = TorrentOf(m[i])  BY <1>4, <1>5
<1>8. ASSUME NEW i \in 1 .. Len(m), i # k PROVE Made(m[i], V \cup {h})
  <2>1. m[i] \in ToSet(m)  BY <1>0 DEF ToSet
  <2>2. m[i] \in Row /\ Made(m[i], V)  BY <1>0, <2>1 DEF Fold
  <2>3. TorrentOf(m[i]) # TorrentOf(h)  BY <1>8 DEF Fold
  <2>. QED  BY <2>2, <2>3, MadeElsewhere
<1>9. ToSet(t) = {t[i] : i \in 1 .. Len(m)} /\ ToSet(m) = {m[i] : i \in 1 .. Len(m)}
  BY <1>0, <1>5 DEF ToSet
<1>10. {TorrentOf(r) : r \in ToSet(t)} = {TorrentOf(r) : r \in V \cup {h}}
  <2>1. {TorrentOf(r) : r \in ToSet(m)} = {TorrentOf(r) : r \in V}  BY DEF Fold
  <2>2. {TorrentOf(r) : r \in ToSet(t)} = {TorrentOf(r) : r \in ToSet(m)}  BY <1>7, <1>9
  <2>3. TorrentOf(h) \in {TorrentOf(r) : r \in ToSet(m)}  BY <1>9
  <2>. QED  BY <2>1, <2>2, <2>3
<1>11. \A r \in V \cup {h} : TorrentOf(r) = NoHash => r \in ToSet(t)
  <2>1. ASSUME NEW r \in V, TorrentOf(r) = NoHash PROVE r \in ToSet(t)
    <3>1. r \in ToSet(m)  BY <2>1 DEF Fold
    <3>2. PICK i \in 1 .. Len(m) : r = m[i]  BY <1>9, <3>1
    <3>3. t[i] = r  BY <1>5, <2>1, <3>2
    <3>. QED  BY <1>9, <3>3
  <2>. QED  BY <2>1
<1>12. \A r \in ToSet(t) : Made(r, V \cup {h})  BY <1>3, <1>5, <1>8, <1>9
<1>13. \A i, j \in 1 .. Len(t) :
         TorrentOf(t[i]) = TorrentOf(t[j]) /\ TorrentOf(t[i]) # NoHash => i = j
  BY <1>6, <1>7 DEF Fold
<1>14. Fold(t, V \cup {h})  BY <1>10, <1>11, <1>12, <1>13 DEF Fold
<1>. QED  BY <1>4, <1>5, <1>6, <1>14 DEF t, n

\* Sorting changes the order and nothing else.
LEMMA Arranged ==
  ASSUME NEW m \in Seq(Row), NEW t \in Arrangements(m)
  PROVE  /\ t \in Seq(Row) /\ Len(t) = Len(m) /\ ToSet(t) = ToSet(m)
         /\ \A V : Fold(m, V) => Fold(t, V)
<1>1. PICK p \in Bijection(1 .. Len(m), 1 .. Len(m)) : t = [i \in 1 .. Len(m) |-> m[p[i]]]
  BY DEF Arrangements
<1>2. /\ p \in [1 .. Len(m) -> 1 .. Len(m)]
      /\ \A i, j \in 1 .. Len(m) : p[i] = p[j] => i = j
      /\ \A j \in 1 .. Len(m) : \E i \in 1 .. Len(m) : p[i] = j
  BY Fun_BijectionProperties, Fun_IsBij DEF Bijection, Injection, Surjection, IsInjective
<1>3. Len(m) \in Nat /\ DOMAIN m = 1 .. Len(m) /\ \A i \in 1 .. Len(m) : m[i] \in Row  OBVIOUS
<1>4. t \in Seq(Row) /\ Len(t) = Len(m) /\ DOMAIN t = 1 .. Len(m)
  <2>1. t \in [1 .. Len(m) -> Row]  BY <1>1, <1>2, <1>3
  <2>. QED  BY <1>3, <2>1, TypeOfSeq
<1>5. \A i \in 1 .. Len(m) : t[i] = m[p[i]]  BY <1>1
<1>6. ToSet(t) = ToSet(m)
  <2>1. ToSet(t) = {t[i] : i \in 1 .. Len(m)} /\ ToSet(m) = {m[i] : i \in 1 .. Len(m)}
    BY <1>3, <1>4 DEF ToSet
  <2>2. ASSUME NEW r \in ToSet(m) PROVE r \in ToSet(t)
    <3>1. PICK j \in 1 .. Len(m) : r = m[j]  BY <2>1
    <3>2. PICK i \in 1 .. Len(m) : p[i] = j  BY <1>2
    <3>3. t[i] = r  BY <1>5, <3>1, <3>2
    <3>. QED  BY <2>1, <3>3
  <2>3. ASSUME NEW r \in ToSet(t) PROVE r \in ToSet(m)
    <3>1. PICK i \in 1 .. Len(m) : r = t[i]  BY <2>1
    <3>2. p[i] \in 1 .. Len(m) /\ r = m[p[i]]  BY <1>2, <1>5, <3>1
    <3>. QED  BY <2>1, <3>2
  <2>. QED  BY <2>2, <2>3
<1>7. ASSUME NEW V, Fold(m, V) PROVE Fold(t, V)
  <2>1. \A i, j \in 1 .. Len(t) :
          TorrentOf(t[i]) = TorrentOf(t[j]) /\ TorrentOf(t[i]) # NoHash => i = j
    <3>1. ASSUME NEW i \in 1 .. Len(m), NEW j \in 1 .. Len(m),
                 TorrentOf(t[i]) = TorrentOf(t[j]), TorrentOf(t[i]) # NoHash
          PROVE  i = j
      <4>1. p[i] \in 1 .. Len(m) /\ p[j] \in 1 .. Len(m)  BY <1>2
      <4>2. p[i] = p[j]  BY <1>5, <1>7, <3>1, <4>1 DEF Fold
      <4>. QED  BY <1>2, <4>2
    <3>. QED  BY <1>4, <3>1
  <2>. QED  BY <1>6, <1>7, <2>1 DEF Fold
<1>. QED  BY <1>4, <1>6, <1>7

-----------------------------------------------------------------------------
(* The ranking of an answer.                                                *)

Descending(m) == \A i, j \in 1 .. Len(m) : i < j => ~ByScoreAndSeeders(m[j], m[i])

RankTyped ==
  /\ input \in Seq(Row) /\ list \in Seq(Row) /\ merged \in Seq(Row)
  /\ stage \in {"filter", "sort", "merge", "done"}

\* How far the rows have come: while they are merged, the list is what becomes of those that
\* the loop has visited.
RankCourse ==
  /\ stage # "filter" => at = "answered"
  /\ stage \in {"filter", "sort"} => merged = << >>
  /\ stage = "sort" => ToSet(list) = Kept
  /\ stage = "merge" =>
       /\ \E V \in SUBSET Row : V \cup ToSet(list) = Kept /\ Fold(merged, V)
       /\ \A i \in 1 .. Len(merged) : Named(merged[i])
  /\ stage = "done" => Fold(merged, Kept) /\ Descending(merged)

RankIInv == SearchIInv /\ RankTyped /\ RankCourse

LEMMA InitRank == RankInit => RankIInv
<1>. SUFFICES ASSUME RankInit PROVE RankIInv  OBVIOUS
<1>1. SearchIInv  BY InitSearch DEF RankInit
<1>2. RankTyped /\ RankCourse  BY NothingYet DEF RankInit, RankTyped, RankCourse
<1>. QED  BY <1>1, <1>2 DEF RankIInv

\* While answers are still collected nothing is ranked.
LEMMA CollectRowsStep == ASSUME RankIInv, CollectRows PROVE RankIInv'
<1>. USE DEF RankIInv
<1>1. SearchIInv'  BY CollectStep DEF CollectRows
<1>2. stage = "filter" /\ Head(chan) \in Sources
  <2>1. chan \in Seq(Sources) /\ chan # << >> /\ at = "collecting"
    BY DEF CollectRows, Collect, SearchIInv, TypeOK
  <2>2. stage = "filter"  BY <2>1 DEF RankCourse
  <2>. QED  BY <2>1, <2>2, Consumed
<1>3. PICK a \in Answers[Head(chan)] : input' = input \o a  BY DEF CollectRows
<1>4. a \in Seq(Row)  BY <1>2, AnswerAssumption
<1>5. input' \in Seq(Row)  BY <1>3, <1>4 DEF RankTyped
<1>6. RankTyped' /\ RankCourse'
  BY <1>2, <1>5 DEF CollectRows, RankTyped, RankCourse
<1>. QED  BY <1>1, <1>6

\* The goroutines do not touch what is ranked, and an answered search has none.
LEMMA GoOnStep == ASSUME RankIInv, GoOn \/ UNCHANGED vars, UNCHANGED rankVars PROVE RankIInv'
<1>. USE DEF RankIInv
<1>1. SearchIInv'  BY SearchStep DEF Next
<1>2. at = "answered" => at' = "answered"
  BY DEF GoOn, vars, StartCloser, Return, Close, SkipSource, Ask, Returns, Send, Done
<1>3. Kept' = Kept  BY DEF Kept, rankVars
<1>4. RankTyped' /\ RankCourse'  BY <1>2, <1>3 DEF RankTyped, RankCourse, rankVars
<1>. QED  BY <1>1, <1>4

LEMMA FilterStep == ASSUME RankIInv, Filter, UNCHANGED vars PROVE RankTyped' /\ RankCourse'
<1>1. input \in Seq(Row) /\ merged = << >> /\ at = "answered"
  BY DEF RankIInv, RankTyped, RankCourse, Filter
<1>2. Kept \subseteq ToSet(input) /\ Kept' = Kept  BY DEF Kept, Filter
<1>3. /\ Selected(input, Kept) \in Seq(Row \cap Kept)
      /\ ToSet(Selected(input, Kept)) = ToSet(input) \cap Kept
  BY <1>1, SelectedElements
<1>4. list' \in Seq(Row) /\ ToSet(list') = Kept'
  <2>1. Selected(input, Kept) \in Seq(Row)  BY <1>1, SelectedPicks
  <2>. QED  BY <1>2, <1>3, <2>1 DEF Filter
<1>5. stage' = "sort" /\ merged' = << >> /\ input' = input /\ at' = "answered"
  BY <1>1 DEF Filter, vars
<1>. QED  BY <1>1, <1>4, <1>5 DEF RankTyped, RankCourse

LEMMA SortScoredStep ==
  ASSUME RankIInv, SortScored, UNCHANGED vars PROVE RankTyped' /\ RankCourse'
<1>1. /\ input \in Seq(Row) /\ list \in Seq(Row) /\ merged = << >> /\ at = "answered"
      /\ ToSet(list) = Kept /\ input' = input /\ at' = at
  BY DEF RankIInv, RankTyped, RankCourse, SortScored, vars
<1>2. Kept' = Kept  BY <1>1 DEF Kept
<1>3. CASE Len(list) <= 1
  <2>1. list' = << >> /\ merged' = list /\ stage' = "done"  BY <1>3 DEF SortScored
  <2>2. Fold(merged', Kept')  BY <1>1, <1>2, <1>3, <2>1, FoldOne
  <2>3. Descending(merged')
    <3>1. \A i, j \in 1 .. Len(list) : ~(i < j)  BY <1>1, <1>3
    <3>. QED  BY <2>1, <3>1 DEF Descending
  <2>. QED  BY <1>1, <2>1, <2>2, <2>3 DEF RankTyped, RankCourse
<1>4. CASE ~(Len(list) <= 1)
  <2>1. list' \in Arrangements(list) /\ stage' = "merge" /\ merged' = << >>
    BY <1>1, <1>4 DEF SortScored, SortedBy
  <2>2. list' \in Seq(Row) /\ ToSet(list') = Kept'  BY <1>1, <1>2, <2>1, Arranged
  <2>3. {} \cup ToSet(list') = Kept' /\ Fold(merged', {})  BY <2>1, <2>2, FoldNothing
  <2>4. \A i \in 1 .. Len(merged') : Named(merged'[i])  BY <2>1
  <2>. QED  BY <1>1, <2>1, <2>2, <2>3, <2>4 DEF RankTyped, RankCourse
<1>. QED  BY <1>3, <1>4

LEMMA MergeRowStep ==
  ASSUME RankIInv, MergeRow, UNCHANGED vars PROVE RankTyped' /\ RankCourse'
<1>. DEFINE h == Head(list)
            n == [h EXCEPT !.infoHash = HashOf(h)]
<1>1. /\ input \in Seq(Row) /\ list \in Seq(Row) /\ merged \in Seq(Row) /\ at = "answered"
      /\ stage = "merge" /\ list # << >> /\ stage' = "merge" /\ list' = Tail(list)
      /\ input' = input /\ at' = at
      /\ \A i \in 1 .. Len(merged) : Named(merged[i])
  BY DEF RankIInv, RankTyped, RankCourse, MergeRow, vars
<1>2. PICK V \in SUBSET Row : V \cup ToSet(list) = Kept /\ Fold(merged, V)
  BY <1>1 DEF RankIInv, RankCourse
<1>3. Kept' = Kept  BY <1>1 DEF Kept
<1>4. h \in Row /\ list' \in Seq(Row) /\ (V \cup {h}) \cup ToSet(list') = Kept'
  <2>1. h \in Row /\ list' \in Seq(Row) /\ ToSet(list) = ToSet(list') \cup {h}
    BY <1>1, Consumed
  <2>. QED  BY <1>2, <1>3, <2>1
<1>5. /\ n \in Row /\ Named(n) /\ TorrentOf(n) = TorrentOf(h) /\ HashOf(n) = HashOf(h)
  BY <1>4, Naming
<1>6. merged' = IF SameTorrent(n) = {} THEN Append(merged, n)
                ELSE [i \in 1 .. Len(merged) |->
                        IF i \in SameTorrent(n) THEN Merge(merged[i], n) ELSE merged[i]]
  BY DEF MergeRow
<1>7. \A i \in 1 .. Len(merged) : merged[i] \in Row  BY <1>1
<1>8. SameTorrent(n) =
        {i \in 1 .. Len(merged) : TorrentOf(h) # NoHash /\ TorrentOf(merged[i]) = TorrentOf(h)}
  <2>1. ASSUME NEW i \in 1 .. Len(merged)
        PROVE  HashOf(n) # NoHash /\ merged[i].infoHash = HashOf(n)
                 <=> TorrentOf(h) # NoHash /\ TorrentOf(merged[i]) = TorrentOf(h)
    <3>1. merged[i].infoHash = HashOf(merged[i])  BY <1>1 DEF Named
    <3>2. ASSUME NEW r \in Row
          PROVE  /\ HashOf(r) = NoHash <=> TorrentOf(r) = NoHash
                 /\ TorrentOf(r) # NoHash => HashOf(r).hash = TorrentOf(r)
                 /\ \A q \in Row : TorrentOf(r) = TorrentOf(q) => HashOf(r) = HashOf(q)
      BY HashIsTorrent, HexIsWritten
    <3>. QED  BY <1>4, <1>5, <1>7, <3>1, <3>2
  <2>. QED  BY <2>1 DEF SameTorrent
<1>9. CASE SameTorrent(n) = {}
  <2>1. merged' = Append(merged, n)  BY <1>6, <1>9
  <2>2. Fold(merged', V \cup {h})  BY <1>1, <1>2, <1>4, <1>8, <1>9, <2>1, FoldAppended
  <2>3. merged' \in Seq(Row)  BY <1>1, <1>5, <2>1
  <2>4. \A i \in 1 .. Len(merged') : Named(merged'[i])
    <3>. HIDE DEF n
    <3>. QED  BY <1>1, <1>5, <2>1
  <2>5. V \cup {h} \in SUBSET Row  BY <1>4
  <2>. QED  BY <1>1, <1>4, <2>2, <2>3, <2>4, <2>5 DEF RankTyped, RankCourse
<1>10. CASE SameTorrent(n) # {}
  <2>1. PICK k \in 1 .. Len(merged) :
          k \in SameTorrent(n) /\ TorrentOf(h) # NoHash /\ TorrentOf(merged[k]) = TorrentOf(h)
    BY <1>8, <1>10
  <2>2. \A i \in 1 .. Len(merged) : i \in SameTorrent(n) <=> i = k
    BY <1>2, <1>8, <2>1 DEF Fold
  <2>3. merged' = [i \in 1 .. Len(merged) |-> IF i = k THEN Merge(merged[i], n) ELSE merged[i]]
    BY <1>6, <1>10, <2>2
  <2>4. merged' \in Seq(Row) /\ Fold(merged', V \cup {h}) /\ Named(merged'[k])
    BY <1>1, <1>2, <1>4, <2>1, <2>3, FoldMerged
  <2>5. \A i \in 1 .. Len(merged') : Named(merged'[i])
    <3>. HIDE DEF n
    <3>1. DOMAIN merged' = 1 .. Len(merged)  BY <2>3
    <3>2. 1 .. Len(merged') = 1 .. Len(merged)  BY <2>4, <3>1
    <3>3. \A i \in 1 .. Len(merged) : i # k => merged'[i] = merged[i]  BY <2>3
    <3>. QED  BY <1>1, <2>4, <3>2, <3>3
  <2>6. V \cup {h} \in SUBSET Row  BY <1>4
  <2>. QED  BY <1>1, <1>4, <2>4, <2>5, <2>6 DEF RankTyped, RankCourse
<1>. QED  BY <1>9, <1>10

LEMMA SortMergedStep ==
  ASSUME RankIInv, SortMerged, UNCHANGED vars PROVE RankTyped' /\ RankCourse'
<1>1. /\ input \in Seq(Row) /\ list = << >> /\ merged \in Seq(Row) /\ at = "answered"
      /\ stage = "merge" /\ stage' = "done" /\ input' = input /\ at' = at /\ list' = list
      /\ merged' \in SortedBy(merged, ByScoreAndSeeders)
  BY DEF RankIInv, RankTyped, RankCourse, SortMerged, vars
<1>2. Fold(merged, Kept)
  <2>1. PICK V \in SUBSET Row : V \cup ToSet(list) = Kept /\ Fold(merged, V)
    BY <1>1 DEF RankIInv, RankCourse
  <2>2. V = Kept  BY <1>1, <2>1, NothingYet
  <2>. QED  BY <2>1, <2>2
<1>3. Kept' = Kept  BY <1>1 DEF Kept
<1>4. /\ merged' \in Arrangements(merged)
      /\ \A i, j \in 1 .. Len(merged) : i < j => ~ByScoreAndSeeders(merged'[j], merged'[i])
  BY <1>1 DEF SortedBy
<1>5. merged' \in Seq(Row) /\ Len(merged') = Len(merged) /\ Fold(merged', Kept')
  BY <1>1, <1>2, <1>3, <1>4, Arranged
<1>6. Descending(merged')  BY <1>4, <1>5 DEF Descending
<1>7. list' \in Seq(Row)  BY <1>1
<1>. QED  BY <1>1, <1>5, <1>6, <1>7 DEF RankTyped, RankCourse

LEMMA RankStep == RankIInv /\ [RankNext]_allVars => RankIInv'
<1>. SUFFICES ASSUME RankIInv, [RankNext]_allVars PROVE RankIInv'  OBVIOUS
<1>1. CASE CollectRows  BY <1>1, CollectRowsStep
<1>2. CASE (GoOn \/ UNCHANGED vars) /\ UNCHANGED rankVars  BY <1>2, GoOnStep
<1>3. CASE Rank /\ UNCHANGED vars
  <2>1. SearchIInv'  BY <1>3, SearchStep DEF RankIInv
  <2>2. RankTyped' /\ RankCourse'
    BY <1>3, FilterStep, SortScoredStep, MergeRowStep, SortMergedStep DEF Rank
  <2>. QED  BY <2>1, <2>2 DEF RankIInv
<1>4. CASE UNCHANGED allVars  BY <1>2, <1>4 DEF allVars
<1>. QED  BY <1>1, <1>2, <1>3, <1>4 DEF RankNext

LEMMA RankInvariant == RankSpec => []RankIInv
BY InitRank, RankStep, PTL DEF RankSpec

\* SearchInv for any sources, requests and answers.
THEOREM SearchCorrect == RankSpec => []SearchInv
<1>1. RankIInv => SearchInv
  BY SearchIInvSuffices DEF RankIInv, SearchIInv, RankTyped, SearchInv, RankTypeOK
<1>. QED  BY <1>1, RankInvariant, PTL

\* However long the answers of the sources are and however they write their hashes, each
\* torrent has one row, and none is lost.
THEOREM TorrentsOnce == RankSpec => []OneRowPerTorrent
<1>1. ASSUME RankIInv PROVE OneRowPerTorrent
  <2>1. CASE stage = "merge"
    <3>1. PICK V \in SUBSET Row : Fold(merged, V)  BY <1>1, <2>1 DEF RankIInv, RankCourse
    <3>. QED  BY <2>1, <3>1 DEF OneRowPerTorrent, Fold
  <2>2. CASE stage = "done"
    <3>1. Fold(merged, Kept)  BY <1>1, <2>2 DEF RankIInv, RankCourse
    <3>. QED  BY <2>2, <3>1 DEF OneRowPerTorrent, Fold, Of
  <2>3. CASE stage \notin {"merge", "done"}  BY <2>3 DEF OneRowPerTorrent
  <2>. QED  BY <2>1, <2>2, <2>3
<1>. QED  BY <1>1, RankInvariant, PTL

\* The row of a torrent is one of the best of its rows, in whichever order the two sorts
\* leave ties; it has all their trackers, and a magnet and a time if any of them has; and
\* the answer is sorted.
THEOREM AnswersWhole == RankSpec => []AnswerIsWhole
<1>1. ASSUME RankIInv PROVE AnswerIsWhole
  <2>1. ASSUME stage = "done" PROVE Descending(merged) /\ \A r \in ToSet(merged) : Made(r, Kept)
    BY <1>1, <2>1 DEF RankIInv, RankCourse, Fold
  <2>2. \A h : Among(Kept, h) = Of(h)  BY DEF Among, Of
  <2>3. BestRowWins  BY <2>1, <2>2 DEF BestRowWins, Made
  <2>4. TrackersMerged /\ TimeKept  BY <2>1, <2>2 DEF TrackersMerged, TimeKept, Made
  <2>5. Ranked  BY <2>1 DEF Ranked, Descending
  <2>. QED  BY <2>3, <2>4, <2>5 DEF AnswerIsWhole
<1>. QED  BY <1>1, RankInvariant, PTL
=============================================================================
