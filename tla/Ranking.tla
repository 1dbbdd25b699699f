-------------------------------- MODULE Ranking --------------------------------
(***************************************************************************)
(* ScoreAndFilter and DedupeAndMerge (src/pkg/search/manager.go) with the  *)
(* merging of magnets (magnet.go), composed with SearchManager: the rows   *)
(* of all answers, in the order they were collected in, are filtered,      *)
(* scored, sorted, folded into one row per torrent and sorted again.       *)
(*                                                                         *)
(* The two sorts are sort.Slice, which is not stable: rows that compare    *)
(* equal come out in any order.                                            *)
(***************************************************************************)
EXTENDS SearchManager, Selection

CONSTANTS
  Hashes,      \* info hashes
  NoHash,      \* a field without one
  Times,       \* values of Added; 0 is unknown
  Seeds, Bonuses, \* values of Seeders, and of what matched terms add to the score
  Trackers,    \* announce trackers
  NoUri,       \* an empty magnet
  MinSeeders,  \* the min_seeders filter, 0 if it is not set
  Answers      \* per source, the lists of rows it may answer with

\* A hash as sources write it: hexadecimal in either case, or Base32.
Written == [hash : Hashes, as : {"hex", "HEX", "base32"}]
ASSUME RankingAssumption ==
  /\ NoHash \notin Hashes \cup Written /\ NoUri \notin Sources
  /\ Times \subseteq Nat /\ Seeds \subseteq Nat /\ Bonuses \subseteq Nat
  /\ MinSeeders \in Nat

\* A magnet is its text, known by the source it comes from, the hash and the trackers in it.
Magnet ==
  {m \in [uri : Sources \cup {NoUri}, xt : Written \cup {NoHash}, trackers : SUBSET Trackers] :
     m.uri = NoUri => m.xt = NoHash /\ m.trackers = {}}
Row == [site : Sources, infoHash : Written \cup {NoHash}, seeders : Seeds, bonus : Bonuses,
        added : Times, magnet : Magnet]

ASSUME AnswerAssumption == \A s \in Sources : \A a \in Answers[s] : a \in Seq(Row)

VARIABLES
  input,  \* the rows as the sources returned them
  stage,  \* filter, sort, merge, done
  list,   \* rows the current loop has still to visit
  merged  \* the rows so far

rankVars == <<input, stage, list, merged>>
allVars == <<vars, rankVars>>

\* Mutant: a Base32 hash is only put into lower case.
NormalizeNoBase32(w) == IF w.as = "base32" THEN w ELSE [w EXCEPT !.as = "hex"]
NormalizeInfoHash(w) == [w EXCEPT !.as = "hex"]
\* The hash that tells torrents apart, from the row's field or else from its magnet.
HashOf(r) ==
  IF r.infoHash # NoHash THEN NormalizeInfoHash(r.infoHash)
  ELSE IF r.magnet.xt # NoHash THEN NormalizeInfoHash(r.magnet.xt)
  ELSE NoHash

Score(r) == r.seeders + r.bonus

\* The orders that the two calls of sort.Slice ask for.
ByScore(r, q) == Score(r) > Score(q)
ByScoreAndSeeders(r, q) ==
  Score(r) > Score(q) \/ (Score(r) = Score(q) /\ r.seeders > q.seeders)

Arrangements(s) ==
  {[i \in 1 .. Len(s) |-> s[p[i]]] : p \in Bijection(1 .. Len(s), 1 .. Len(s))}
SortedBy(s, Before(_, _)) ==
  {t \in Arrangements(s) : \A i, j \in 1 .. Len(s) : i < j => ~Before(t[j], t[i])}

-----------------------------------------------------------------------------
\* MergeMagnetTrackers: the first magnet keeps its text and gains the other's trackers.
MergeMagnetsDropping(m, o) == IF m.uri = NoUri THEN o ELSE m  \* mutant
MergeMagnets(m, o) ==
  IF m.uri = NoUri THEN o ELSE [m EXCEPT !.trackers = @ \cup o.trackers]

Beats(r, q) == ByScoreAndSeeders(r, q)

\* Two rows of one torrent.
Completed(win, lose) ==
  [win EXCEPT !.added = IF win.added = 0 /\ lose.added > 0 THEN lose.added ELSE win.added,
              !.magnet = MergeMagnets(win.magnet, lose.magnet)]
Merge(existing, r) ==
  IF Beats(r, existing) THEN Completed(r, existing) ELSE Completed(existing, r)

-----------------------------------------------------------------------------
RankInit ==
  /\ Init
  /\ input = << >> /\ stage = "filter" /\ list = << >> /\ merged = << >>

\* Rows with too few seeders are left out.
Kept == {r \in ToSet(input) : r.seeders >= MinSeeders}
Filter ==
  /\ at = "answered" /\ stage = "filter"
  /\ list' = Selected(input, Kept)
  /\ stage' = "sort"
  /\ UNCHANGED <<input, merged>>

\* A list of at most one row is returned as it is.
SortScored ==
  /\ stage = "sort"
  /\ IF Len(list) <= 1
     THEN list' = << >> /\ merged' = list /\ stage' = "done"
     ELSE list' \in SortedBy(list, ByScore) /\ stage' = "merge" /\ UNCHANGED merged
  /\ UNCHANGED input

SameTorrent(r) ==
  {i \in 1 .. Len(merged) : HashOf(r) # NoHash /\ merged[i].infoHash = HashOf(r)}

MergeRow ==
  /\ stage = "merge" /\ list # << >>
  /\ LET r == [Head(list) EXCEPT !.infoHash = HashOf(Head(list))]
     IN  merged' = IF SameTorrent(r) = {} THEN Append(merged, r)
                   ELSE [i \in 1 .. Len(merged) |->
                           IF i \in SameTorrent(r) THEN Merge(merged[i], r) ELSE merged[i]]
  /\ list' = Tail(list)
  /\ UNCHANGED <<input, stage>>

SortMerged ==
  /\ stage = "merge" /\ list = << >>
  /\ merged' \in SortedBy(merged, ByScoreAndSeeders)
  /\ stage' = "done"
  /\ UNCHANGED <<input, list>>

Rank == Filter \/ SortScored \/ MergeRow \/ SortMerged

\* allResults: the rows of an answer follow those of the answers before it.
CollectRows ==
  /\ Collect
  /\ \E a \in Answers[Head(chan)] : input' = input \o a
  /\ UNCHANGED <<stage, list, merged>>

RankNext ==
  \/ CollectRows
  \/ GoOn /\ UNCHANGED rankVars
  \/ Rank /\ UNCHANGED vars

RankSpec == RankInit /\ [][RankNext]_allVars

\* Goroutines run; every source has a time limit of its own on its requests.
RankFairSpec == RankSpec /\ WF_allVars(RankNext)

-----------------------------------------------------------------------------
(* Properties of the ranking that is returned.                              *)

\* The types of the search's and the ranking's state.
RankTypeOK ==
  /\ TypeOK
  /\ input \in Seq(Row)
  /\ stage \in {"filter", "sort", "merge", "done"}
  /\ list \in Seq(Row) /\ merged \in Seq(Row)

\* What every step of a search keeps: NoAnswerLost is about the collection, of which the
\* ranking gets the rows.
SearchInv == RankTypeOK /\ NoAnswerLost

\* The torrent a row is of, whichever field says so and however it is written.
TorrentOf(r) ==
  IF r.infoHash # NoHash THEN r.infoHash.hash
  ELSE IF r.magnet.xt # NoHash THEN r.magnet.xt.hash
  ELSE NoHash
\* The rows of one torrent that the answer is made from.
Of(h) == {r \in Kept : TorrentOf(r) = h}

\* Each torrent appears once, also while the rows are folded and however its sources write
\* its hash; no torrent and no row without a hash disappears.
OneRowPerTorrent ==
  /\ stage \in {"merge", "done"} =>
       \A i, j \in 1 .. Len(merged) :
         TorrentOf(merged[i]) = TorrentOf(merged[j]) /\ TorrentOf(merged[i]) # NoHash => i = j
  /\ stage = "done" => /\ {TorrentOf(r) : r \in ToSet(merged)} = {TorrentOf(r) : r \in Kept}
                    /\ Of(NoHash) \subseteq ToSet(merged)

\* The row of the answer is this one, but for what the others of its torrent add to it: a time
\* that it lacks, a magnet that it lacks, or trackers.
Identity(r, q) ==
  /\ r.site = q.site /\ r.seeders = q.seeders /\ r.bonus = q.bonus
  /\ q.added > 0 => r.added = q.added
  /\ q.magnet.uri # NoUri => r.magnet.uri = q.magnet.uri /\ r.magnet.xt = q.magnet.xt

\* CHANGELOG.md:30: "The winning row keeps its highest score and seeder count": the row of
\* a torrent is one of its best, whatever order the sort leaves ties in.
BestRowWins ==
  stage = "done" =>
    \A r \in ToSet(merged) :
      \E q \in Of(TorrentOf(r)) :
        /\ Identity(r, q)
        /\ TorrentOf(r) # NoHash => \A o \in Of(TorrentOf(r)) : ~ByScoreAndSeeders(o, q)

\* CHANGELOG.md:30: "all unique announce trackers (`&tr=...`) from losing rows are merged into
\* the winner's magnet URI"; and a torrent that has a magnet anywhere keeps one.
TrackersMerged ==
  stage = "done" =>
    \A r \in ToSet(merged) :
      TorrentOf(r) # NoHash =>
        /\ r.magnet.trackers = UNION {q.magnet.trackers : q \in Of(TorrentOf(r))}
        /\ r.magnet.uri = NoUri <=> \A q \in Of(TorrentOf(r)) : q.magnet.uri = NoUri

\* A time that any source knows is not lost.
TimeKept ==
  stage = "done" =>
    \A r \in ToSet(merged) :
      TorrentOf(r) # NoHash => (r.added = 0 <=> \A q \in Of(TorrentOf(r)) : q.added = 0)

\* The answer is sorted: the first row, which /api/download takes, is one of the best.
Ranked ==
  stage = "done" =>
    \A i, j \in 1 .. Len(merged) : i < j => ~ByScoreAndSeeders(merged[j], merged[i])

\* The four together: what the answer owes to the rows it is made from.
AnswerIsWhole == BestRowWins /\ TrackersMerged /\ TimeKept /\ Ranked
=============================================================================
