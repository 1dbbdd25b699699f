------------------------------- MODULE MCRanking -------------------------------
(***************************************************************************)
(* Small instances of SearchManager with Ranking for TLC: each source      *)
(* answers with at most one row, of one of two torrents or without a hash, *)
(* and lists a tracker of its own.                                         *)
(***************************************************************************)
EXTENDS Ranking

CONSTANTS yts, nyaa, x1337, eztv,  \* sources
          h1, h2

IdOf == [s \in Sources |-> CASE s = yts -> "yts" [] s = nyaa -> "nyaa"
                             [] s = x1337 -> "x1337" [] s = eztv -> "eztv"]
\* The documentation calls the source x1337 "1337x", which is the ID of no source.
AllNames == {IdOf[s] : s \in Sources} \cup {"1337x"}

\* The sources differ in how they write hashes; nyaa leaves the field empty.
As(s) == CASE s = yts -> "HEX" [] s = nyaa -> "hex" [] OTHER -> "base32"
Hash(s, h) == IF h = NoHash THEN NoHash ELSE [hash |-> h, as |-> As(s)]
Field(s, h) == IF s = nyaa THEN NoHash ELSE Hash(s, h)
Linked(s, h) == [uri |-> s, xt |-> Hash(s, h), trackers |-> {IdOf[s]}]
Unlinked == [uri |-> NoUri, xt |-> NoHash, trackers |-> {}]
Time(s) == CASE s = yts -> 1 [] s = nyaa -> 2 [] OTHER -> 3

RowOf(s, f, n, b, t, m) ==
  [site |-> s, infoHash |-> f, seeders |-> n, bonus |-> b, added |-> t, magnet |-> m]

RowsOf(s) ==
  {RowOf(s, Field(s, h1), n, b, t, Linked(s, h1)) : n \in {1, 2}, b \in Bonuses, t \in {0, Time(s)}}
  \cup {RowOf(s, Hash(s, h1), 1, b, Time(s), Unlinked) : b \in Bonuses}
  \cup {RowOf(s, Field(s, h), 1, 0, 0, Linked(s, h)) : h \in {h2, NoHash}}
  \cup {RowOf(s, Hash(s, h1), 0, 0, 0, Linked(s, h1))}

SmallAnswers == [s \in Sources |-> {<<r>> : r \in RowsOf(s)}]
=============================================================================
