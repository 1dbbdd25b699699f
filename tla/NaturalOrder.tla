----------------------------- MODULE NaturalOrder -----------------------------
(***************************************************************************)
(* The natural order of file names (NaturalLess in                         *)
(* src/pkg/torrent/playlist.go), which puts "track2" before "track10".  A  *)
(* name is a sequence of chunks, runs of digits or of other characters.    *)
(***************************************************************************)
EXTENDS Naturals, Sequences

CONSTANTS
  Chunks,   \* the chunks that occur in names
  NoNumber  \* the value of a chunk that strconv.ParseUint does not take

\* text is the place of the lower-cased chunk in the order of bytes, upper tells two
\* spellings apart; digits and num are what isAllDigits and ParseUint say of it.
Chunk == [text : Nat, upper : BOOLEAN, digits : BOOLEAN, num : Nat \cup {NoNumber}, len : Nat]

Parsed(c) == c.num # NoNumber
\* A run of digits that 64 bits do not hold (or that are not all ASCII) is text.
Oversized(c) == c.digits /\ ~Parsed(c)

\* What is known of texts: numbers are equal as text only when they are equal, and a text
\* that is no run of digits comes before all numbers or after all of them.
ASSUME ChunkAssumption ==
  /\ Chunks \subseteq Chunk
  /\ NoNumber \notin Nat
  /\ \A c \in Chunks : Parsed(c) => c.digits
  /\ \A c, d \in Chunks : Parsed(c) /\ Parsed(d) =>
       (c.text = d.text <=> c.num = d.num /\ c.len = d.len)
  /\ \A t, c, d \in Chunks : ~t.digits /\ Parsed(c) /\ Parsed(d) =>
       t.text # c.text /\ (t.text < c.text <=> t.text < d.text)

-----------------------------------------------------------------------------
Tie(c, d) == c.text = d.text

\* Mutant: numbers are compared as text.
ChunkLessAsText(c, d) == c.text < d.text

\* Two numbers by value and then by length, for leading zeros; all else by text.
ChunkLess(c, d) ==
  IF Parsed(c) /\ Parsed(d) /\ <<c.num, c.len>> # <<d.num, d.len>>
  THEN c.num < d.num \/ (c.num = d.num /\ c.len < d.len)
  ELSE c.text < d.text

\* The first chunks that do not tie decide; a name that ends there comes first.
LessAt(a, b, i) ==
  /\ i <= Len(b) /\ \A j \in 1..(i - 1) : Tie(a[j], b[j])
  /\ ChunkLess(a[i], b[i])
EndsFirst(a, b) == Len(a) < Len(b) /\ \A j \in 1..Len(a) : Tie(a[j], b[j])

NaturalLess(a, b) == (\E i \in 1..Len(a) : LessAt(a, b, i)) \/ EndsFirst(a, b)
=============================================================================
