----------------------------- MODULE MCCollector -----------------------------
(***************************************************************************)
(* Small instances of Collector for TLC.                                   *)
(***************************************************************************)
EXTENDS Collector

\* state.json holds one finished torrent, with or without a seed time of its own.
FinishedSaved ==
  {[h \in Hashes |-> IF h = k THEN [magnet |-> TRUE, seed |-> s, done |-> TRUE] ELSE None]
     : k \in Hashes, s \in SeedTimes}
=============================================================================
