------------------------------- MODULE MCChores -------------------------------
(***************************************************************************)
(* Small instances of Chores for TLC.                                      *)
(***************************************************************************)
EXTENDS Chores

OneMagnet == [f \in Files |-> CHOOSE h \in Hashes : TRUE]

\* state.json is missing or holds one torrent, its completion recorded or not.
OneSaved ==
  {[h \in Hashes |-> IF h = k THEN [magnet |-> TRUE, seed |-> s, done |-> d] ELSE None]
     : k \in Hashes, s \in SeedTimes, d \in BOOLEAN}
StartFiles == {EmptyRegistry} \cup OneSaved
=============================================================================
