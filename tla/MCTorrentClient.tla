--------------------------- MODULE MCTorrentClient ---------------------------
(***************************************************************************)
(* Small instances of TorrentClient for TLC.                               *)
(***************************************************************************)
EXTENDS TorrentClient

\* state.json missing (which loads as an empty map), or holding one torrent.
FreshFiles == {EmptyRegistry}
OneSaved == {[h \in Hashes |-> IF h = k THEN [magnet |-> TRUE, seed |-> NoSeed, done |-> d]
                               ELSE None] : k \in Hashes, d \in BOOLEAN}
\* One that has no magnet (the entry was made by SetSeedTime), or is cut short.
OddFiles == {Torn} \cup
  {[h \in Hashes |-> IF h = k THEN [magnet |-> FALSE, seed |-> NoSeed, done |-> FALSE]
                     ELSE None] : k \in Hashes}
StartFiles == FreshFiles \cup OneSaved \cup OddFiles
=============================================================================
