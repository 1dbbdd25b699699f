----------------------------- MODULE MCFeedReader -----------------------------
(***************************************************************************)
(* Small instances of FeedReader for TLC.                                  *)
(***************************************************************************)
EXTENDS FeedReader

FreshFiles == {EmptyRegistry}

\* The feeds list one torrent, each under a magnet of its own.
OneTorrent == [m \in Magnets |-> CHOOSE h \in Hashes : TRUE]
OneEach ==
  CHOOSE g \in [Feeds -> SUBSET Magnets] :
    /\ \A f \in Feeds : Cardinality(g[f]) = 1
    /\ UNION {g[f] : f \in Feeds} = Magnets
=============================================================================
