------------------------------ MODULE Registry ------------------------------
(***************************************************************************)
(* What the torrent client promises of its registry (src/pkg/torrent): a   *)
(* map from hash to entry that changes by one entry at a time, and a       *)
(* durable copy of it, which is what the next start of the daemon finds.   *)
(* The copy lags behind by no more than the change that is being saved, or *)
(* by saves that failed.  Who makes a change, under which lock and in how  *)
(* many steps it is saved, is left to TorrentClient, which implements this *)
(* specification.                                                          *)
(***************************************************************************)
CONSTANTS
  Hashes,  \* info hashes
  Entry,   \* what is kept of a torrent; an entry is done once it has completed
  None     \* no entry for a hash

VARIABLES
  entries,  \* the registry
  durable,  \* the registry that a restart would find
  pending,  \* a change is made and its save has not ended
  trusted   \* the last save that ended since the start was successful

registry == <<entries, durable, pending, trusted>>

Empty == [h \in Hashes |-> None]

Init ==
  /\ entries \in [Hashes -> Entry \cup {None}]
  /\ durable = entries
  /\ pending = FALSE /\ trusted = TRUE

\* One entry is made, replaced or removed, and its save begins.  Only a removal takes
\* away that a torrent has completed.
Change(h, e) ==
  /\ ~pending /\ pending' = TRUE
  /\ entries[h] # None /\ entries[h].done => e = None \/ e.done
  /\ entries' = [entries EXCEPT ![h] = e]
  /\ UNCHANGED <<durable, trusted>>

\* While a save is under way the durable copy may be lost.
Lose ==
  /\ pending
  /\ durable' = Empty
  /\ UNCHANGED <<entries, pending, trusted>>

\* A save ends: everything is durable, or nothing more is.
Saved ==
  /\ pending /\ pending' = FALSE
  /\ durable' = entries /\ trusted' = TRUE
  /\ UNCHANGED entries

SaveFailed ==
  /\ pending /\ pending' = FALSE
  /\ trusted' = FALSE
  /\ UNCHANGED <<entries, durable>>

\* The daemon dies, at any point, and finds the durable copy when it starts again.
Reload ==
  /\ entries' = durable
  /\ pending' = FALSE /\ trusted' = TRUE
  /\ UNCHANGED durable

Next ==
  \/ \E h \in Hashes, e \in Entry \cup {None} : Change(h, e)
  \/ Lose \/ Saved \/ SaveFailed \/ Reload

Spec == Init /\ [][Next]_registry
=============================================================================
