-------------------------------- MODULE Chores --------------------------------
(***************************************************************************)
(* Two chores of the torrent client, each beside the requests: the watcher *)
(* of the folder and the post-processor.  They meet only in the registry,  *)
(* so that either can be run with the other asleep: the variable chore     *)
(* says which one a behaviour is about.                                    *)
(***************************************************************************)
EXTENDS Watcher, PostProcessor

VARIABLE chore

choreVars == <<vars, watchVars, ppVars, chore>>

\* Bound: beside the watcher the registry starts empty and clients only stop torrents.
ChoresInit ==
  /\ WatchInit /\ PPInit
  /\ chore \in {"watch", "finish"}
  /\ chore = "watch" => file = EmptyRegistry
OnlyStops == \A w \in Workers : job'[w].op # "add"

OnFolder(A) == chore = "watch" /\ A /\ OnlyStops /\ UNCHANGED <<ppVars, chore>>
OnFinished(A) == chore = "finish" /\ A /\ UNCHANGED <<watchVars, chore>>

ChoresNext == OnFolder(WatchNext) \/ OnFinished(PPNext)

\* A step of the client, beside either chore.
Beside(A) == A /\ UNCHANGED <<watchVars, ppVars, chore>>

\* Both are goroutines like those of the client, whose fairness is that of TorrentClient (in
\* fewer conditions: what one of them does outside the sections stays possible until it does
\* it, one step at a time).  The folder can be read and renamed in again and again, and
\* whoever began a file finishes it.  Nothing obliges the script of the user to return.
ChoresSpec ==
  /\ ChoresInit /\ [][ChoresNext]_choreVars
  /\ \A h \in Hashes : WF_choreVars(Beside(Spawn(h) \/ BootAdd(h)))
  /\ \A p \in Procs : WF_choreVars(Beside(Waiting(p) \/ StopDrop(p) \/ Saving(p)))
  /\ \A p \in Workers \cup Hashes : SF_choreVars(Beside(Section(p)))
  /\ SF_choreVars(Beside(Section(Watch) \/ Stamp))
  /\ WF_choreVars(OnFolder(WatchPoll)) /\ SF_choreVars(OnFolder(Archive))
  /\ \A f \in InOnePiece : SF_choreVars(OnFolder(ReadFile(f)))
  /\ \A f \in Files : WF_choreVars(OnFolder(folder[f] # "absent" /\ Write(f)))
  /\ WF_choreVars(OnFinished(Round))
=============================================================================
