------------------------------ MODULE Collector ------------------------------
(***************************************************************************)
(* The garbage collector of the torrent client (startGC in client.go),     *)
(* composed with TorrentClient: every ten minutes it copies the registry,  *)
(* lists the registered torrents and drops those whose seeding is over,    *)
(* forgetting each and, when configured, deleting its files.               *)
(***************************************************************************)
EXTENDS TorrentClient

CONSTANTS
  GC,           \* the goroutine, a member of Daemons
  Forever,      \* the seed time "0"
  AutoCleanup,  \* configuration: the global limits (ratio, days) apply
  DeleteFiles   \* configuration: delete_files_on_stop

ASSUME CollectorAssumption ==
  /\ GC \in Daemons
  /\ Forever \in SeedTimes /\ Forever # NoSeed
  /\ AutoCleanup \in BOOLEAN /\ DeleteFiles \in BOOLEAN

VARIABLES
  gcAt,      \* where the collector is in its loop
  snap,      \* the copy of the registry this pass decides on
  gcList,    \* torrents of the list this pass has still to look at
  stale,     \* those whose listed instance has been dropped since
  frozen,    \* those among them that were complete when dropped
  gcHash,    \* the torrent being dropped
  disturbed, \* history: a request or recovery has worked on it meanwhile
  complete,  \* registered torrents that are completely downloaded
  files      \* torrents whose data lies in DownloadDir, under their name

gcVars == <<gcAt, snap, gcList, stale, frozen, gcHash, disturbed, complete, files>>
gcAllVars == <<vars, gcVars>>

GCInit ==
  /\ Init
  /\ gcAt = "sleep" /\ gcHash = IdleJob.hash /\ disturbed = FALSE
  /\ snap = EmptyRegistry /\ gcList = {} /\ stale = {} /\ frozen = {}
  /\ complete = {} /\ files = {}

-----------------------------------------------------------------------------
(* ShouldDropTorrent, with the clock and the upload ratio left open: `due'   *)
(* says whether the limit that applies has been reached.  A limit in time    *)
(* needs a completion time: the recorded one, or else the modification time  *)
(* of DownloadDir/<name>; the ratio does not.                                *)

SeedsFor(h) == IF stateData[h] = None THEN NoSeed ELSE stateData[h].seed  \* now
SeedTimeOf(h) == IF snap[h] = None THEN NoSeed ELSE snap[h].seed
TimeKnown(h) == (snap[h] # None /\ snap[h].done) \/ h \in files

ShouldDrop(h, due) ==
  /\ due
  /\ SeedTimeOf(h) # Forever
  /\ IF SeedTimeOf(h) = NoSeed THEN AutoCleanup ELSE TimeKnown(h)

-----------------------------------------------------------------------------
(* One pass.  It starts after NewClient, hence after loadState's loop.       *)

Copy ==
  /\ gcAt = "sleep" /\ toSpawn = {} /\ stateMu = NoOne
  /\ snap' = stateData
  /\ gcAt' = "list"
  /\ UNCHANGED <<vars, gcList, stale, frozen, gcHash, disturbed, complete, files>>

List ==
  /\ gcAt = "list"
  /\ gcList' = active /\ stale' = {} /\ frozen' = {}
  /\ gcAt' = "loop"
  /\ UNCHANGED <<vars, snap, gcHash, disturbed, complete, files>>

\* An instance dropped since it was listed keeps the progress it had.
Complete(h) == IF h \in stale THEN h \in frozen ELSE h \in complete

Keep(h) ==
  /\ gcAt = "loop" /\ h \in gcList
  /\ ~Complete(h) \/ \E due \in BOOLEAN : ~ShouldDrop(h, due)
  /\ gcList' = gcList \ {h}
  /\ UNCHANGED <<vars, gcAt, snap, stale, frozen, gcHash, disturbed, complete, files>>

\* t.Drop, on the listed instance; the entry goes in a section of its own.
GCDrop(h) ==
  /\ gcAt = "loop" /\ h \in gcList
  /\ Complete(h) /\ \E due \in BOOLEAN : ShouldDrop(h, due)
  /\ Take(GC, "collect", h, NoSeed, "drop")
  /\ handle' = [handle EXCEPT ![GC] = IF h \in stale THEN "dead" ELSE "live"]
  /\ gcAt' = "forget" /\ gcHash' = h /\ gcList' = gcList \ {h}
  /\ disturbed' = (h \in stale \/ WorkingOn(h) # {})
  /\ raced' = IF disturbed' THEN raced \cup {h} ELSE raced
  /\ UNCHANGED <<library, shared, disk, toSpawn, crashes, snap, stale, frozen, complete, files>>

\* Mutants: the entry is left in the registry; the collector forgets saveState.
CollectEntryKept == Enter(GC, "collect") /\ LeaveUnchanged(GC)
CollectEntryUnsaved ==
  /\ Enter(GC, "collect")
  /\ stateData' = [stateData EXCEPT ![job[GC].hash] = None]
  /\ Finish(GC)
  /\ UNCHANGED <<stateMu, handle, library, disk, toSpawn, history>>
CollectEntry == Enter(GC, "collect") /\ Commit(GC, None)

\* os.RemoveAll of DownloadDir/<name>, after the section; it may fail.
RemoveFiles ==
  /\ gcAt = "forget" /\ pc[GC] = "idle"
  /\ \/ DeleteFiles /\ files' = files \ {gcHash}
     \/ UNCHANGED files
  /\ gcAt' = "loop" /\ disturbed' = FALSE
  /\ UNCHANGED <<vars, snap, gcList, stale, frozen, gcHash, complete>>

EndPass ==
  /\ gcAt = "loop" /\ gcList = {}
  /\ gcAt' = "sleep"
  /\ snap' = EmptyRegistry /\ stale' = {} /\ frozen' = {} /\ gcHash' = IdleJob.hash
  /\ UNCHANGED <<vars, gcList, disturbed, complete, files>>

Pass == Copy \/ List \/ (\E h \in Hashes : Keep(h) \/ GCDrop(h)) \/ RemoveFiles \/ EndPass

-----------------------------------------------------------------------------
\* A torrent finishes; its data lies under DownloadDir/<name> unless it has a category.
Completes(h) ==
  /\ h \in gotInfo \ complete
  /\ complete' = complete \cup {h}
  /\ files' \in {files, files \cup {h}}
  /\ UNCHANGED <<vars, gcAt, snap, gcList, stale, frozen, gcHash, disturbed>>

Others(h) == WorkingOn(h) \ {GC}

\* What a step of the client means for the collector: dropped torrents lose their
\* progress, and listed ones become stale.
GCFollow ==
  /\ complete' = complete \cap gotInfo'
  /\ LET dropped == gcList \cap (active \ active')
     IN  /\ stale' = stale \cup dropped
         /\ frozen' = frozen \cup ((dropped \ stale) \cap complete)
  /\ UNCHANGED <<gcAt, snap, gcList, gcHash, files>>
  /\ disturbed' = (disturbed \/ (gcAt = "forget" /\ Others(gcHash)' # {}))

GCClientStep ==
  /\ \/ \E h \in Hashes : InfoArrives(h) \/ Spawn(h) \/ BootAdd(h)
     \/ \E w \in Workers : Request(w)
     \/ \E p \in Procs : Step(p)
     \/ CollectEntry
  /\ GCFollow

GCRestart ==
  /\ Restart
  /\ gcAt' = "sleep" /\ gcHash' = IdleJob.hash /\ disturbed' = FALSE
  /\ snap' = EmptyRegistry /\ gcList' = {} /\ stale' = {} /\ frozen' = {} /\ complete' = {}
  /\ UNCHANGED files

GCNext == GCClientStep \/ Pass \/ (\E h \in Hashes : Completes(h)) \/ GCRestart

GCSpec == GCInit /\ [][GCNext]_gcAllVars

-----------------------------------------------------------------------------
(* Properties.                                                              *)

\* The collector's own state has its types.
GCTypeOK ==
  /\ gcAt \in {"sleep", "list", "loop", "forget"}
  /\ snap \in Registry
  /\ gcList \subseteq Hashes /\ stale \subseteq Hashes /\ frozen \subseteq stale
  /\ gcHash \in Hashes /\ disturbed \in BOOLEAN
  /\ complete \subseteq gotInfo /\ files \subseteq Hashes

\* What the collector keeps up besides: its section saves before it unlocks, like all others.
GCInv == GCTypeOK /\ SavedWhenQuiet

DropDecided(h) == gcAt = "loop" /\ gcAt' = "forget" /\ gcHash' = h

\* Files are deleted only when nothing brings the torrent back: it is not registered,
\* has no entry, and a restart would find none in the file (if it could be saved) --
\* unless a request for the same torrent came in between.
FilesOutliveEntry ==
  [][\A h \in files \ files' : ~disturbed =>
       h \notin active /\ stateData[h] = None /\ (saveOk => Loaded(file)[h] = None)]_gcAllVars

\* client.go:284, "Infinite seeding: exempt from time-based cleanup": the collector never
\* decides to drop a torrent whose seed time is "0".
SeedsForever ==
  [][\A h \in Hashes : DropDecided(h) => SeedsFor(h) # Forever]_gcAllVars
=============================================================================
