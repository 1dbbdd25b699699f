---------------------------- MODULE PostProcessor ----------------------------
(***************************************************************************)
(* The post-processor of the torrent client (postprocess.go), composed     *)
(* with TorrentClient: once a minute it looks for registered torrents that *)
(* have completed and are not yet in gorrent_processed.json, stamps their  *)
(* completion in the registry, writes playlists and hard links, runs the   *)
(* script of the user and records the torrent as processed.                *)
(***************************************************************************)
EXTENDS TorrentClient

CONSTANT PP  \* the goroutine, a member of Daemons

ASSUME PostProcessorAssumption == PP \in Daemons

VARIABLES
  ppAt,       \* where the goroutine is in its loop
  ppList,     \* torrents of this round it has still to look at
  ppKnown,    \* those whose metadata was there when they were listed
  ppHash,     \* the one it is processing
  processed,  \* its map in memory
  procFile,   \* gorrent_processed.json, or Torn
  downloaded, \* torrents completely downloaded
  runs,       \* history: how often the script was run for each torrent in this life
  ran         \* history: the torrents it was ever run for

scripts == <<runs, ran>>
ppVars == <<ppAt, ppList, ppKnown, ppHash, processed, procFile, downloaded, scripts>>
ppAllVars == <<vars, ppVars>>

\* A file that is missing or does not parse leaves the map empty.
LoadedProcessed(f) == IF f = Torn THEN {} ELSE f

PPInit ==
  /\ Init
  /\ ppAt = "sleep" /\ ppList = {} /\ ppKnown = {} /\ ppHash = IdleJob.hash
  /\ procFile = {} /\ processed = {}
  /\ downloaded = {} /\ runs = [h \in Hashes |-> 0] /\ ran = {}

-----------------------------------------------------------------------------
(* One round.                                                               *)

Tick ==
  /\ ppAt = "sleep" /\ toSpawn = {}
  /\ ppList' = active /\ ppKnown' = gotInfo
  /\ ppAt' = "loop"
  /\ UNCHANGED <<vars, ppHash, processed, procFile, downloaded, scripts>>

\* The completion time is recorded in the entry, unless it is there already or the
\* torrent has no entry (yet).
Unstamped(h) == stateData[h] # None /\ ~stateData[h].done

\* t.Info() of the listed instance, which keeps what it knows when it is dropped.
Informed(h) == h \in ppKnown \cup gotInfo
DueUnstamped(h) == Informed(h) /\ h \in downloaded \ processed /\ Unstamped(h)  \* mutant
Due(h) == Informed(h) /\ h \in downloaded \ processed

\* No metadata yet, processed before, or still downloading.
Skip(h) ==
  /\ ppAt = "loop" /\ h \in ppList
  /\ ~Due(h)
  /\ ppList' = ppList \ {h}
  /\ UNCHANGED <<vars, ppAt, ppKnown, ppHash, processed, procFile, downloaded, scripts>>

Consider(h) ==
  /\ ppAt = "loop" /\ h \in ppList
  /\ Due(h)
  /\ ppAt' = "stamp" /\ ppHash' = h /\ ppList' = ppList \ {h}
  /\ Take(PP, "stamp", h, NoSeed, "enter")
  /\ UNCHANGED <<handle, library, shared, disk, toSpawn, history,
                 ppKnown, processed, procFile, downloaded, scripts>>

\* Mutant: the stamp is forgotten.
StampNever == Enter(PP, "stamp") /\ LeaveUnchanged(PP)

Stamp ==
  /\ Enter(PP, "stamp")
  /\ IF Unstamped(job[PP].hash)
     THEN Commit(PP, [stateData[job[PP].hash] EXCEPT !.done = TRUE])
     ELSE LeaveUnchanged(PP)

\* Playlists, hard links and the script: after the section, outside the lock.
RunScript ==
  /\ ppAt = "stamp" /\ pc[PP] = "idle"
  /\ runs' = [runs EXCEPT ![ppHash] = @ + 1] /\ ran' = ran \cup {ppHash}
  /\ ppAt' = "script"
  /\ UNCHANGED <<vars, ppList, ppKnown, ppHash, processed, procFile, downloaded>>

\* CombinedOutput returns when the user's program does: there is no limit on it.
ScriptReturns ==
  /\ ppAt = "script"
  /\ ppAt' = "mark"
  /\ UNCHANGED <<vars, ppList, ppKnown, ppHash, processed, procFile, downloaded, scripts>>

\* Mutant: the torrent is not recorded in memory.
MarkInFileOnly ==
  /\ ppAt = "mark"
  /\ procFile' = Torn
  /\ ppAt' = "write"
  /\ UNCHANGED <<vars, ppList, ppKnown, ppHash, processed, downloaded, scripts>>

\* processed[hash] = true; os.WriteFile truncates the file first.  Its error is ignored.
Mark ==
  /\ ppAt = "mark"
  /\ processed' = processed \cup {ppHash}
  /\ \/ procFile' = Torn /\ ppAt' = "write"
     \/ UNCHANGED procFile /\ ppAt' = "loop"
  /\ UNCHANGED <<vars, ppList, ppKnown, ppHash, downloaded, scripts>>

WriteProcessed ==
  /\ ppAt = "write"
  /\ procFile' \in {processed, Torn}
  /\ ppAt' = "loop"
  /\ UNCHANGED <<vars, ppList, ppKnown, ppHash, processed, downloaded, scripts>>

EndRound ==
  /\ ppAt = "loop" /\ ppList = {}
  /\ ppAt' = "sleep" /\ ppHash' = IdleJob.hash
  /\ UNCHANGED <<vars, ppList, ppKnown, processed, procFile, downloaded, scripts>>

Round ==
  \/ Tick \/ (\E h \in Hashes : Skip(h) \/ Consider(h))
  \/ RunScript \/ Mark \/ WriteProcessed \/ EndRound

-----------------------------------------------------------------------------
\* A torrent finishes.  downloaded is about the data, which outlives the registration: a
\* torrent that is added again finds it on disk.
DownloadEnds(h) ==
  /\ h \in gotInfo \ downloaded
  /\ downloaded' = downloaded \cup {h}
  /\ UNCHANGED <<vars, ppAt, ppList, ppKnown, ppHash, processed, procFile, scripts>>

PPClientStep ==
  /\ \/ \E h \in Hashes : InfoArrives(h) \/ Spawn(h) \/ BootAdd(h)
     \/ \E w \in Workers : Request(w)
     \/ \E p \in Procs : Step(p)
     \/ Stamp
  /\ UNCHANGED ppVars

PPRestartWith(known) ==
  /\ Restart
  /\ ppAt' = "sleep" /\ ppList' = {} /\ ppKnown' = {} /\ ppHash' = IdleJob.hash
  /\ processed' = known
  /\ runs' = [h \in Hashes |-> 0]
  /\ UNCHANGED <<procFile, downloaded, ran>>

PPRestartBlank == PPRestartWith({})  \* mutant: the file is not read
PPRestart == PPRestartWith(LoadedProcessed(procFile))

PPNext ==
  \/ PPClientStep \/ Round \/ ScriptReturns
  \/ (\E h \in Hashes : DownloadEnds(h)) \/ PPRestart

PPSpec == PPInit /\ [][PPNext]_ppAllVars

-----------------------------------------------------------------------------
(* Properties.                                                              *)

\* The post-processor's own state has its types, and its place in the loop agrees with
\* what it does for the registry: it is in no section but the stamp of ppHash.
PPTypeOK ==
  /\ ppAt \in {"sleep", "loop", "stamp", "script", "mark", "write"}
  /\ ppList \subseteq Hashes /\ ppKnown \subseteq Hashes /\ ppHash \in Hashes
  /\ processed \subseteq Hashes /\ (procFile = Torn \/ procFile \subseteq Hashes)
  /\ downloaded \subseteq Hashes
  /\ runs \in [Hashes -> Nat] /\ ran \subseteq Hashes
  /\ Busy(PP) => ppAt = "stamp" /\ job[PP].op = "stamp" /\ job[PP].hash = ppHash

\* Within one life of the daemon the script runs at most once per torrent, however
\* often it is stopped and added again.
OncePerLife == \A h \in Hashes : runs[h] <= 1

\* A torrent is recorded as processed, in memory or in the file, only after its script.
OnlyRunRecorded == processed \cup LoadedProcessed(procFile) \subseteq ran

\* What every step of the post-processor keeps.
PPInv == PPTypeOK /\ OncePerLife /\ OnlyRunRecorded

\* The script of a torrent that gorrent_processed.json holds is not run again, in this
\* life or a later one.
SavedNotRerun ==
  [][\A h \in Hashes : runs'[h] > runs[h] => h \notin LoadedProcessed(procFile)]_ppAllVars

\* No script of the user hangs.
ScriptsReturn == []<>(ppAt # "script")

\* CHANGELOG.md:104, "guarantee scripts and links are executed exactly once per
\* torrent", from below: no completed torrent stays registered for ever without its script
\* having been run, provided that those before it return.
EventuallyProcessed ==
  ScriptsReturn =>
    \A h \in Hashes : []<>(h \in active \cap downloaded => h \in ran)

\* A completed torrent that has an entry when a round begins, and was not processed
\* before, gets its completion recorded (or is dropped), provided that scripts return.
EventuallyStamped ==
  ScriptsReturn =>
    \A h \in Hashes :
      (h \in (active \cap downloaded) \ processed /\ Unstamped(h) /\ ppAt = "sleep")
        ~> (~Unstamped(h) \/ h \notin active)
=============================================================================
