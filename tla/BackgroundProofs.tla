---------------------------- MODULE BackgroundProofs ---------------------------
(***************************************************************************)
(* Proofs about the background goroutines of the torrent client, each      *)
(* composed with TorrentClient on its own: Watcher, FeedReader,            *)
(* PostProcessor and Collector, for any torrents, files, feeds and         *)
(* requests, and any number of restarts.                                   *)
(*                                                                         *)
(* The first part is about the client: whatever the background goroutine   *)
(* does for the registry, it keeps what the client keeps without it.       *)
(***************************************************************************)
EXTENDS Watcher, FeedReader, PostProcessor, Collector, AgreementProofs

-----------------------------------------------------------------------------
(* The client with a background goroutine.                                  *)

\* What the goroutines add to the client's steps: each registers torrents like a request, or
\* takes up a torrent to stamp its entry or to collect it, in a section of its own.
Adds(d) == ~Busy(d) /\ \E h \in Hashes, s \in SeedTimes : Register(d, "add", h, s)
TakesUpStamp(d) ==
  /\ ~Busy(d)
  /\ \E h \in Hashes : Take(d, "stamp", h, NoSeed, "enter")
  /\ UNCHANGED <<handle, active, gotInfo, stateMu, stateData, file, saveOk, crashes, raced>>
Stamps(d) ==
  /\ Enter(d, "stamp")
  /\ \/ Old(d) # None /\ Commit(d, [Old(d) EXCEPT !.done = TRUE])
     \/ LeaveUnchanged(d)
TakesUpDrop(d) ==
  /\ ~Busy(d)
  /\ \E h \in Hashes, held \in {"live", "dead"} :
       /\ Take(d, "collect", h, NoSeed, "drop")
       /\ handle' = [handle EXCEPT ![d] = held]
       /\ raced' = raced \/ raced' = raced \cup {h}
       /\ held = "dead" \/ WorkingOn(h) # {} => h \in raced'
  /\ UNCHANGED <<active, gotInfo, stateMu, stateData, file, saveOk, crashes>>
Collects(d) == Enter(d, "collect") /\ Commit(d, None)

DaemonStep(d) ==
  /\ toSpawn = {} /\ toSpawn' = {}
  /\ Adds(d) \/ TakesUpStamp(d) \/ Stamps(d) \/ TakesUpDrop(d) \/ Collects(d)
Moves == [Next]_vars \/ \E d \in Daemons : DaemonStep(d)

USE DEF shared, disk, library, history, locals, Harmless, Brief, tally, scripts

LEMMA DaemonProc == ASSUME NEW d \in Daemons PROVE d \in Procs \ Hashes
BY ClientAssumption DEF Procs

LEMMA DaemonType ==
  ASSUME TypeOK, RecoveryInv, NEW d \in Daemons, DaemonStep(d)
  PROVE  TypeOK' /\ RecoveryInv'
<1>. d \in Procs /\ d \notin Hashes  BY DaemonProc
<1>1. toSpawn = {} /\ toSpawn' = {}  BY DEF DaemonStep
<1>2. CASE Adds(d)  BY <1>1, <1>2, DaemonAdds DEF Adds
<1>3. CASE TakesUpStamp(d)
  <2>1. PICK h \in Hashes : Take(d, "stamp", h, NoSeed, "enter")  BY <1>3 DEF TakesUpStamp
  <2>2. [op |-> "stamp", hash |-> h, seed |-> NoSeed] \in Job  BY ClientAssumption DEF Job, Ops
  <2>3. TypeOK'  BY <1>1, <1>3, <2>1, <2>2 DEF TakesUpStamp, Take, TypeOK, PCs
  <2>4. RecoveryInv'  BY <1>1, <1>3, <2>1 DEF TakesUpStamp, Take, TypeOK, RecoveryInv, Busy, Procs
  <2>. QED  BY <2>3, <2>4
<1>4. CASE TakesUpDrop(d)
  <2>1. PICK h \in Hashes, held \in {"live", "dead"} :
          /\ Take(d, "collect", h, NoSeed, "drop")
          /\ handle' = [handle EXCEPT ![d] = held]
          /\ raced' = raced \/ raced' = raced \cup {h}
    BY <1>4 DEF TakesUpDrop
  <2>2. [op |-> "collect", hash |-> h, seed |-> NoSeed] \in Job  BY ClientAssumption DEF Job, Ops
  <2>3. TypeOK'  BY <1>1, <1>4, <2>1, <2>2 DEF TakesUpDrop, Take, TypeOK, PCs, Handles
  <2>4. RecoveryInv'  BY <1>1, <1>4, <2>1 DEF TakesUpDrop, Take, TypeOK, RecoveryInv, Busy, Procs
  <2>. QED  BY <2>3, <2>4
<1>5. ASSUME NEW e \in Entry \cup {None}, Commit(d, e), Busy(d) PROVE TypeOK' /\ RecoveryInv'
  <2>1. TypeOK'  BY <1>5, CommitType
  <2>2. RecoveryInv'  BY <1>1, <1>5 DEF Commit, TypeOK, RecoveryInv, Busy, Procs
  <2>. QED  BY <2>1, <2>2
<1>6. CASE Collects(d)  BY <1>5, <1>6 DEF Collects, Enter, Busy
<1>7. CASE Stamps(d)
  <2>1. CASE LeaveUnchanged(d)
    <3>1. TypeOK'  BY <2>1, IdleJobType DEF LeaveUnchanged, Finish, TypeOK, PCs
    <3>2. RecoveryInv'  BY <1>1, <2>1 DEF LeaveUnchanged, Finish, TypeOK, RecoveryInv, Busy, Procs
    <3>. QED  BY <3>1, <3>2
  <2>2. CASE Old(d) # None /\ Commit(d, [Old(d) EXCEPT !.done = TRUE])
    <3>1. Old(d) \in Entry  BY <2>2 DEF Old, TypeOK, Registry, Job
    <3>2. [Old(d) EXCEPT !.done = TRUE] \in Entry  BY <3>1 DEF Entry
    <3>. QED  BY <1>5, <1>7, <2>2, <3>2 DEF Stamps, Enter, Busy
  <2>. QED  BY <1>7, <2>1, <2>2 DEF Stamps
<1>. QED  BY <1>2, <1>3, <1>4, <1>6, <1>7 DEF DaemonStep

\* To the lock, the file and the registry these are steps like the others.
LEMMA DaemonKind ==
  ASSUME TypeOK, NEW d \in Daemons, DaemonStep(d)
  PROVE  OneKind
<1>. d \in Procs  BY DaemonProc
<1>1. CASE Adds(d)
  <2>1. Bystands  BY <1>1 DEF Adds, Busy, Register, Take, TypeOK, Bystands
  <2>. QED  BY <2>1 DEF OneKind
<1>2. CASE TakesUpStamp(d) \/ TakesUpDrop(d)
  <2>1. Bystands  BY <1>2 DEF TakesUpStamp, TakesUpDrop, Busy, Take, TypeOK, Bystands
  <2>. QED  BY <2>1 DEF OneKind
<1>3. CASE Collects(d)
  <2>1. Opens(d)  BY <1>3 DEF Collects, Enter, Commit, Opens, Changes
  <2>. QED  BY <2>1 DEF OneKind
<1>4. CASE Stamps(d)
  <2>1. CASE LeaveUnchanged(d)
    <3>1. Bystands  BY <1>4, <2>1 DEF Stamps, Enter, LeaveUnchanged, Finish, TypeOK, Bystands
    <3>. QED  BY <3>1 DEF OneKind
  <2>2. CASE Old(d) # None /\ Commit(d, [Old(d) EXCEPT !.done = TRUE])
    <3>1. Old(d) \in Entry  BY <2>2 DEF Old, TypeOK, Registry, Job
    <3>2. [Old(d) EXCEPT !.done = TRUE] \in Entry /\ [Old(d) EXCEPT !.done = TRUE].done = TRUE
      BY <3>1 DEF Entry
    <3>3. Opens(d)  BY <1>4, <2>2, <3>2 DEF Stamps, Enter, Commit, Opens, Changes
    <3>. QED  BY <3>3 DEF OneKind
  <2>. QED  BY <1>4, <2>1, <2>2 DEF Stamps
<1>. QED  BY <1>1, <1>2, <1>3, <1>4 DEF DaemonStep

\* Taking up and making a stamp leaves every torrent as registered as it was, and every
\* recovery what it has to restore.
LEMMA StampAgree ==
  ASSUME TypeOK, RecoveryInv, AgreeInv, NEW d \in Daemons, TakesUpStamp(d) \/ Stamps(d),
         toSpawn = {}, toSpawn' = {}
  PROVE  AgreeInv'
<1>. d \in Procs /\ d \notin Hashes  BY DaemonProc
<1>1. CASE TakesUpStamp(d)
  <2>1. /\ pc[d] = "idle" /\ pc'[d] = "enter" /\ job'[d].op = "stamp"
        /\ \A q \in Procs \ {d} : pc'[q] = pc[q] /\ job'[q] = job[q]
        /\ UNCHANGED <<handle, active, gotInfo, stateData, raced>>
    BY <1>1 DEF TakesUpStamp, Take, Busy, TypeOK
  <2>2. ASSUME NEW h \in Hashes PROVE Untouched(h)  BY <2>1 DEF Untouched, AtWork, Busy
  <2>3. AllBrief'  BY <2>1 DEF AgreeInv, AllBrief, Busy
  <2>. QED  BY <2>2, <2>3, UntouchedKeeps DEF AgreeInv
<1>2. CASE Stamps(d) /\ LeaveUnchanged(d)
  <2>1. /\ job[d].op = "stamp" /\ pc'[d] = "idle"
        /\ \A q \in Procs \ {d} : pc'[q] = pc[q] /\ job'[q] = job[q]
        /\ UNCHANGED <<handle, active, gotInfo, stateData, raced>>
    BY <1>2 DEF Stamps, Enter, LeaveUnchanged, Finish, TypeOK
  <2>2. ASSUME NEW h \in Hashes PROVE Untouched(h)  BY <2>1 DEF Untouched, AtWork, Busy
  <2>3. AllBrief'  BY <2>1 DEF AgreeInv, AllBrief, Busy
  <2>. QED  BY <2>2, <2>3, UntouchedKeeps DEF AgreeInv
<1>3. CASE Stamps(d) /\ Old(d) # None /\ Commit(d, [Old(d) EXCEPT !.done = TRUE])
  <2>1. /\ job[d].op = "stamp" /\ pc'[d] = "save" /\ job' = job
        /\ \A q \in Procs \ {d} : pc'[q] = pc[q] /\ handle'[q] = handle[q]
        /\ stateData' = [stateData EXCEPT ![job[d].hash] = [Old(d) EXCEPT !.done = TRUE]]
        /\ UNCHANGED <<active, gotInfo, raced>>
    BY <1>3 DEF Stamps, Enter, Commit, TypeOK
  <2>2. Old(d) \in Entry /\ job[d].hash \in Hashes  BY <1>3 DEF Old, TypeOK, Registry, Job
  <2>3. /\ [Old(d) EXCEPT !.done = TRUE] # None
        /\ [Old(d) EXCEPT !.done = TRUE].magnet = Old(d).magnet
        /\ [Old(d) EXCEPT !.done = TRUE].seed = Old(d).seed
    BY <2>2, ClientAssumption DEF Entry
  <2>4. ASSUME NEW h \in Hashes PROVE Untouched(h)
    <3>1. /\ stateData'[h] = None <=> stateData[h] = None
          /\ stateData[h] # None => /\ stateData'[h].magnet = stateData[h].magnet
                                    /\ stateData'[h].seed = stateData[h].seed
      BY <1>3, <2>1, <2>2, <2>3 DEF Old, TypeOK, Registry
    <3>. QED  BY <2>1, <3>1 DEF Untouched, AtWork, Busy
  <2>5. AllBrief'  BY <2>1 DEF AgreeInv, AllBrief, Busy
  <2>. QED  BY <2>4, <2>5, UntouchedKeeps DEF AgreeInv
<1>. QED  BY <1>1, <1>2, <1>3 DEF Stamps

\* A drop of the collector is a phase of work on the torrent like that of a request to stop.
LEMMA CollectAgree ==
  ASSUME TypeOK, RecoveryInv, AgreeInv, NEW d \in Daemons, TakesUpDrop(d) \/ Collects(d),
         toSpawn = {}, toSpawn' = {}
  PROVE  AgreeInv'
<1>. d \in Procs /\ d \notin Hashes  BY DaemonProc
<1>1. CASE TakesUpDrop(d)
  <2>1. PICK h \in Hashes, held \in {"live", "dead"} :
          /\ Take(d, "collect", h, NoSeed, "drop")
          /\ handle' = [handle EXCEPT ![d] = held]
          /\ raced' = raced \/ raced' = raced \cup {h}
          /\ held = "dead" \/ WorkingOn(h) # {} => h \in raced'
    BY <1>1 DEF TakesUpDrop
  <2>2. /\ pc[d] = "idle" /\ pc'[d] = "drop" /\ job'[d].op = "collect" /\ job'[d].hash = h
        /\ handle'[d] = held
        /\ \A q \in Procs \ {d} : pc'[q] = pc[q] /\ job'[q] = job[q] /\ handle'[q] = handle[q]
        /\ UNCHANGED <<active, gotInfo, stateData>>
    BY <1>1, <2>1 DEF TakesUpDrop, Take, Busy, TypeOK
  <2>3. Begins(d, h)  BY <2>1, <2>2 DEF Begins, AtWork, Busy
  <2>4. h \notin raced' => Phase(d, h)'  BY <2>1, <2>2 DEF Phase, StopPhase
  <2>. QED  BY <2>1, <2>3, <2>4, TakeAgree
<1>2. CASE Collects(d)
  <2>1. PICK k \in Hashes : k = job[d].hash  BY DEF TypeOK, Job
  <2>2. AtWork(d, k) /\ pc[d] = "enter" /\ job[d].op = "collect"
    BY <1>2, <2>1 DEF Collects, Enter, AtWork, Busy
  <2>3. WorkGoesOn(d, k)  BY <1>2, <2>2, CommitGoesOn DEF Collects
  <2>4. k \notin raced => Phase(d, k) /\ \A q \in Procs \ {d} : ~AtWork(q, k)
    BY <2>2 DEF AgreeInv, HashInv
  <2>. QED  BY <2>2, <2>3, <2>4, ConfinedKeeps DEF WorkGoesOn
<1>. QED  BY <1>1, <1>2

\* All that is proved of the client without a background goroutine, in one invariant.
ClientIInv == TypeOK /\ RecoveryInv /\ LockInv /\ SavedWhenQuiet /\ AgreeInv

LEMMA InitClient == Init => ClientIInv /\ Abstract!Init
<1>. SUFFICES ASSUME Init PROVE ClientIInv /\ Abstract!Init  OBVIOUS
<1>1. RecoveryInv  BY DEF Init, Boot, RecoveryInv, Busy, Procs, Persisted
<1>2. AgreeInv  BY AwakeAgree DEF Init, Boot
<1>. QED  BY <1>1, <1>2, InitType, InitSafe, RegistryInit DEF ClientIInv

LEMMA ClientMoves ==
  ASSUME ClientIInv, Moves PROVE ClientIInv' /\ [Abstract!Next]_(Abstract!registry)
<1>. USE DEF ClientIInv
<1>1. TypeOK' /\ RecoveryInv'  BY NextType, NextRecovery, DaemonType DEF Moves
<1>2. OneKind  BY StepKinds, DaemonKind DEF Moves
<1>3. LockInv' /\ SavedWhenQuiet' /\ [Abstract!Next]_(Abstract!registry)
  BY <1>2, KindLock, KindSaved, RegistryStep
<1>4. ASSUME NEW d \in Daemons, DaemonStep(d) PROVE AgreeInv'
  <2>. d \in Procs \ Hashes  BY DaemonProc
  <2>1. CASE Adds(d)  BY <1>4, <2>1, RegisterAgree DEF DaemonStep, Adds, Busy
  <2>. QED  BY <1>4, <2>1, StampAgree, CollectAgree DEF DaemonStep
<1>. QED  BY <1>1, <1>3, <1>4, NextAgree DEF Moves

\* The sections of the recovery are the client's own.
Restores ==
  \A h \in Hashes :
    stateMu' = h /\ stateMu # h /\ stateData[h] # None /\ h \notin raced => stateData' = stateData

LEMMA MovesRestore == ASSUME ClientIInv, Moves PROVE Restores
<1>1. CASE [Next]_vars  BY <1>1, Restored DEF ClientIInv, Restores
<1>2. ASSUME NEW d \in Daemons, DaemonStep(d) PROVE stateMu' = d \/ stateMu' = stateMu
  BY <1>2 DEF DaemonStep, Adds, Register, TakesUpStamp, Stamps, TakesUpDrop, Collects, Commit,
    LeaveUnchanged
<1>. QED  BY <1>1, <1>2, DaemonProc DEF Moves, Restores

-----------------------------------------------------------------------------
(* Watcher: no magnet file is added twice.                                  *)

\* Where a file can be.  One that was listed and not yet read is still in the folder; the
\* one at hand leaves it, for good, before its magnet is tried.
FilePlaces ==
  /\ watchList \subseteq InFolder
  /\ watchAt = "archive" => watchFile \in InFolder \ watchList
  /\ watchAt = "add" => watchFile \in handled /\ tries[watchFile] = 0
  /\ \A f \in Files : f \notin handled => tries[f] = 0

WatchIInv ==
  /\ TypeOK /\ RecoveryInv
  /\ watchAt # "sleep" => toSpawn = {}
  /\ WatchTypeOK /\ AddedOnce /\ FilePlaces

LEMMA SomeFileType == SomeFile \in Files
BY WatcherAssumption DEF SomeFile

\* The goroutines of the client leave the folder alone, and the watcher in its place.
LEMMA WatchClientStepKeeps == ASSUME WatchIInv, WatchClientStep PROVE WatchIInv'
<1>1. [Next]_vars /\ (toSpawn = {} => toSpawn' = {})  BY LoopEnds DEF WatchClientStep
<1>2. UNCHANGED watchVars  BY DEF WatchClientStep
<1>3. TypeOK' /\ RecoveryInv'  BY <1>1, NextType, NextRecovery DEF WatchIInv
<1>4. Busy(Watch)' => Busy(Watch) /\ job'[Watch] = job[Watch]
  BY <1>1, DaemonsKeepTheirWork, WatcherAssumption DEF WatchIInv
<1>5. WatchTypeOK'  BY <1>2, <1>4 DEF WatchIInv, WatchTypeOK, InFolder, watchVars
<1>6. AddedOnce' /\ FilePlaces'  BY <1>2 DEF WatchIInv, AddedOnce, FilePlaces, InFolder, watchVars
<1>. QED  BY <1>1, <1>2, <1>3, <1>5, <1>6 DEF WatchIInv, watchVars

\* The other program only writes files that have not been archived.
LEMMA WriteWatched == ASSUME WatchIInv, NEW f \in Files, Write(f) PROVE WatchIInv'
<1>1. UNCHANGED vars  BY DEF Write
<1>2. TypeOK' /\ RecoveryInv' /\ (Busy(Watch)' <=> Busy(Watch))
  BY <1>1 DEF WatchIInv, TypeOK, RecoveryInv, Busy, vars
<1>3. folder'[f] \in Texts /\ folder' \in [Files -> Texts \cup {"absent"}]
      /\ \A g \in Files \ {f} : folder'[g] = folder[g]
  BY DEF Write, WatchIInv, WatchTypeOK, Texts
<1>4. InFolder' \subseteq InFolder \cup {f} /\ InFolder \subseteq InFolder'
  BY <1>3 DEF InFolder, Texts
<1>5. WatchTypeOK'  BY <1>1, <1>2, <1>3, <1>4 DEF Write, WatchIInv, WatchTypeOK, vars
<1>6. AddedOnce' /\ FilePlaces'
  BY <1>4 DEF Write, WatchIInv, WatchTypeOK, AddedOnce, FilePlaces
<1>. QED  BY <1>1, <1>2, <1>5, <1>6 DEF WatchIInv, Write, vars

\* The steps of the watcher itself that leave the client alone.
LEMMA PollWatched == ASSUME WatchIInv, WatchPoll, UNCHANGED vars PROVE WatchIInv'
<1>1. TypeOK' /\ RecoveryInv' /\ (Busy(Watch)' <=> Busy(Watch)) /\ job' = job /\ toSpawn' = toSpawn
  BY DEF WatchIInv, TypeOK, RecoveryInv, Busy, vars
<1>. USE DEF WatchIInv, WatchTypeOK, AddedOnce, FilePlaces
<1>2. CASE ListFolder  BY <1>1, <1>2 DEF ListFolder, InFolder
<1>3. ASSUME NEW f \in Files, PassOver(f) PROVE WatchIInv'
  BY <1>1, <1>3 DEF PassOver, InFolder
<1>4. ASSUME NEW f \in Files, ReadFile(f) PROVE WatchIInv'
  BY <1>1, <1>4 DEF ReadFile, InFolder
<1>5. CASE Archive
  <2>1. folder' \in [Files -> Texts \cup {"absent"}] /\ InFolder' = InFolder \ {watchFile}
    BY <1>5 DEF Archive, Rename, InFolder
  <2>. QED  BY <1>1, <1>5, <2>1 DEF Archive, Rename
<1>6. CASE ArchiveFails  BY <1>1, <1>6 DEF ArchiveFails, InFolder
<1>7. CASE AddWatched
  <2>1. CASE text # "whole" /\ watchAt' = "scan" /\ UNCHANGED <<vars, tries>>
    BY <1>1, <1>7, <2>1 DEF AddWatched, InFolder
  <2>2. CASE Register(Watch, "add", MagnetOf[watchFile], NoSeed)
    <3>1. pc'[Watch] # pc[Watch] \/ Busy(Watch)
      BY <1>7, <2>2, WatcherAssumption DEF AddWatched, Register, Take, TypeOK, Procs, Busy
    <3>. QED  BY <1>1, <1>7, <2>2, <3>1 DEF AddWatched, vars
  <2>. QED  BY <1>7, <2>1, <2>2 DEF AddWatched
<1>8. CASE Added  BY <1>1, <1>8 DEF Added, InFolder, Busy
<1>9. CASE EndWatchPoll  BY <1>1, <1>9, SomeFileType DEF EndWatchPoll, InFolder, Texts
<1>. QED  BY <1>2, <1>3, <1>4, <1>5, <1>6, <1>7, <1>8, <1>9 DEF WatchPoll

\* The magnet of the file at hand is given to AddMagnet: for the first time.
LEMMA AddWatchedOnce ==
  ASSUME WatchIInv, AddWatched, ~UNCHANGED vars
  PROVE  WatchIInv'
<1>1. /\ watchAt = "add" /\ watchAt' = "adding"
      /\ Register(Watch, "add", MagnetOf[watchFile], NoSeed)
      /\ tries' = [tries EXCEPT ![watchFile] = @ + 1]
      /\ UNCHANGED <<folder, handled, watchList, watchFile, text>>
  BY DEF AddWatched
<1>2. MagnetOf[watchFile] \in Hashes /\ NoSeed \in SeedTimes /\ toSpawn = {}
  BY <1>1, WatcherAssumption, ClientAssumption DEF WatchIInv, WatchTypeOK
<1>3. TypeOK' /\ RecoveryInv' /\ toSpawn' = {} /\ job'[Watch].hash = MagnetOf[watchFile]
  BY <1>1, <1>2, DaemonAdds, WatcherAssumption DEF WatchIInv
<1>4. tries' \in [Files -> Nat] /\ tries'[watchFile] = 1
      /\ \A f \in Files \ {watchFile} : tries'[f] = tries[f]
  BY <1>1 DEF WatchIInv, WatchTypeOK, FilePlaces
<1>5. WatchTypeOK'  BY <1>1, <1>3, <1>4 DEF WatchIInv, WatchTypeOK, InFolder
<1>6. AddedOnce' /\ FilePlaces'
  BY <1>1, <1>4 DEF WatchIInv, WatchTypeOK, AddedOnce, FilePlaces, InFolder
<1>. QED  BY <1>1, <1>3, <1>5, <1>6 DEF WatchIInv

\* The process dies and is started again; what is in the folder, and in handled/, stays.
LEMMA RestartWatched == ASSUME WatchIInv, WatchRestart PROVE WatchIInv'
<1>1. Restart /\ UNCHANGED <<folder, handled, tries>>
      /\ watchAt' = "sleep" /\ watchList' = {} /\ watchFile' = SomeFile /\ text' = "empty"
  BY DEF WatchRestart
<1>2. TypeOK' /\ RecoveryInv'  BY <1>1, NextType, NextRecovery DEF WatchIInv, Next
<1>3. ~Busy(Watch)'  BY <1>1, WatcherAssumption DEF Restart, Busy, Procs
<1>4. WatchTypeOK'
  BY <1>1, <1>3, SomeFileType DEF WatchIInv, WatchTypeOK, InFolder, Texts
<1>. QED  BY <1>1, <1>2, <1>4 DEF WatchIInv, AddedOnce, FilePlaces, InFolder

LEMMA NextWatched == WatchIInv /\ [WatchNext]_watchAllVars => WatchIInv'
<1>. SUFFICES ASSUME WatchIInv, [WatchNext]_watchAllVars PROVE WatchIInv'  OBVIOUS
<1>1. CASE WatchPoll
  <2>1. CASE UNCHANGED vars  BY <1>1, <2>1, PollWatched
  <2>2. CASE ~UNCHANGED vars
    BY <1>1, <2>2, AddWatchedOnce DEF WatchPoll, ListFolder, Archive, ArchiveFails, AddWatched, Added,
      EndWatchPoll, PassOver, ReadFile
  <2>. QED  BY <2>1, <2>2
<1>2. CASE UNCHANGED watchAllVars
  BY <1>2 DEF watchAllVars, vars, watchVars, WatchIInv, TypeOK, RecoveryInv, Busy, WatchTypeOK, InFolder,
    AddedOnce, FilePlaces
<1>. QED  BY <1>1, <1>2, WatchClientStepKeeps, WriteWatched, RestartWatched DEF WatchNext

LEMMA InitWatched == WatchInit => WatchIInv
<1>. SUFFICES ASSUME WatchInit PROVE WatchIInv  OBVIOUS
<1>1. TypeOK  BY InitType DEF WatchInit
<1>2. RecoveryInv /\ ~Busy(Watch)
  BY WatcherAssumption DEF WatchInit, Init, Boot, RecoveryInv, Busy, Procs, Persisted
<1>3. WatchTypeOK  BY <1>2, SomeFileType DEF WatchInit, WatchTypeOK, InFolder, Texts
<1>. QED  BY <1>1, <1>2, <1>3 DEF WatchInit, WatchIInv, AddedOnce, FilePlaces

LEMMA WatcherInvariant == WatchSpec => []WatchIInv
BY InitWatched, NextWatched, PTL DEF WatchSpec

\* Whatever dies when, and whatever clients request meanwhile, the magnet of a file is given
\* to AddMagnet at most once.
THEOREM WatchCorrect == WatchSpec => []WatchInv
<1>1. WatchIInv => WatchInv  BY DEF WatchIInv, WatchInv
<1>. QED  BY <1>1, WatcherInvariant, PTL

LEMMA WatcherMoves == WatchIInv /\ [WatchNext]_watchAllVars => Moves
<1>. SUFFICES ASSUME WatchIInv, [WatchNext]_watchAllVars PROVE Moves  OBVIOUS
<1>. Watch \in Daemons  BY WatcherAssumption
<1>1. CASE AddWatched /\ ~UNCHANGED vars
  <2>1. Register(Watch, "add", MagnetOf[watchFile], NoSeed) /\ toSpawn = {} /\ toSpawn' = {}
    BY <1>1 DEF AddWatched, Register, WatchIInv
  <2>2. ~Busy(Watch)  BY <1>1 DEF AddWatched, WatchIInv, WatchTypeOK
  <2>3. MagnetOf[watchFile] \in Hashes /\ NoSeed \in SeedTimes
    BY WatcherAssumption, ClientAssumption DEF WatchIInv, WatchTypeOK
  <2>. QED  BY <2>1, <2>2, <2>3 DEF Moves, DaemonStep, Adds
<1>2. CASE WatchPoll /\ ~(AddWatched /\ ~UNCHANGED vars)
  <2>1. UNCHANGED vars
    BY <1>2 DEF WatchPoll, ListFolder, Archive, ArchiveFails, AddWatched, Added, EndWatchPoll,
      PassOver, ReadFile
  <2>. QED  BY <2>1 DEF Moves
<1>3. CASE WatchClientStep  BY <1>3, LoopEnds DEF WatchClientStep, Moves
<1>. QED
  BY <1>1, <1>2, <1>3 DEF WatchNext, Write, WatchRestart, Moves, Next, watchAllVars

\* With the watch folder, too, the client keeps all that it keeps without.
THEOREM WatcherKeepsClient ==
  WatchSpec => /\ [](ClientInv /\ SavedWhenQuiet /\ Agreement)
               /\ RecoveryRestores /\ ImplementsRegistry
<1>1. WatchInit => ClientIInv /\ Abstract!Init  BY InitClient DEF WatchInit
<1>2. WatchIInv /\ [WatchNext]_watchAllVars => Moves  BY WatcherMoves
<1>3. ClientIInv /\ Moves => ClientIInv' /\ [Restores]_vars /\ [Abstract!Next]_(Abstract!registry)
  BY ClientMoves, MovesRestore
<1>4. ClientIInv => ClientInv /\ SavedWhenQuiet /\ Agreement
  BY Agrees DEF ClientIInv, ClientInv
<1>. QED
  BY <1>1, <1>2, <1>3, <1>4, WatcherInvariant, PTL
  DEF WatchSpec, RecoveryRestores, Restores, ImplementsRegistry, Abstract!Spec

-----------------------------------------------------------------------------
(* FeedReader: what the history holds is what was added, and what           *)
(* rss_history.json holds is not added again.                               *)

\* What the reader remembers bounds what it has added: a magnet it does not remember now
\* was added only in earlier lives of the process.
Remembers ==
  /\ historyFile # Torn => historyFile \subseteq remembered
  /\ rssAt = "adding" => item \notin remembered
  /\ remembered \subseteq ever
  /\ \A m \in Magnets : added[m] <= IF m \in remembered THEN 1 ELSE 0

RssIInv ==
  /\ TypeOK /\ RecoveryInv
  /\ rssAt # "sleep" => toSpawn = {}
  /\ RssTypeOK /\ Remembers

LEMMA SomeFeedType == SomeFeed \in Feeds
BY FeedAssumption DEF SomeFeed

LEMMA SomeMagnetType == SomeMagnet \in Magnets
BY FeedAssumption DEF SomeMagnet

\* The goroutines of the client leave the reader's history alone, and the reader in its place.
LEMMA ClientStepRss == ASSUME RssIInv, RssClientStep PROVE RssIInv'
<1>1. [Next]_vars /\ (toSpawn = {} => toSpawn' = {})
  BY LoopEnds DEF RssClientStep
<1>2. /\ failed' \in BOOLEAN
      /\ UNCHANGED <<rssAt, feedsLeft, feed, itemsLeft, item, changed, remembered, historyFile,
                     added, ever>>
  BY DEF RssClientStep, RssFollow, RssIInv, RssTypeOK
<1>3. TypeOK' /\ RecoveryInv'  BY <1>1, NextType, NextRecovery DEF RssIInv
<1>4. Busy(Rss)' => Busy(Rss) /\ job'[Rss] = job[Rss]
  BY <1>1, DaemonsKeepTheirWork, FeedAssumption DEF RssIInv
<1>5. RssTypeOK'  BY <1>2, <1>4 DEF RssIInv, RssTypeOK
<1>6. Remembers'  BY <1>1, <1>2 DEF RssIInv, Remembers
<1>. QED  BY <1>1, <1>2, <1>3, <1>5, <1>6 DEF RssIInv

\* The steps of the reader itself that leave the client alone.
LEMMA PollRss == ASSUME RssIInv, RssPoll \/ GetReturns, UNCHANGED vars PROVE RssIInv'
<1>1. /\ TypeOK' /\ RecoveryInv' /\ (Busy(Rss)' <=> Busy(Rss)) /\ job' = job
      /\ toSpawn' = toSpawn
  BY DEF RssIInv, TypeOK, RecoveryInv, Busy, vars
<1>. USE DEF RssIInv, RssTypeOK, Remembers
<1>2. CASE BeginPoll  BY <1>1, <1>2 DEF BeginPoll
<1>3. ASSUME NEW f \in Feeds, Get(f) PROVE RssIInv'
  BY <1>1, <1>3 DEF Get
<1>4. ASSUME NEW m \in Magnets, SkipRemembered(m) \/ Refused(m) PROVE RssIInv'
  BY <1>1, <1>4 DEF SkipRemembered, Refused
<1>5. ASSUME NEW m \in Magnets, AddItem(m) PROVE RssIInv'
  <2>1. pc'[Rss] # "idle" /\ rssAt = "items"
    BY <1>5, FeedAssumption DEF AddItem, Register, Take, TypeOK, Procs
  <2>. QED  BY <1>1, <2>1 DEF Busy
<1>6. CASE ItemReturns
  <2>1. CASE failed  BY <1>1, <1>6, <2>1, SomeMagnetType DEF ItemReturns, Busy
  <2>2. CASE ~failed
    <3>1. /\ added'[item] = added[item] + 1 /\ added' \in [Magnets -> Nat]
          /\ \A m \in Magnets \ {item} : added'[m] = added[m]
          /\ remembered' = remembered \cup {item} /\ ever' = ever \cup {item} /\ changed' = TRUE
      BY <1>6, <2>2 DEF ItemReturns, Remember, Tally
    <3>2. RssTypeOK'  BY <1>1, <1>6, <3>1, SomeMagnetType DEF ItemReturns, Busy
    <3>3. Remembers'
      <4>1. added[item] = 0  BY <1>6 DEF ItemReturns
      <4>. QED  BY <1>6, <3>1, <4>1 DEF ItemReturns
    <3>. QED  BY <1>1, <1>6, <3>2, <3>3 DEF ItemReturns
  <2>. QED  BY <2>1, <2>2
<1>7. CASE EndFeed  BY <1>1, <1>7 DEF EndFeed, FeedDone
<1>8. CASE WriteHistory  BY <1>1, <1>8 DEF WriteHistory
<1>9. CASE EndRssPoll  BY <1>1, <1>9 DEF EndRssPoll
<1>10. CASE GetReturns  BY <1>1, <1>10, SomeFeedType, FeedAssumption DEF GetReturns
<1>. QED  BY <1>2, <1>3, <1>4, <1>5, <1>6, <1>7, <1>8, <1>9, <1>10 DEF RssPoll

\* A magnet that is not remembered is given to AddMagnet.
LEMMA AddItemRss == ASSUME RssIInv, NEW m \in Magnets, AddItem(m) PROVE RssIInv'
<1>1. /\ rssAt = "items" /\ rssAt' = "adding" /\ m \notin remembered
      /\ itemsLeft' = itemsLeft \ {m} /\ item' = m /\ failed' = FALSE
      /\ Register(Rss, "add", HashIn[m], NoSeed)
      /\ UNCHANGED <<feedsLeft, feed, changed, remembered, historyFile, added, ever>>
  BY DEF AddItem, tally
<1>2. HashIn[m] \in Hashes  BY FeedAssumption
<1>3. TypeOK' /\ RecoveryInv' /\ toSpawn' = {} /\ job'[Rss].hash = HashIn[m]
  BY <1>1, <1>2, DaemonAdds, FeedAssumption, ClientAssumption DEF RssIInv
<1>4. RssTypeOK'  BY <1>1, <1>3 DEF RssIInv, RssTypeOK
<1>5. Remembers'  BY <1>1 DEF RssIInv, Remembers
<1>. QED  BY <1>1, <1>3, <1>4, <1>5 DEF RssIInv

\* A new life of the process knows what the file holds, and may add the rest again.
LEMMA RestartRss == ASSUME RssIInv, RssRestart PROVE RssIInv'
<1>1. /\ Restart /\ rssAt' = "sleep" /\ feedsLeft' = {} /\ feed' = SomeFeed
      /\ itemsLeft' = {} /\ item' = SomeMagnet /\ failed' = FALSE /\ changed' = FALSE
      /\ remembered' = LoadedHistory(historyFile) /\ added' = [m \in Magnets |-> 0]
      /\ UNCHANGED <<historyFile, ever>>
  BY DEF RssRestart, RssRestartWith
<1>2. TypeOK' /\ RecoveryInv'  BY <1>1, NextType, NextRecovery DEF RssIInv, Next
<1>3. ~Busy(Rss)'  BY <1>1, FeedAssumption DEF Restart, Busy, Procs
<1>4. RssTypeOK'
  BY <1>1, <1>3, SomeFeedType, SomeMagnetType DEF RssIInv, RssTypeOK, LoadedHistory
<1>5. Remembers'
  BY <1>1 DEF RssIInv, RssTypeOK, Remembers, LoadedHistory
<1>. QED  BY <1>1, <1>2, <1>4, <1>5 DEF RssIInv

LEMMA NextRss == RssIInv /\ [RssNext]_rssAllVars => RssIInv'
<1>. SUFFICES ASSUME RssIInv, [RssNext]_rssAllVars PROVE RssIInv'  OBVIOUS
<1>1. CASE RssPoll \/ GetReturns
  <2>1. UNCHANGED vars \/ \E m \in Magnets : AddItem(m)
    BY <1>1 DEF RssPoll, BeginPoll, Get, GetReturns, SkipRemembered, Refused, ItemReturns, EndFeed,
      WriteHistory, EndRssPoll
  <2>. QED  BY <1>1, <2>1, PollRss, AddItemRss
<1>2. CASE UNCHANGED rssAllVars
  BY <1>2 DEF rssAllVars, vars, rssVars, RssIInv, TypeOK, RecoveryInv, Busy, RssTypeOK, Remembers
<1>. QED  BY <1>1, <1>2, ClientStepRss, RestartRss DEF RssNext

LEMMA InitRss == RssInit => RssIInv
<1>. SUFFICES ASSUME RssInit PROVE RssIInv  OBVIOUS
<1>1. TypeOK  BY InitType DEF RssInit
<1>2. RecoveryInv /\ ~Busy(Rss)
  BY FeedAssumption DEF RssInit, Init, Boot, RecoveryInv, Busy, Procs, Persisted
<1>3. RssTypeOK  BY <1>2, SomeFeedType, SomeMagnetType DEF RssInit, RssTypeOK, LoadedHistory
<1>4. Remembers  BY DEF RssInit, Remembers, LoadedHistory
<1>. QED  BY <1>1, <1>2, <1>3, <1>4 DEF RssInit, RssIInv

LEMMA ReaderInvariant == RssSpec => []RssIInv
BY InitRss, NextRss, PTL DEF RssSpec

\* Only magnets that were added are remembered, and a magnet -- a text, not the torrent it
\* names -- is added once per life of the process, whichever feeds list it.
THEOREM RssCorrect == RssSpec => []RssInv
<1>1. RssIInv => RssInv
  <2>. SUFFICES ASSUME RssIInv PROVE RssInv  OBVIOUS
  <2>1. OnlyAddedRemembered
    BY DEF RssIInv, Remembers, OnlyAddedRemembered, LoadedHistory
  <2>2. AddedOncePerLife
    <3>1. ASSUME NEW m \in Magnets PROVE added[m] <= 1
      BY DEF RssIInv, Remembers, RssTypeOK
    <3>. QED  BY <3>1 DEF AddedOncePerLife
  <2>. QED  BY <2>1, <2>2 DEF RssIInv, RssInv
<1>. QED  BY <1>1, ReaderInvariant, PTL

\* What rss_history.json holds is not added again, in this life or a later one.
THEOREM HistoryCorrect == RssSpec => SavedNotReadded
<1>. DEFINE NotReadded ==
       \A m \in Magnets : added'[m] > added[m] => m \notin LoadedHistory(historyFile)
<1>1. ASSUME RssIInv, ItemReturns PROVE NotReadded
  <2>1. item \in Magnets /\ item \notin LoadedHistory(historyFile)
    BY <1>1 DEF ItemReturns, RssIInv, RssTypeOK, Remembers, LoadedHistory
  <2>2. \A m \in Magnets \ {item} : added'[m] = added[m] /\ added[m] \in Nat
    BY <1>1 DEF ItemReturns, Tally, tally, RssIInv, RssTypeOK
  <2>. QED  BY <2>1, <2>2
<1>2. ASSUME RssIInv, UNCHANGED added PROVE NotReadded
  BY <1>2 DEF RssIInv, RssTypeOK
<1>3. ASSUME RssIInv, RssRestart PROVE NotReadded
  BY <1>3 DEF RssRestart, RssRestartWith, RssIInv, RssTypeOK
<1>4. [RssNext]_rssAllVars => UNCHANGED added \/ ItemReturns \/ RssRestart
  BY DEF RssNext, RssClientStep, RssFollow, RssPoll, BeginPoll, Get, GetReturns, SkipRemembered,
    Refused, AddItem, EndFeed, WriteHistory, EndRssPoll, rssAllVars, rssVars, tally
<1>5. RssIInv /\ [RssNext]_rssAllVars => [NotReadded]_rssAllVars  BY <1>1, <1>2, <1>3, <1>4
<1>. QED  BY <1>5, ReaderInvariant, PTL DEF RssSpec, SavedNotReadded

LEMMA ReaderMoves == RssIInv /\ [RssNext]_rssAllVars => Moves
<1>. SUFFICES ASSUME RssIInv, [RssNext]_rssAllVars PROVE Moves  OBVIOUS
<1>. Rss \in Daemons  BY FeedAssumption
<1>1. ASSUME NEW m \in Magnets, AddItem(m) PROVE Moves
  <2>1. Register(Rss, "add", HashIn[m], NoSeed) /\ toSpawn = {} /\ toSpawn' = {} /\ ~Busy(Rss)
    BY <1>1 DEF AddItem, Register, RssIInv, RssTypeOK
  <2>2. HashIn[m] \in Hashes /\ NoSeed \in SeedTimes  BY FeedAssumption, ClientAssumption
  <2>. QED  BY <2>1, <2>2 DEF Moves, DaemonStep, Adds
<1>2. CASE (RssPoll \/ GetReturns) /\ ~\E m \in Magnets : AddItem(m)
  <2>1. UNCHANGED vars
    BY <1>2 DEF RssPoll, BeginPoll, Get, GetReturns, SkipRemembered, Refused, ItemReturns, EndFeed,
      WriteHistory, EndRssPoll
  <2>. QED  BY <2>1 DEF Moves
<1>3. CASE RssClientStep  BY <1>3, LoopEnds DEF RssClientStep, Moves
<1>. QED  BY <1>1, <1>2, <1>3 DEF RssNext, RssRestart, RssRestartWith, Moves, Next, rssAllVars

\* With the feed reader, too, the client keeps all that it keeps without.
THEOREM ReaderKeepsClient ==
  RssSpec => /\ [](ClientInv /\ SavedWhenQuiet /\ Agreement)
             /\ RecoveryRestores /\ ImplementsRegistry
<1>1. RssInit => ClientIInv /\ Abstract!Init  BY InitClient DEF RssInit
<1>2. RssIInv /\ [RssNext]_rssAllVars => Moves  BY ReaderMoves
<1>3. ClientIInv /\ Moves => ClientIInv' /\ [Restores]_vars /\ [Abstract!Next]_(Abstract!registry)
  BY ClientMoves, MovesRestore
<1>4. ClientIInv => ClientInv /\ SavedWhenQuiet /\ Agreement
  BY Agrees DEF ClientIInv, ClientInv
<1>. QED
  BY <1>1, <1>2, <1>3, <1>4, ReaderInvariant, PTL
  DEF RssSpec, RecoveryRestores, Restores, ImplementsRegistry, Abstract!Spec

-----------------------------------------------------------------------------
(* PostProcessor: the script of the user runs once per torrent in each life *)
(* of the process.                                                          *)

\* A torrent that is not recorded as processed has had its script run only in earlier lives,
\* unless it is the one at hand, between the start of its script and its record.  What is
\* in the file is in memory, and both have had their script run.
AtHand(h) == ppAt \in {"script", "mark"} /\ h = ppHash
RunsRecorded ==
  /\ ppAt \in {"stamp", "script", "mark"} => ppHash \notin processed
  /\ ppAt \in {"script", "mark"} => ppHash \in ran
  /\ LoadedProcessed(procFile) \subseteq processed /\ processed \subseteq ran
  /\ \A h \in Hashes : runs[h] <= IF h \in processed \/ AtHand(h) THEN 1 ELSE 0

PPIInv ==
  /\ TypeOK /\ RecoveryInv
  /\ ppAt # "sleep" => toSpawn = {}
  /\ PPTypeOK /\ RunsRecorded

\* The stamp stores an entry, or finds nothing to do.
LEMMA StampKeeps == ASSUME PPIInv, Stamp, UNCHANGED ppVars PROVE PPIInv'
<1>. PP \in Procs /\ PP \notin Hashes  BY PostProcessorAssumption, ClientAssumption DEF Procs
<1>1. pc[PP] = "enter" /\ Busy(PP) /\ ppAt = "stamp" /\ toSpawn = {} /\ job[PP].hash \in Hashes
  BY DEF Stamp, Enter, Busy, PPIInv, PPTypeOK, TypeOK, Job
<1>2. CASE Unstamped(job[PP].hash)
  <2>. DEFINE e == [stateData[job[PP].hash] EXCEPT !.done = TRUE]
  <2>1. e \in Entry
    <3>1. stateData[job[PP].hash] \in Entry  BY <1>1, <1>2 DEF Unstamped, PPIInv, TypeOK, Registry
    <3>. QED  BY <3>1 DEF Entry
  <2>2. Commit(PP, e)  BY <1>2 DEF Stamp
  <2>. HIDE DEF e
  <2>3. TypeOK'  BY <2>1, <2>2, CommitType DEF PPIInv
  <2>4. pc' = [pc EXCEPT ![PP] = "save"] /\ UNCHANGED <<job, toSpawn, crashes>>  BY <2>2 DEF Commit
  <2>5. RecoveryInv'  BY <1>1, <2>4 DEF PPIInv, TypeOK, RecoveryInv, Busy
  <2>. QED  BY <1>1, <2>3, <2>4, <2>5 DEF PPIInv, PPTypeOK, RunsRecorded, AtHand, ppVars, Busy
<1>3. CASE ~Unstamped(job[PP].hash)
  <2>1. /\ pc' = [pc EXCEPT ![PP] = "idle"] /\ job' = [job EXCEPT ![PP] = IdleJob]
        /\ UNCHANGED <<stateMu, stateData, file, saveOk, active, gotInfo, toSpawn, handle, crashes, raced>>
    BY <1>3 DEF Stamp, LeaveUnchanged, Finish
  <2>2. TypeOK' /\ RecoveryInv'
    BY <1>1, <2>1, IdleJobType DEF PPIInv, TypeOK, RecoveryInv, Busy, PCs
  <2>. QED  BY <2>1, <2>2 DEF PPIInv, PPTypeOK, TypeOK, RunsRecorded, AtHand, ppVars, Busy
<1>. QED  BY <1>2, <1>3

\* The goroutines of the client leave the post-processor's records alone, and it in its place.
LEMMA ClientStepPP == ASSUME PPIInv, PPClientStep PROVE PPIInv'
<1>1. CASE ~Stamp
  <2>1. [Next]_vars /\ (toSpawn = {} => toSpawn' = {}) /\ crashes' = crashes
    BY <1>1, LoopEnds DEF PPClientStep
  <2>2. UNCHANGED ppVars  BY DEF PPClientStep
  <2>3. TypeOK' /\ RecoveryInv'  BY <2>1, NextType, NextRecovery DEF PPIInv
  <2>4. Busy(PP)' => Busy(PP) /\ job'[PP] = job[PP]
    BY <2>1, DaemonsKeepTheirWork, PostProcessorAssumption DEF PPIInv
  <2>. QED  BY <2>1, <2>2, <2>3, <2>4 DEF PPIInv, PPTypeOK, RunsRecorded, AtHand, ppVars
<1>2. CASE Stamp  BY <1>2, StampKeeps DEF PPClientStep
<1>. QED  BY <1>1, <1>2

\* The steps that leave the client alone: a round, and the end of a download.
LEMMA RoundPP ==
  ASSUME PPIInv, Round \/ ScriptReturns \/ \E h \in Hashes : DownloadEnds(h), UNCHANGED vars
  PROVE  PPIInv'
<1>1. /\ TypeOK' /\ RecoveryInv' /\ (Busy(PP)' <=> Busy(PP)) /\ job' = job
      /\ toSpawn' = toSpawn /\ crashes' = crashes /\ crashes \in Nat
      /\ active \subseteq Hashes /\ gotInfo \subseteq Hashes
  BY DEF PPIInv, TypeOK, RecoveryInv, Busy, vars
<1>. USE DEF PPIInv, PPTypeOK, RunsRecorded, AtHand
<1>2. CASE Tick  BY <1>1, <1>2 DEF Tick
<1>3. ASSUME NEW h \in Hashes, Skip(h) PROVE PPIInv'  BY <1>1, <1>3 DEF Skip
<1>4. ASSUME NEW h \in Hashes, Consider(h) PROVE PPIInv'
  <2>1. pc'[PP] = "enter" /\ ppAt = "loop"
    BY <1>4, PostProcessorAssumption DEF Consider, Take, TypeOK, Procs
  <2>. QED  BY <1>1, <2>1 DEF Busy
<1>5. CASE RunScript
  <2>0. /\ ppAt = "stamp" /\ ppAt' = "script" /\ ran' = ran \cup {ppHash} /\ pc[PP] = "idle"
        /\ UNCHANGED <<ppList, ppKnown, ppHash, processed, procFile, downloaded>>
    BY <1>5 DEF RunScript
  <2>1. /\ runs'[ppHash] = runs[ppHash] + 1 /\ runs' \in [Hashes -> Nat]
        /\ \A h \in Hashes \ {ppHash} : runs'[h] = runs[h]
    BY <1>5 DEF RunScript
  <2>2. PPTypeOK'  BY <1>1, <2>0, <2>1 DEF Busy
  <2>3. runs[ppHash] = 0  BY <2>0
  <2>4. RunsRecorded'  BY <1>1, <2>0, <2>1, <2>3
  <2>. QED  BY <1>1, <2>0, <2>2, <2>4
<1>6. CASE Mark  BY <1>1, <1>6 DEF Mark, LoadedProcessed
<1>7. CASE WriteProcessed  BY <1>1, <1>7 DEF WriteProcessed, LoadedProcessed
<1>8. CASE EndRound
  <2>1. IdleJob.hash \in Hashes  BY IdleJobType DEF Job
  <2>. QED  BY <1>1, <1>8, <2>1 DEF EndRound
<1>9. ASSUME NEW h \in Hashes, DownloadEnds(h) PROVE PPIInv'  BY <1>1, <1>9 DEF DownloadEnds
<1>10. CASE ScriptReturns  BY <1>1, <1>10 DEF ScriptReturns
<1>. QED  BY <1>2, <1>3, <1>4, <1>5, <1>6, <1>7, <1>8, <1>9, <1>10 DEF Round

\* A torrent that is not recorded is taken up, and goes to its stamp.
LEMMA ConsiderPP == ASSUME PPIInv, NEW h \in Hashes, Consider(h) PROVE PPIInv'
<1>. PP \in Procs /\ PP \notin Hashes  BY PostProcessorAssumption, ClientAssumption DEF Procs
<1>1. /\ ppAt = "loop" /\ ppAt' = "stamp" /\ ppHash' = h /\ ppList' = ppList \ {h} /\ h \notin processed
      /\ job' = [job EXCEPT ![PP] = [op |-> "stamp", hash |-> h, seed |-> NoSeed]]
      /\ pc' = [pc EXCEPT ![PP] = "enter"]
      /\ UNCHANGED <<stateMu, stateData, file, saveOk, active, gotInfo, toSpawn, handle, crashes, raced,
                     ppKnown, processed, procFile, downloaded, runs, ran>>
  BY DEF Consider, Take, Due, scripts
<1>2. [op |-> "stamp", hash |-> h, seed |-> NoSeed] \in Job  BY ClientAssumption DEF Job, Ops
<1>3. TypeOK' /\ RecoveryInv'
  BY <1>1, <1>2 DEF PPIInv, TypeOK, RecoveryInv, Busy, PCs
<1>4. job'[PP].op = "stamp" /\ job'[PP].hash = h  BY <1>1 DEF PPIInv, TypeOK
<1>5. PPTypeOK'  BY <1>1, <1>4 DEF PPIInv, PPTypeOK
<1>. QED  BY <1>1, <1>3, <1>5 DEF PPIInv, RunsRecorded, AtHand

\* A new life of the process knows what the file holds, and may run the script of the rest.
LEMMA RestartPP == ASSUME PPIInv, PPRestart PROVE PPIInv'
<1>1. /\ Restart /\ ppAt' = "sleep" /\ ppList' = {} /\ ppKnown' = {} /\ ppHash' = IdleJob.hash
      /\ processed' = LoadedProcessed(procFile) /\ runs' = [h \in Hashes |-> 0]
      /\ UNCHANGED <<procFile, downloaded, ran>>
  BY DEF PPRestart, PPRestartWith
<1>2. TypeOK' /\ RecoveryInv'  BY <1>1, NextType, NextRecovery DEF PPIInv, Next
<1>3. ~Busy(PP)'  BY <1>1, PostProcessorAssumption DEF Restart, Busy, Procs
<1>4. IdleJob.hash \in Hashes  BY IdleJobType DEF Job
<1>5. PPTypeOK'  BY <1>1, <1>3, <1>4 DEF PPIInv, PPTypeOK, LoadedProcessed
<1>6. RunsRecorded'
  BY <1>1 DEF PPIInv, PPTypeOK, RunsRecorded, AtHand, LoadedProcessed
<1>. QED  BY <1>1, <1>2, <1>5, <1>6 DEF PPIInv

LEMMA NextPP == PPIInv /\ [PPNext]_ppAllVars => PPIInv'
<1>. SUFFICES ASSUME PPIInv, [PPNext]_ppAllVars PROVE PPIInv'  OBVIOUS
<1>1. CASE Round
  <2>1. UNCHANGED vars \/ \E h \in Hashes : Consider(h)
    BY <1>1 DEF Round, Tick, Skip, RunScript, Mark, WriteProcessed, EndRound
  <2>. QED  BY <1>1, <2>1, RoundPP, ConsiderPP
<1>4. CASE ScriptReturns  BY <1>4, RoundPP DEF ScriptReturns
<1>2. ASSUME NEW h \in Hashes, DownloadEnds(h) PROVE PPIInv'  BY <1>2, RoundPP DEF DownloadEnds
<1>3. CASE UNCHANGED ppAllVars
  BY <1>3 DEF ppAllVars, vars, ppVars, PPIInv, TypeOK, RecoveryInv, Busy, PPTypeOK, RunsRecorded,
    AtHand
<1>. QED  BY <1>1, <1>2, <1>3, <1>4, ClientStepPP, RestartPP DEF PPNext

LEMMA InitPP == PPInit => PPIInv
<1>. SUFFICES ASSUME PPInit PROVE PPIInv  OBVIOUS
<1>1. TypeOK  BY InitType DEF PPInit
<1>2. RecoveryInv /\ ~Busy(PP) /\ IdleJob.hash \in Hashes
  BY PostProcessorAssumption, IdleJobType
  DEF PPInit, Init, Boot, RecoveryInv, Busy, Procs, Persisted, Job
<1>3. PPTypeOK /\ RunsRecorded
  BY <1>2 DEF PPInit, PPTypeOK, RunsRecorded, AtHand, LoadedProcessed
<1>. QED  BY <1>1, <1>2, <1>3 DEF PPInit, PPIInv

LEMMA PPInvariant == PPSpec => []PPIInv
BY InitPP, NextPP, PTL DEF PPSpec

\* However often a torrent is stopped and added again, its script runs at most once in one
\* life of the process, and it is recorded as processed only after that run.
THEOREM ProcessedOnce == PPSpec => []PPInv
<1>1. PPIInv => PPInv
  <2>. SUFFICES ASSUME PPIInv PROVE PPInv  OBVIOUS
  <2>1. OncePerLife
    <3>1. ASSUME NEW h \in Hashes PROVE runs[h] <= 1
      BY DEF PPIInv, RunsRecorded, PPTypeOK
    <3>. QED  BY <3>1 DEF OncePerLife
  <2>2. OnlyRunRecorded  BY DEF PPIInv, RunsRecorded, OnlyRunRecorded
  <2>. QED  BY <2>1, <2>2 DEF PPIInv, PPInv
<1>. QED  BY <1>1, PPInvariant, PTL

\* Across lives of the process, what gorrent_processed.json holds at the time decides: no
\* torrent that is in it has its script run again.
THEOREM ProcessedStays == PPSpec => SavedNotRerun
<1>. DEFINE NotRerun ==
       \A h \in Hashes : runs'[h] > runs[h] => h \notin LoadedProcessed(procFile)
<1>1. ASSUME PPIInv, RunScript PROVE NotRerun
  <2>1. ppHash \notin LoadedProcessed(procFile)
    BY <1>1 DEF RunScript, PPIInv, RunsRecorded
  <2>2. \A h \in Hashes \ {ppHash} : runs'[h] = runs[h] /\ runs[h] \in Nat
    BY <1>1 DEF RunScript, PPIInv, PPTypeOK
  <2>. QED  BY <2>1, <2>2
<1>2. ASSUME PPIInv, UNCHANGED runs PROVE NotRerun
  BY <1>2 DEF PPIInv, PPTypeOK
<1>3. ASSUME PPIInv, PPRestart PROVE NotRerun
  BY <1>3 DEF PPRestart, PPRestartWith, PPIInv, PPTypeOK
<1>4. [PPNext]_ppAllVars => UNCHANGED runs \/ RunScript \/ PPRestart
  BY DEF PPNext, PPClientStep, Round, Tick, Skip, Consider, ScriptReturns, Mark, WriteProcessed,
    EndRound, DownloadEnds, ppAllVars, ppVars, scripts
<1>5. PPIInv /\ [PPNext]_ppAllVars => [NotRerun]_ppAllVars  BY <1>1, <1>2, <1>3, <1>4
<1>. QED  BY <1>5, PPInvariant, PTL DEF PPSpec, SavedNotRerun

LEMMA PPMoves == PPIInv /\ [PPNext]_ppAllVars => Moves
<1>. SUFFICES ASSUME PPIInv, [PPNext]_ppAllVars PROVE Moves  OBVIOUS
<1>. PP \in Daemons  BY PostProcessorAssumption
<1>1. ASSUME NEW h \in Hashes, Consider(h) PROVE Moves
  <2>1. toSpawn = {} /\ toSpawn' = {} /\ ~Busy(PP)
    BY <1>1 DEF Consider, PPIInv, PPTypeOK
  <2>2. TakesUpStamp(PP)  BY <1>1, <2>1 DEF Consider, TakesUpStamp
  <2>. QED  BY <2>1, <2>2 DEF Moves, DaemonStep
<1>2. CASE Stamp
  <2>1. toSpawn = {} /\ toSpawn' = {}
    BY <1>2 DEF Stamp, Enter, Busy, Commit, LeaveUnchanged, PPIInv, PPTypeOK
  <2>2. Stamps(PP)  BY <1>2 DEF Stamp, Stamps, Old, Unstamped
  <2>. QED  BY <2>1, <2>2 DEF Moves, DaemonStep
<1>3. CASE (Round \/ ScriptReturns) /\ ~\E h \in Hashes : Consider(h)
  <2>1. UNCHANGED vars
    BY <1>3 DEF Round, Tick, Skip, RunScript, ScriptReturns, Mark, WriteProcessed, EndRound
  <2>. QED  BY <2>1 DEF Moves
<1>4. CASE PPClientStep /\ ~Stamp  BY <1>4, LoopEnds DEF PPClientStep, Moves
<1>. QED
  BY <1>1, <1>2, <1>3, <1>4
  DEF PPNext, PPClientStep, DownloadEnds, PPRestart, PPRestartWith, Moves, Next, ppAllVars

\* With the post-processor, too, the client keeps all that it keeps without.
THEOREM PostProcessorKeepsClient ==
  PPSpec => /\ [](ClientInv /\ SavedWhenQuiet /\ Agreement)
            /\ RecoveryRestores /\ ImplementsRegistry
<1>1. PPInit => ClientIInv /\ Abstract!Init  BY InitClient DEF PPInit
<1>2. PPIInv /\ [PPNext]_ppAllVars => Moves  BY PPMoves
<1>3. ClientIInv /\ Moves => ClientIInv' /\ [Restores]_vars /\ [Abstract!Next]_(Abstract!registry)
  BY ClientMoves, MovesRestore
<1>4. ClientIInv => ClientInv /\ SavedWhenQuiet /\ Agreement
  BY Agrees DEF ClientIInv, ClientInv
<1>. QED
  BY <1>1, <1>2, <1>3, <1>4, PPInvariant, PTL
  DEF PPSpec, RecoveryRestores, Restores, ImplementsRegistry, Abstract!Spec

-----------------------------------------------------------------------------
(* Collector: files are deleted only when nothing brings the torrent back.  *)

\* The collector works for the registry only to forget the torrent that it is dropping.
GCPlaces ==
  /\ gcAt # "sleep" => toSpawn = {}
  /\ Busy(GC) => /\ gcAt = "forget" /\ job[GC].op = "collect" /\ job[GC].hash = gcHash
                 /\ pc[GC] \in {"drop", "enter", "save", "write"}

\* As long as nobody else works on that torrent: it leaves the library first, then the
\* registry, then the file, and stays away.
Dropping ==
  gcAt = "forget" /\ ~disturbed =>
    /\ Others(gcHash) = {}
    /\ pc[GC] = "drop" => handle[GC] = "live"
    /\ pc[GC] # "drop" => gcHash \notin active
    /\ pc[GC] \in {"save", "write", "idle"} => stateData[gcHash] = None
    /\ pc[GC] = "idle" /\ saveOk => Loaded(file)[gcHash] = None

GCIInv == ClientIInv /\ GCTypeOK /\ GCPlaces /\ Dropping

\* What the other goroutines do while the collector is dropping a torrent does not concern
\* that torrent.
LEMMA StepElsewhere ==
  ASSUME GCIInv, gcAt = "forget", ~disturbed, NEW p \in Procs \ {GC}, Step(p)
  PROVE  /\ pc'[GC] = pc[GC] /\ (Busy(GC) => handle'[GC] = handle[GC])
         /\ gcHash \in active' <=> gcHash \in active
         /\ stateData'[gcHash] = stateData[gcHash]
<1>. USE DEF GCIInv, ClientIInv
<1>. GC \in Procs /\ gcHash \in Hashes  BY CollectorAssumption, DaemonProc DEF GCTypeOK
<1>1. Busy(p) /\ (job[p].op # "status" => job[p].hash # gcHash)
  BY BusyStep DEF Dropping, Others, WorkingOn
<1>2. CASE job[p].op \notin Harmless
  <2>1. PICK k \in Hashes : AtWork(p, k) /\ k = job[p].hash  BY <1>1, <1>2 DEF AtWork, TypeOK, Job
  <2>2. k # gcHash  BY <1>1, <1>2, <2>1
  <2>3. Confined(p, k)
    BY <2>1, WaitingGoesOn, SectionGoesOn, SavingGoesOn DEF Step, WorkGoesOn
  <2>4. Busy(GC) => job[GC].hash # k  BY <2>2 DEF GCPlaces
  <2>. QED  BY <2>2, <2>3, <2>4 DEF Confined
<1>3. CASE job[p].op \in Harmless
  <2>1. StatusRead(p) \/ Saving(p)  BY <1>1, <1>3, HarmlessStep
  <2>. QED
    BY <2>1 DEF StatusRead, LeaveUnchanged, Saving, SaveState, OpenFails, WriteDone, WriteFails,
      Unlock, Finish, TypeOK
<1>. QED  BY <1>2, <1>3

LEMMA ClientElsewhere ==
  ASSUME GCIInv, gcAt = "forget", ~disturbed, gcHash' = gcHash, Others(gcHash)' = {},
         \/ \E h \in Hashes : InfoArrives(h) \/ Spawn(h) \/ BootAdd(h)
         \/ \E w \in Workers : Request(w)
         \/ \E p \in Procs \ {GC} : Step(p)
  PROVE  /\ pc'[GC] = pc[GC] /\ (Busy(GC) => handle'[GC] = handle[GC])
         /\ gcHash \in active' <=> gcHash \in active
         /\ stateData'[gcHash] = stateData[gcHash]
<1>. USE DEF GCIInv, ClientIInv
<1>. GC \in Procs /\ GC \notin Hashes /\ GC \notin Workers /\ gcHash \in Hashes
  BY CollectorAssumption, ClientAssumption, DaemonProc DEF GCTypeOK
<1>1. toSpawn = {} /\ Others(gcHash) = {}  BY DEF GCPlaces, Dropping
<1>2. ASSUME NEW h \in Hashes, InfoArrives(h) \/ Spawn(h) \/ BootAdd(h)
      PROVE  /\ pc'[GC] = pc[GC] /\ handle'[GC] = handle[GC]
             /\ gcHash \in active' <=> gcHash \in active
             /\ stateData'[gcHash] = stateData[gcHash]
  <2>1. CASE InfoArrives(h)  BY <2>1 DEF InfoArrives
  <2>2. CASE BootAdd(h)
    <3>1. h \in Procs /\ Busy(h) /\ job[h].hash = h /\ job[h].op = "add"
      BY <2>2 DEF BootAdd, Busy, RecoveryInv, Procs
    <3>2. h # gcHash  BY <1>1, <3>1 DEF Others, WorkingOn
    <3>. QED  BY <2>2, <3>2 DEF BootAdd, Register, Take, TypeOK
  <2>. QED  BY <1>1, <1>2, <2>1, <2>2 DEF Spawn
<1>3. ASSUME NEW w \in Workers, Request(w)
      PROVE  /\ pc'[GC] = pc[GC] /\ handle'[GC] = handle[GC]
             /\ gcHash \in active' <=> gcHash \in active
             /\ stateData'[gcHash] = stateData[gcHash]
  <2>. w \in Procs  BY DEF Procs
  <2>1. job'[w].hash # gcHash \/ job'[w].op = "status"
    <3>1. Busy(w)'
      BY <1>3 DEF Request, BeginStatus, BeginStop, BeginSet, BeginAdd, BeginSeed, Register, Take,
        Busy, TypeOK
    <3>. QED  BY <3>1 DEF Others, WorkingOn
  <2>2. CASE BeginStatus(w)  BY <2>2 DEF BeginStatus, Take, TypeOK
  <2>3. ASSUME NEW h \in Hashes, BeginStop(w, h)
        PROVE  pc'[GC] = pc[GC] /\ handle'[GC] = handle[GC] /\ active' = active /\ stateData' = stateData
    BY <2>3 DEF BeginStop, Take, TypeOK
  <2>4. ASSUME NEW h \in Hashes, NEW s \in SeedTimes, BeginSet(w, h, s)
        PROVE  pc'[GC] = pc[GC] /\ handle'[GC] = handle[GC] /\ active' = active /\ stateData' = stateData
    BY <2>4 DEF BeginSet, Take, TypeOK
  <2>5. ASSUME NEW h \in Hashes, NEW s \in SeedTimes, BeginAdd(w, h, s) \/ BeginSeed(w, h, s)
        PROVE  /\ pc'[GC] = pc[GC] /\ handle'[GC] = handle[GC]
               /\ gcHash \in active' <=> gcHash \in active
               /\ stateData' = stateData
    BY <2>1, <2>5 DEF BeginAdd, BeginSeed, Register, Take, TypeOK
  <2>. QED  BY <1>3, <2>2, <2>3, <2>4, <2>5 DEF Request
<1>. QED  BY <1>2, <1>3, StepElsewhere

\* The collector's own steps in the client: it drops the torrent, and saves its section.
LEMMA CollectorsStep ==
  ASSUME GCIInv, Step(GC)
  PROVE  StopDrop(GC) \/ Saving(GC)
<1>1. Busy(GC)  BY BusyStep, CollectorAssumption, DaemonProc
<1>. QED
  BY <1>1 DEF GCIInv, GCPlaces, Step, Waiting, Section, MetadataArrived, MetadataTimeout, GiveUp,
    StoreAdded, StoreSeeded, StoreSeedTime, SeedTimeRefused, DeleteEntry, StatusRead, Enter

\* A save that ends well has written a registry without the torrent.
LEMMA FileForgets ==
  ASSUME TypeOK, OneKind, ~Restart, NEW h \in Hashes, stateData[h] = None, saveOk',
         saveOk => Loaded(file)[h] = None
  PROVE  Loaded(file')[h] = None
<1>1. CASE Bystands \/ \E p \in Procs : Opens(p)  BY <1>1 DEF Bystands, Opens
<1>2. ASSUME NEW p \in Procs, Proceeds(p) PROVE Loaded(file')[h] = None
  BY <1>2 DEF Proceeds, Loaded, EmptyRegistry
<1>3. ASSUME NEW p \in Procs, Closes(p) PROVE Loaded(file')[h] = None
  BY <1>3, ClientAssumption DEF Closes, Loaded, TypeOK
<1>. QED  BY <1>1, <1>2, <1>3 DEF OneKind

\* The collector takes the next step of its drop.
LEMMA DropGoesOn ==
  ASSUME GCIInv, gcAt = "forget", ~disturbed, Step(GC) \/ CollectEntry, UNCHANGED <<gcAt, gcHash>>
  PROVE  /\ Busy(GC)' => pc'[GC] \in {"drop", "enter", "save", "write"}
         /\ pc'[GC] # "drop"
         /\ gcHash \notin active'
         /\ pc'[GC] \in {"save", "write", "idle"} => stateData'[gcHash] = None
         /\ pc'[GC] = "idle" /\ saveOk' => Loaded(file')[gcHash] = None
<1>. USE DEF GCIInv, ClientIInv
<1>. GC \in Procs /\ gcHash \in Hashes  BY CollectorAssumption, DaemonProc DEF GCTypeOK
<1>1. Busy(GC) /\ job[GC].hash = gcHash
  BY BusyStep DEF CollectEntry, Enter, Busy, GCPlaces
<1>2. CASE StopDrop(GC)
  <2>1. pc[GC] = "drop" /\ pc'[GC] = "enter" /\ handle[GC] = "live" /\ DropHandle(GC)
    BY <1>2 DEF StopDrop, Dropping, TypeOK
  <2>. QED  BY <1>1, <2>1 DEF DropHandle, Busy
<1>3. CASE CollectEntry
  BY <1>1, <1>3 DEF CollectEntry, Enter, Commit, Dropping, TypeOK, Registry, Busy
<1>4. CASE Saving(GC)
  <2>1. pc[GC] \in {"save", "write"} /\ stateData' = stateData /\ active' = active
        /\ pc'[GC] \in {"write", "idle"}
    BY <1>4 DEF Saving, SaveState, OpenFails, WriteDone, WriteFails, Unlock, Finish, TypeOK
  <2>2. pc'[GC] = "idle" /\ saveOk' => file' = stateData
    BY <1>4 DEF Saving, SaveState, OpenFails, WriteDone, WriteFails, Unlock, Finish, TypeOK
  <2>. QED  BY <2>1, <2>2, ClientAssumption DEF Dropping, Loaded, TypeOK, Busy
<1>. QED  BY <1>2, <1>3, <1>4, CollectorsStep

LEMMA ClientStepGC == ASSUME GCIInv, GCClientStep PROVE GCIInv'
<1>. USE DEF GCIInv, ClientIInv
<1>. GC \in Daemons /\ GC \in Procs  BY CollectorAssumption, DaemonProc
<1>1. /\ complete' = complete \cap gotInfo'
      /\ stale' = stale \cup (gcList \cap (active \ active'))
      /\ frozen' = frozen \cup (((gcList \cap (active \ active')) \ stale) \cap complete)
      /\ UNCHANGED <<gcAt, snap, gcList, gcHash, files>>
      /\ disturbed' = (disturbed \/ (gcAt = "forget" /\ Others(gcHash)' # {}))
  BY DEF GCClientStep, GCFollow
<1>2. GCTypeOK'  BY <1>1 DEF GCTypeOK
<1>3. CASE CollectEntry
  <2>1. Busy(GC) /\ gcAt = "forget" /\ toSpawn = {} /\ toSpawn' = {}
    BY <1>3 DEF CollectEntry, Enter, Commit, Busy, GCPlaces
  <2>2. DaemonStep(GC)  BY <1>3, <2>1 DEF DaemonStep, Collects, CollectEntry
  <2>3. ClientIInv'  BY <2>2, ClientMoves DEF Moves
  <2>4. job' = job /\ pc' = [pc EXCEPT ![GC] = "save"] /\ Busy(GC)'
    BY <1>3 DEF CollectEntry, Commit, Busy, TypeOK
  <2>5. GCPlaces'  BY <1>1, <2>1, <2>4 DEF GCPlaces, TypeOK
  <2>6. ~disturbed' => Others(gcHash)' = {}  BY <1>1, <2>1
  <2>7. Dropping'  BY <1>1, <1>3, <2>1, <2>6, DropGoesOn DEF Dropping
  <2>. QED  BY <1>2, <2>3, <2>5, <2>7
<1>4. CASE ~CollectEntry
  <2>1. [Next]_vars /\ (toSpawn = {} => toSpawn' = {}) /\ crashes' = crashes
    BY <1>4, LoopEnds DEF GCClientStep
  <2>2. ClientIInv'  BY <2>1, ClientMoves DEF Moves
  <2>3. Busy(GC)' => Busy(GC) /\ job'[GC] = job[GC]  BY <2>1, DaemonsKeepTheirWork
  <2>4. Busy(GC)' => pc'[GC] \in {"drop", "enter", "save", "write"}
    <3>1. CASE Step(GC)
      BY <3>1, CollectorsStep DEF StopDrop, Saving, SaveState, OpenFails, WriteDone, WriteFails,
        Unlock, Finish, TypeOK, Busy
    <3>2. CASE ~Step(GC)
      <4>1. pc'[GC] = pc[GC]  BY <1>4, <3>2, OthersPlace DEF GCClientStep
      <4>. QED  BY <4>1 DEF GCPlaces, Busy
    <3>. QED  BY <3>1, <3>2
  <2>5. GCPlaces'  BY <1>1, <2>1, <2>3, <2>4 DEF GCPlaces
  <2>6. ASSUME gcAt' = "forget", ~disturbed' PROVE Dropping'
    <3>1. gcAt = "forget" /\ ~disturbed /\ Others(gcHash)' = {}  BY <1>1, <2>6
    <3>2. CASE Step(GC)  BY <1>1, <3>1, <3>2, DropGoesOn DEF Dropping
    <3>3. CASE ~Step(GC)
      <4>1. /\ pc'[GC] = pc[GC] /\ (Busy(GC) => handle'[GC] = handle[GC])
            /\ gcHash \in active' <=> gcHash \in active
            /\ stateData'[gcHash] = stateData[gcHash]
        BY <1>1, <1>4, <3>1, <3>3, ClientElsewhere DEF GCClientStep
      <4>2. ASSUME pc[GC] = "idle", saveOk' PROVE Loaded(file')[gcHash] = None
        <5>1. stateData[gcHash] = None /\ (saveOk => Loaded(file)[gcHash] = None) /\ gcHash \in Hashes
          BY <3>1, <4>2 DEF Dropping, GCTypeOK
        <5>2. ~Restart  BY <2>1 DEF Restart, TypeOK
        <5>3. OneKind  BY <2>1, StepKinds
        <5>. QED  BY <4>2, <5>1, <5>2, <5>3, FileForgets
      <4>. QED  BY <1>1, <3>1, <4>1, <4>2 DEF Dropping, Busy
    <3>. QED  BY <3>2, <3>3
  <2>. QED  BY <1>2, <2>2, <2>5, <2>6 DEF Dropping
<1>. QED  BY <1>3, <1>4

\* The collector takes up a torrent that nobody works on and that is the one it has listed; or
\* it knows that it has been disturbed.
LEMMA GCDropMoves ==
  ASSUME GCIInv, NEW h \in Hashes, GCDrop(h)
  PROVE  DaemonStep(GC) /\ ~Busy(GC) /\ gcAt' = "forget"
<1>1. ~Busy(GC) /\ toSpawn = {}  BY DEF GCDrop, GCIInv, GCPlaces
<1>2. /\ Take(GC, "collect", h, NoSeed, "drop")
      /\ handle' = [handle EXCEPT ![GC] = IF h \in stale THEN "dead" ELSE "live"]
      /\ disturbed' = (h \in stale \/ WorkingOn(h) # {})
      /\ raced' = IF disturbed' THEN raced \cup {h} ELSE raced
      /\ gcAt' = "forget"
      /\ UNCHANGED <<active, gotInfo, stateMu, stateData, file, saveOk, toSpawn, crashes>>
  BY DEF GCDrop
<1>3. TakesUpDrop(GC)
  <2>. DEFINE held == IF h \in stale THEN "dead" ELSE "live"
  <2>1. held \in {"live", "dead"}  OBVIOUS
  <2>2. /\ handle' = [handle EXCEPT ![GC] = held]
        /\ raced' = raced \/ raced' = raced \cup {h}
        /\ held = "dead" \/ WorkingOn(h) # {} => h \in raced'
    BY <1>2
  <2>. QED  BY <1>1, <1>2, <2>1, <2>2 DEF TakesUpDrop
<1>. QED  BY <1>1, <1>2, <1>3 DEF DaemonStep

LEMMA DropGC == ASSUME GCIInv, NEW h \in Hashes, GCDrop(h) PROVE GCIInv'
<1>. USE DEF GCIInv
<1>. GC \in Daemons /\ GC \in Procs  BY CollectorAssumption, DaemonProc
<1>1. DaemonStep(GC) /\ ~Busy(GC) /\ gcAt' = "forget"  BY GCDropMoves
<1>2. ClientIInv' /\ toSpawn' = {}  BY <1>1, ClientMoves DEF Moves, DaemonStep
<1>3. /\ pc' = [pc EXCEPT ![GC] = "drop"] /\ pc'[GC] = "drop"
      /\ job'[GC].op = "collect" /\ job'[GC].hash = h /\ \A q \in Procs \ {GC} : job'[q] = job[q]
      /\ handle'[GC] = IF h \in stale THEN "dead" ELSE "live"
      /\ gcHash' = h /\ gcList' = gcList \ {h}
      /\ disturbed' = (h \in stale \/ WorkingOn(h) # {})
      /\ UNCHANGED <<gotInfo, snap, stale, frozen, complete, files>>
  BY DEF GCDrop, Take, ClientIInv, TypeOK
<1>4. GCTypeOK'  BY <1>1, <1>3 DEF GCTypeOK
<1>5. GCPlaces'  BY <1>1, <1>2, <1>3 DEF GCPlaces
<1>6. ~disturbed' => Others(gcHash)' = {}
  BY <1>1, <1>3 DEF Others, WorkingOn, Busy, ClientIInv, TypeOK
<1>7. Dropping'  BY <1>3, <1>6 DEF Dropping
<1>. QED  BY <1>2, <1>4, <1>5, <1>7

\* The steps of a pass that leave the client alone, and the end of a download.
LEMMA PassGC ==
  ASSUME GCIInv, UNCHANGED vars,
         \/ Copy \/ List \/ RemoveFiles \/ EndPass
         \/ \E h \in Hashes : Keep(h) \/ Completes(h)
  PROVE  GCIInv'
<1>1. ClientIInv'  BY ClientMoves DEF GCIInv, Moves
<1>2. /\ UNCHANGED <<stateData, file, saveOk, active, gotInfo, toSpawn, pc, job, handle>>
      /\ stateData \in Registry /\ active \subseteq Hashes /\ gotInfo \subseteq Hashes
      /\ (Busy(GC)' <=> Busy(GC))
      /\ Others(gcHash)' = {q \in Procs : Busy(q) /\ job[q].op # "status" /\ job[q].hash = gcHash'} \ {GC}
      /\ Others(gcHash) = {q \in Procs : Busy(q) /\ job[q].op # "status" /\ job[q].hash = gcHash} \ {GC}
  BY DEF vars, GCIInv, ClientIInv, TypeOK, Busy, Others, WorkingOn
<1>. USE DEF GCTypeOK, GCPlaces, Dropping
<1>. GCTypeOK /\ GCPlaces /\ Dropping  BY DEF GCIInv
<1>3. CASE Copy
  <2>1. GCTypeOK' /\ GCPlaces' /\ Dropping'  BY <1>2, <1>3 DEF Copy
  <2>. QED  BY <1>1, <2>1 DEF GCIInv
<1>4. CASE List
  <2>1. GCTypeOK' /\ GCPlaces' /\ Dropping'  BY <1>2, <1>4 DEF List
  <2>. QED  BY <1>1, <2>1 DEF GCIInv
<1>5. CASE RemoveFiles
  <2>1. GCTypeOK' /\ GCPlaces' /\ Dropping'  BY <1>2, <1>5 DEF RemoveFiles, Busy
  <2>. QED  BY <1>1, <2>1 DEF GCIInv
<1>6. CASE EndPass
  <2>1. EmptyRegistry \in Registry /\ IdleJob.hash \in Hashes
    BY IdleJobType DEF EmptyRegistry, Registry, Job
  <2>2. GCTypeOK' /\ GCPlaces' /\ Dropping'  BY <1>2, <1>6, <2>1 DEF EndPass
  <2>. QED  BY <1>1, <2>2 DEF GCIInv
<1>7. ASSUME NEW h \in Hashes, Keep(h) PROVE GCIInv'
  <2>1. GCTypeOK' /\ GCPlaces' /\ Dropping'  BY <1>2, <1>7 DEF Keep
  <2>. QED  BY <1>1, <2>1 DEF GCIInv
<1>8. ASSUME NEW h \in Hashes, Completes(h) PROVE GCIInv'
  <2>1. UNCHANGED <<gcAt, snap, gcList, stale, frozen, gcHash, disturbed>>
        /\ complete' \subseteq gotInfo /\ files' \subseteq Hashes
    BY <1>2, <1>8 DEF Completes
  <2>2. GCTypeOK' /\ GCPlaces' /\ Dropping'  BY <1>2, <2>1
  <2>. QED  BY <1>1, <2>2 DEF GCIInv
<1>. QED  BY <1>3, <1>4, <1>5, <1>6, <1>7, <1>8

LEMMA RestartGC == ASSUME GCIInv, GCRestart PROVE GCIInv'
<1>1. Restart  BY DEF GCRestart
<1>2. ClientIInv'  BY <1>1, ClientMoves DEF GCIInv, Moves, Next
<1>3. ~Busy(GC)' /\ gotInfo' = {}
  BY <1>1, CollectorAssumption, DaemonProc DEF Restart, Busy
<1>4. EmptyRegistry \in Registry /\ IdleJob.hash \in Hashes
  BY IdleJobType DEF EmptyRegistry, Registry, Job
<1>5. GCTypeOK'  BY <1>3, <1>4 DEF GCRestart, GCIInv, GCTypeOK
<1>6. GCPlaces' /\ Dropping'  BY <1>3 DEF GCRestart, GCPlaces, Dropping
<1>. QED  BY <1>2, <1>5, <1>6 DEF GCIInv

LEMMA PassStep ==
  ASSUME Pass \/ \E h \in Hashes : Completes(h)
  PROVE  \/ \E h \in Hashes : GCDrop(h)
         \/ /\ UNCHANGED vars
            /\ \/ Copy \/ List \/ RemoveFiles \/ EndPass
               \/ \E h \in Hashes : Keep(h) \/ Completes(h)
BY DEF Pass, Copy, List, Keep, RemoveFiles, EndPass, Completes

LEMMA NextGC == GCIInv /\ [GCNext]_gcAllVars => GCIInv'
<1>. SUFFICES ASSUME GCIInv, [GCNext]_gcAllVars PROVE GCIInv'  OBVIOUS
<1>1. CASE Pass \/ \E h \in Hashes : Completes(h)  BY <1>1, PassStep, DropGC, PassGC
<1>2. CASE UNCHANGED gcAllVars
  <2>1. UNCHANGED vars /\ UNCHANGED gcVars  BY <1>2 DEF gcAllVars
  <2>2. ClientIInv'  BY <2>1, ClientMoves DEF GCIInv, Moves
  <2>3. GCTypeOK' /\ GCPlaces' /\ Dropping'
    BY <2>1 DEF GCIInv, vars, gcVars, GCTypeOK, GCPlaces, Dropping, Busy, Others, WorkingOn
  <2>. QED  BY <2>2, <2>3 DEF GCIInv
<1>. QED  BY <1>1, <1>2, ClientStepGC, RestartGC DEF GCNext

LEMMA InitGC == GCInit => GCIInv
<1>. SUFFICES ASSUME GCInit PROVE GCIInv  OBVIOUS
<1>1. ClientIInv  BY InitClient DEF GCInit
<1>2. ~Busy(GC)  BY CollectorAssumption, DaemonProc DEF GCInit, Init, Busy
<1>3. EmptyRegistry \in Registry /\ IdleJob.hash \in Hashes
  BY IdleJobType DEF EmptyRegistry, Registry, Job
<1>4. GCTypeOK  BY <1>3 DEF GCInit, GCTypeOK
<1>. QED  BY <1>1, <1>2, <1>4 DEF GCInit, GCIInv, GCPlaces, Dropping

LEMMA CollectorInvariant == GCSpec => []GCIInv
BY InitGC, NextGC, PTL DEF GCSpec

\* The collector's state has its types, and its section, like all others, is saved before
\* the lock is given back.
THEOREM CollectorCorrect == GCSpec => []GCInv
<1>1. GCIInv => GCInv  BY DEF GCIInv, ClientIInv, GCInv
<1>. QED  BY <1>1, CollectorInvariant, PTL

\* Files are deleted only when nothing brings the torrent back, unless a request for the same
\* torrent came in between.
THEOREM FilesGoLast == GCSpec => FilesOutliveEntry
<1>. DEFINE Outlive == \A h \in files \ files' : ~disturbed =>
       h \notin active /\ stateData[h] = None /\ (saveOk => Loaded(file)[h] = None)
<1>1. ASSUME GCIInv, RemoveFiles PROVE Outlive
  BY <1>1 DEF RemoveFiles, GCIInv, Dropping
<1>2. ASSUME [GCNext]_gcAllVars, ~RemoveFiles PROVE files \ files' = {}
  BY <1>2 DEF GCNext, GCClientStep, GCFollow, Pass, Copy, List, Keep, GCDrop, EndPass, Completes,
    GCRestart, gcAllVars, gcVars
<1>3. GCIInv /\ [GCNext]_gcAllVars => [Outlive]_gcAllVars  BY <1>1, <1>2
<1>. QED  BY <1>3, CollectorInvariant, PTL DEF GCSpec, FilesOutliveEntry

LEMMA CollectorMoves == GCIInv /\ [GCNext]_gcAllVars => Moves
<1>. SUFFICES ASSUME GCIInv, [GCNext]_gcAllVars PROVE Moves  OBVIOUS
<1>. GC \in Daemons  BY CollectorAssumption
<1>1. CASE Pass \/ \E h \in Hashes : Completes(h)
  BY <1>1, PassStep, GCDropMoves DEF Moves
<1>2. CASE GCClientStep
  <2>1. CASE CollectEntry
    <3>1. Busy(GC) /\ toSpawn = {} /\ toSpawn' = {}
      BY <2>1 DEF CollectEntry, Enter, Commit, Busy, GCIInv, GCPlaces
    <3>. QED  BY <2>1, <3>1 DEF Moves, DaemonStep, Collects, CollectEntry
  <2>. QED  BY <1>2, <2>1, LoopEnds DEF GCClientStep, Moves
<1>. QED  BY <1>1, <1>2 DEF GCNext, GCRestart, Moves, Next, gcAllVars

\* With the collector at work: the client keeps its types, its lock and its file, registry and
\* library agree where requests have not overlapped, the recovery puts back what was saved,
\* and what a reader sees is still the registry of module Registry.
THEOREM CollectorKeepsClient ==
  GCSpec => /\ [](ClientInv /\ SavedWhenQuiet /\ Agreement)
            /\ RecoveryRestores /\ ImplementsRegistry
<1>1. GCInit => ClientIInv /\ Abstract!Init  BY InitClient DEF GCInit
<1>2. GCIInv /\ [GCNext]_gcAllVars => [Restores]_vars /\ [Abstract!Next]_(Abstract!registry)
  BY CollectorMoves, ClientMoves, MovesRestore DEF GCIInv
<1>3. GCIInv => ClientInv /\ SavedWhenQuiet /\ Agreement
  BY Agrees DEF GCIInv, ClientIInv, ClientInv
<1>. QED
  BY <1>1, <1>2, <1>3, CollectorInvariant, PTL
  DEF GCSpec, RecoveryRestores, Restores, ImplementsRegistry, Abstract!Spec
=============================================================================
