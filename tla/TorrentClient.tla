---------------------------- MODULE TorrentClient ----------------------------
(***************************************************************************)
(* The torrent client of gorrent (src/pkg/torrent/client.go, state.go and  *)
(* seed.go): the requests that add, seed, retune, stop and list torrents,  *)
(* the registry `stateData' they share under `stateMu', its copy in        *)
(* state.json, and the recovery of that copy when the daemon starts.       *)
(*                                                                         *)
(* A goroutine is a process.  What happens under stateMu is one step per   *)
(* section that another goroutine, the disk or a crash can come between.   *)
(*                                                                         *)
(* ReentrantRLock is the one assumption about the lock.  Go's sync.RWMutex *)
(* is NOT reentrant: RLock by the goroutine that holds the write lock      *)
(* blocks for ever.  FALSE is the program as it runs; TRUE looks past that *)
(* point, at the code that would run if the read lock were granted.        *)
(***************************************************************************)
EXTENDS Naturals, FiniteSets

CONSTANTS
  Hashes,          \* info hashes
  Workers,         \* goroutines that serve requests (HTTP, WebSocket, watcher)
  Daemons,         \* background goroutines, added by the modules that extend this one
  SeedTimes,       \* values of the seed_time setting
  NoSeed,          \* the setting left empty
  NoOne,           \* stateMu is free
  None,            \* no entry for a hash
  Torn,            \* state.json truncated or cut short: it does not parse
  ReentrantRLock,  \* see above
  InitialFiles,    \* what state.json may hold when the daemon first starts
  Requests,        \* bound: the kinds of request clients send
  MaxCrashes       \* bound: restarts per behaviour

\* What state.json and /status tell apart in a persistedTorrent: whether it has a
\* magnet (an entry made by SetSeedTime has none), its SeedTime, and CompletedAt > 0.
Entry == [magnet : BOOLEAN, seed : SeedTimes, done : BOOLEAN]
Registry == [Hashes -> Entry \cup {None}]
EmptyRegistry == [h \in Hashes |-> None]

\* The goroutine that loadState starts for the entry of h is named h.
Procs == Workers \cup Hashes \cup Daemons

\* "collect" and "stamp" are the sections of the daemons of Collector and PostProcessor.
Ops == {"none", "add", "seed", "set", "stop", "status", "collect", "stamp"}
Job == [op : Ops, hash : Hashes, seed : SeedTimes]
\* What a goroutine knows of the torrent instance it holds: it is the one the
\* client has registered, or it was dropped before or after its metadata came.
Handles == {"none", "live", "informed", "dead"}
PCs == {"idle", "spawned", "metadata", "drop", "enter", "save", "write"}

ASSUME ClientAssumption ==
  /\ NoOne \notin Procs
  /\ None \notin Entry
  /\ Torn \notin Registry
  /\ NoSeed \in SeedTimes
  /\ Hashes # {}
  /\ ReentrantRLock \in BOOLEAN
  /\ InitialFiles \subseteq Registry \cup {Torn}
  /\ Requests \subseteq Ops
  /\ MaxCrashes \in Nat
  /\ Workers \cap Hashes = {} /\ Workers \cap Daemons = {} /\ Hashes \cap Daemons = {}

VARIABLES
  stateMu,    \* the holder of the write lock, or NoOne; a read section is one step
  stateData,  \* the registry in memory
  file,       \* state.json
  saveOk,     \* history: the last save since the start reported no error
  active,     \* hashes registered with the BitTorrent library
  gotInfo,    \* those whose metadata is known
  toSpawn,    \* entries loadState's loop has not reached
  pc, job, handle,  \* per goroutine
  crashes,
  raced       \* history: hashes whose requests overlapped, or whose recovery failed

locals  == <<pc, job, handle>>
library == <<active, gotInfo>>
disk    == <<file, saveOk>>
shared  == <<stateMu, stateData>>
history == <<crashes, raced>>
vars == <<stateMu, stateData, file, saveOk, active, gotInfo, toSpawn,
          pc, job, handle, crashes, raced>>

-----------------------------------------------------------------------------
(* loadState: a file that is missing or does not parse leaves the map empty. *)
Loaded(f) == IF f = Torn THEN EmptyRegistry ELSE f
Persisted(m) == {h \in Hashes : m[h] # None}

IdleJob == [op |-> "none", hash |-> CHOOSE h \in Hashes : TRUE, seed |-> NoSeed]

Boot(f) ==
  /\ stateData = Loaded(f)
  /\ toSpawn = Persisted(Loaded(f))

Init ==
  /\ file \in InitialFiles
  /\ Boot(file)
  /\ stateMu = NoOne /\ saveOk = TRUE
  /\ active = {} /\ gotInfo = {}
  /\ pc = [p \in Procs |-> "idle"]
  /\ job = [p \in Procs |-> IdleJob]
  /\ handle = [p \in Procs |-> "none"]
  /\ crashes = 0 /\ raced = {}

Busy(p) == pc[p] # "idle"
WorkingOn(h) == {p \in Procs : Busy(p) /\ job[p].op # "status" /\ job[p].hash = h}

-----------------------------------------------------------------------------
(* The BitTorrent library (external).  Drop of an instance that is already  *)
(* dropped does nothing; the metadata of a dropped instance never arrives.  *)

DropHandle(p) ==
  LET h == job[p].hash
      lost == IF h \in gotInfo THEN "informed" ELSE "dead"
      held == [q \in Procs |-> IF job[q].hash = h /\ handle[q] = "live"
                               THEN lost ELSE handle[q]]
  IN  IF handle[p] = "live"
      THEN /\ active' = active \ {h}
           /\ gotInfo' = gotInfo \ {h}
           /\ handle' = [held EXCEPT ![p] = "none"]
      ELSE /\ handle' = [handle EXCEPT ![p] = "none"]
           /\ UNCHANGED library

\* Peers deliver the metadata of a registered torrent.
InfoArrives(h) ==
  /\ h \in active \ gotInfo
  /\ gotInfo' = gotInfo \cup {h}
  /\ UNCHANGED <<active, shared, disk, toSpawn, locals, history>>

-----------------------------------------------------------------------------
(* Goroutines taking up and giving up work.                                 *)

MarkOverlap(p, h) == raced' = IF WorkingOn(h) \ {p} # {} THEN raced \cup {h} ELSE raced

Take(p, op, h, s, at) ==
  /\ job' = [job EXCEPT ![p] = [op |-> op, hash |-> h, seed |-> s]]
  /\ pc' = [pc EXCEPT ![p] = at]

Finish(p) ==
  /\ pc' = [pc EXCEPT ![p] = "idle"]
  /\ job' = [job EXCEPT ![p] = IdleJob]

\* AddTorrentSpec.  A torrent built from local files comes with its metadata; the
\* wait for it ends at once when it is known already, for its timer starts with it.
Register(p, op, h, s) ==
  /\ active' = active \cup {h}
  /\ gotInfo' = IF op = "seed" THEN gotInfo \cup {h} ELSE gotInfo
  /\ handle' = [handle EXCEPT ![p] = "live"]
  /\ Take(p, op, h, s, IF h \in gotInfo' THEN "enter" ELSE "metadata")
  /\ MarkOverlap(p, h)
  /\ UNCHANGED <<shared, disk, toSpawn, crashes>>

(* Recovery: loadState's loop and the goroutines it starts.  An entry with  *)
(* no magnet cannot be added again: its goroutine only logs an error.  The  *)
(* loop ranges over the map while these goroutines write it: Go ends the    *)
(* process when it notices, which is a Restart.                             *)
SpawnAfresh(h) ==  \* mutant: the saved seed time is not handed on
  /\ h \in toSpawn
  /\ toSpawn' = toSpawn \ {h}
  /\ IF stateData[h].magnet
     THEN Take(h, "add", h, NoSeed, "spawned") /\ UNCHANGED raced
     ELSE raced' = raced \cup {h} /\ UNCHANGED <<pc, job>>
  /\ UNCHANGED <<handle, library, shared, disk, crashes>>

Spawn(h) ==
  /\ h \in toSpawn
  /\ toSpawn' = toSpawn \ {h}
  /\ IF stateData[h].magnet
     THEN Take(h, "add", h, stateData[h].seed, "spawned") /\ UNCHANGED raced
     ELSE raced' = raced \cup {h} /\ UNCHANGED <<pc, job>>
  /\ UNCHANGED <<handle, library, shared, disk, crashes>>

BootAdd(h) ==
  /\ pc[h] = "spawned"
  /\ Register(h, "add", h, job[h].seed)

(* Requests.  main serves them once NewClient, hence the loop of loadState, *)
(* has returned.                                                            *)
FreeAtOnce(w) == pc[w] = "idle"  \* mutant: requests are served while the loop runs
Free(w) == pc[w] = "idle" /\ toSpawn = {}

BeginAdd(w, h, s)  == Free(w) /\ Register(w, "add", h, s)
BeginSeed(w, h, s) == Free(w) /\ Register(w, "seed", h, s)

BeginSet(w, h, s) ==
  /\ Free(w)
  /\ Take(w, "set", h, s, "enter")
  /\ MarkOverlap(w, h)
  /\ UNCHANGED <<handle, library, shared, disk, toSpawn, crashes>>

\* StopTorrent finds the torrent among the registered ones, then drops it.
BeginStop(w, h) ==
  /\ Free(w) /\ h \in active
  /\ Take(w, "stop", h, NoSeed, "drop")
  /\ handle' = [handle EXCEPT ![w] = "live"]
  /\ MarkOverlap(w, h)
  /\ UNCHANGED <<library, shared, disk, toSpawn, crashes>>

BeginStatus(w) ==
  /\ Free(w)
  /\ Take(w, "status", IdleJob.hash, NoSeed, "enter")
  /\ UNCHANGED <<handle, library, shared, disk, toSpawn, history>>

MetadataArrived(p) ==
  /\ pc[p] = "metadata"
  /\ \/ handle[p] = "live" /\ job[p].hash \in gotInfo
     \/ handle[p] = "informed"
  /\ pc' = [pc EXCEPT ![p] = "enter"]
  /\ UNCHANGED <<job, handle, library, shared, disk, toSpawn, history>>

\* A recovery that gives up leaves its entry behind.
GiveUp(p) ==
  /\ pc[p] = "metadata"
  /\ Finish(p)
  /\ raced' = IF p \in Hashes THEN raced \cup {p} ELSE raced
  /\ UNCHANGED <<shared, disk, toSpawn, crashes>>

\* Mutants: the torrent stays registered; the timer only runs while it is registered.
MetadataTimeoutNoDrop(p) == GiveUp(p) /\ handle' = [handle EXCEPT ![p] = "none"] /\ UNCHANGED library
MetadataTimeoutIfLive(p) == GiveUp(p) /\ handle[p] = "live" /\ DropHandle(p)

\* The 30-second timer.  select may take it although the metadata has just come.
MetadataTimeout(p) == GiveUp(p) /\ DropHandle(p)

StopDrop(p) ==
  /\ pc[p] = "drop"
  /\ DropHandle(p)
  /\ pc' = [pc EXCEPT ![p] = "enter"]
  /\ UNCHANGED <<job, shared, disk, toSpawn, history>>

-----------------------------------------------------------------------------
(* The sections under stateMu.  Each takes the write lock, changes at most  *)
(* one entry and calls saveState before it unlocks.                         *)

Enter(p, op) == pc[p] = "enter" /\ job[p].op = op /\ stateMu = NoOne

\* Lock, change the entry of the job's hash, and go on to saveState.
Commit(p, e) ==
  /\ stateMu' = p
  /\ stateData' = [stateData EXCEPT ![job[p].hash] = e]
  /\ pc' = [pc EXCEPT ![p] = "save"]
  /\ handle' = [handle EXCEPT ![p] = "none"]
  /\ UNCHANGED <<job, library, disk, toSpawn, history>>

\* A section that changes nothing: locked and unlocked in one step.
LeaveUnchanged(p) ==
  /\ Finish(p)
  /\ UNCHANGED <<handle, library, shared, disk, toSpawn, history>>

Old(p) == stateData[job[p].hash]
OldDone(p) == Old(p) # None /\ Old(p).done

StoreAdded(p) ==
  /\ Enter(p, "add")
  /\ Commit(p, [magnet |-> TRUE, seed |-> job[p].seed, done |-> OldDone(p)])

StoreSeeded(p) ==
  /\ Enter(p, "seed")
  /\ Commit(p, [magnet |-> TRUE, seed |-> job[p].seed, done |-> TRUE])

Known(p) == Old(p) # None \/ job[p].hash \in active

StoreSeedTime(p) ==
  /\ Enter(p, "set") /\ Known(p)
  /\ Commit(p, [magnet |-> Old(p) # None /\ Old(p).magnet,
                seed |-> job[p].seed, done |-> OldDone(p)])

SeedTimeRefused(p) == Enter(p, "set") /\ ~Known(p) /\ LeaveUnchanged(p)

\* Mutant: StopTorrent forgets saveState.
DeleteEntryUnsaved(p) ==
  /\ Enter(p, "stop")
  /\ stateData' = [stateData EXCEPT ![job[p].hash] = None]
  /\ Finish(p)
  /\ UNCHANGED <<stateMu, handle, library, disk, toSpawn, history>>

DeleteEntry(p) == Enter(p, "stop") /\ Commit(p, None)

\* Status copies the map under the read lock.
StatusRead(p) == Enter(p, "status") /\ LeaveUnchanged(p)

-----------------------------------------------------------------------------
(* saveState, called with the write lock held.  It takes the read lock to   *)
(* serialise the map; os.WriteFile then truncates the file and fills it,    *)
(* and a failure of either is logged and forgotten.                         *)

CanRLock(p) == stateMu = NoOne \/ (ReentrantRLock /\ stateMu = p)

Unlock(p) ==
  /\ stateMu' = NoOne
  /\ Finish(p)
  /\ UNCHANGED <<stateData, handle, library, toSpawn, history>>

SaveState(p) ==
  /\ pc[p] = "save" /\ CanRLock(p)
  /\ file' = Torn
  /\ pc' = [pc EXCEPT ![p] = "write"]
  /\ UNCHANGED <<saveOk, job, handle, library, shared, toSpawn, history>>

\* Mutant: the error of os.WriteFile is taken for success.
OpenFailsUnnoticed(p) == pc[p] = "save" /\ CanRLock(p) /\ saveOk' = TRUE /\ Unlock(p) /\ UNCHANGED file

OpenFails(p) ==
  /\ pc[p] = "save" /\ CanRLock(p)
  /\ saveOk' = FALSE
  /\ Unlock(p)
  /\ UNCHANGED file

WriteDone(p) ==
  /\ pc[p] = "write"
  /\ file' = stateData
  /\ saveOk' = TRUE
  /\ Unlock(p)

WriteFails(p) ==
  /\ pc[p] = "write"
  /\ saveOk' = FALSE
  /\ Unlock(p)
  /\ UNCHANGED file

\* The process dies at any point and is started again: NewClient loads the file.
Restart ==
  /\ crashes < MaxCrashes
  /\ crashes' = crashes + 1
  /\ stateMu' = NoOne /\ saveOk' = TRUE
  /\ stateData' = Loaded(file)
  /\ toSpawn' = Persisted(Loaded(file))
  /\ active' = {} /\ gotInfo' = {} /\ raced' = {}
  /\ pc' = [p \in Procs |-> "idle"]
  /\ job' = [p \in Procs |-> IdleJob]
  /\ handle' = [p \in Procs |-> "none"]
  /\ UNCHANGED file

-----------------------------------------------------------------------------
Section(p) ==
  \/ StoreAdded(p) \/ StoreSeeded(p) \/ StoreSeedTime(p)
  \/ SeedTimeRefused(p) \/ DeleteEntry(p) \/ StatusRead(p)

Saving(p) == SaveState(p) \/ OpenFails(p) \/ WriteDone(p) \/ WriteFails(p)
Waiting(p) == MetadataArrived(p) \/ MetadataTimeout(p)
Step(p) == Waiting(p) \/ StopDrop(p) \/ Section(p) \/ Saving(p)

Request(w) ==
  \/ "status" \in Requests /\ BeginStatus(w)
  \/ "stop" \in Requests /\ \E h \in Hashes : BeginStop(w, h)
  \/ \E h \in Hashes, s \in SeedTimes :
       \/ "add" \in Requests /\ BeginAdd(w, h, s)
       \/ "seed" \in Requests /\ BeginSeed(w, h, s)
       \/ "set" \in Requests /\ BeginSet(w, h, s)

Next ==
  \/ \E h \in Hashes : InfoArrives(h) \/ Spawn(h) \/ BootAdd(h)
  \/ \E w \in Workers : Request(w)
  \/ \E p \in Procs : Step(p)
  \/ Restart

Spec == Init /\ [][Next]_vars

\* The Go scheduler runs every goroutine that can run; sync.RWMutex lets every
\* waiter in eventually (it hands over to starving waiters and admits no reader past
\* a waiting writer), so a section whose lock is free again and again is entered.
\* Nothing obliges a client to send a request or a peer to deliver metadata.
Fairness ==
  /\ \A h \in Hashes : WF_vars(Spawn(h)) /\ WF_vars(BootAdd(h))
  /\ \A p \in Procs : /\ WF_vars(Waiting(p)) /\ WF_vars(StopDrop(p))
                      /\ SF_vars(Section(p)) /\ WF_vars(Saving(p))

FairSpec == Spec /\ Fairness

-----------------------------------------------------------------------------
(* Properties.                                                              *)

\* The one type invariant of the client's state.
TypeOK ==
  /\ stateMu \in Procs \cup {NoOne}
  /\ stateData \in Registry
  /\ file \in Registry \cup {Torn}
  /\ saveOk \in BOOLEAN
  /\ active \subseteq Hashes /\ gotInfo \subseteq active
  /\ toSpawn \subseteq Hashes
  /\ pc \in [Procs -> PCs]
  /\ job \in [Procs -> Job]
  /\ handle \in [Procs -> Handles]
  /\ crashes \in Nat
  /\ raced \subseteq Hashes

\* While loadState's loop runs, no entry it has yet to reach can disappear and no
\* goroutine but the ones it started is at work; those only ever add their own hash.
RecoveryInv ==
  /\ \A h \in Hashes : Busy(h) => job[h].op = "add" /\ job[h].hash = h
  /\ toSpawn # {} => \A p \in Procs \ Hashes : ~Busy(p)
  /\ \A h \in toSpawn : stateData[h] # None /\ ~Busy(h)

\* stateMu is held exactly by the goroutine between its change of the map and the end
\* of its save: no section unlocks early, none forgets to unlock, no two overlap.
LockInv == \A p \in Procs : pc[p] \in {"save", "write"} <=> stateMu = p

\* The three together: what every step of the client relies on and keeps.
ClientInv == TypeOK /\ RecoveryInv /\ LockInv

\* Whenever no section is open and the last save reported no error, a restart would
\* load exactly the registry in memory: every section saves before it unlocks.
SavedWhenQuiet == stateMu = NoOne /\ saveOk => Loaded(file) = stateData

\* A crash loses registry changes only if it comes inside a section (the change is
\* not yet written, or the file is cut short) or after a save that failed.
RestartKeepsRegistry ==
  [][crashes' # crashes => stateData' = stateData \/ stateMu # NoOne \/ ~saveOk]_vars

\* Whoever adds, seeds or retunes a torrent again, the record that its download has
\* completed is kept until the entry is removed or the process restarts.
CompletionNeverForgotten ==
  [][\A h \in Hashes :
       stateData[h] # None /\ stateData[h].done /\ crashes' = crashes
         => stateData'[h] = None \/ stateData'[h].done]_vars

\* Requests that do not overlap leave registry and library in agreement: a torrent
\* has an entry exactly when it is registered (loadState's own recoveries included,
\* unless one fails).
Agreement ==
  \A h \in Hashes \ (raced \cup toSpawn) :
    WorkingOn(h) = {} => (stateData[h] # None <=> h \in active)

\* A recovery puts back exactly the entry that was saved -- its seed time, and whether it
\* had completed -- unless a request for the same torrent overlaps with it.
RecoveryRestores ==
  [][\A h \in Hashes :
       stateMu' = h /\ stateMu # h /\ stateData[h] # None /\ h \notin raced
         => stateData' = stateData]_vars

\* Every request is answered and every goroutine of the recovery ends: nobody waits for
\* ever, on the lock, the disk or the metadata.
RequestsAnswered == \A p \in Procs : Busy(p) ~> ~Busy(p)

(* What a client of the registry may rely on, said without goroutines.      *)

\* What a restart would find is what loadState makes of the file.
Abstract == INSTANCE Registry WITH
  entries <- stateData,
  durable <- Loaded(file),
  pending <- (stateMu # NoOne),
  trusted <- saveOk

\* The client implements the registry of module Registry: one entry changes at a time,
\* each change is saved before the next is made, completions are kept, and a restart
\* brings back the registry but for a change being saved or saves that failed.
ImplementsRegistry == Abstract!Spec

(* What the lock of Go makes of the program.                                *)

\* state.json is never written: saveState blocks on its own lock before it opens it.
StateFileFrozen == [][file' = file]_vars

\* The first section that changes the registry is the last to be entered until the
\* process is restarted: the lock is never released again.
LockNeverReleased == [][stateMu # NoOne /\ crashes' = crashes => stateMu' = stateMu]_vars

\* CHANGELOG.md:22, "State persisted across daemon reboots in state.json": a torrent
\* whose entry is recorded, and stays recorded, gets into the file.
RecordedIsSaved ==
  \A h \in Hashes : stateData[h] # None ~>
                      (stateData[h] = None \/ Loaded(file)[h] = stateData[h])
=============================================================================
