-------------------------- MODULE TorrentClientProofs -------------------------
(***************************************************************************)
(* Proofs about TorrentClient, for any sets of hashes and goroutines, any  *)
(* initial state.json and any number of restarts.                          *)
(***************************************************************************)
EXTENDS TorrentClient, TLAPS

USE DEF shared, disk, library, history, locals

\* An idle job is a job, whichever hash CHOOSE picks.
LEMMA IdleJobType == IdleJob \in Job
<1>1. (CHOOSE h \in Hashes : TRUE) \in Hashes  BY ClientAssumption
<1>. QED  BY <1>1, ClientAssumption DEF IdleJob, Job, Ops

LEMMA LoadedType == ASSUME NEW f \in Registry \cup {Torn}
                    PROVE  Loaded(f) \in Registry /\ Persisted(Loaded(f)) \subseteq Hashes
BY DEF Loaded, EmptyRegistry, Registry, Persisted

\* One step of the BitTorrent library keeps its part of the state well-typed.
LEMMA DropType ==
  ASSUME TypeOK, NEW p \in Procs, DropHandle(p)
  PROVE  active' \subseteq Hashes /\ gotInfo' \subseteq active' /\ handle' \in [Procs -> Handles]
BY DEF TypeOK, DropHandle, Handles

\* The initial state is well-typed.
LEMMA InitType == Init => TypeOK
<1>. SUFFICES ASSUME Init PROVE TypeOK  OBVIOUS
<1>1. file \in Registry \cup {Torn}  BY ClientAssumption DEF Init
<1>2. stateData \in Registry /\ toSpawn \subseteq Hashes
  BY <1>1, LoadedType DEF Init, Boot
<1>. QED  BY <1>1, <1>2, IdleJobType DEF Init, TypeOK, PCs, Handles

\* A section that changes the registry, and every way a save ends, keep the types.
LEMMA CommitType ==
  ASSUME TypeOK, NEW p \in Procs, NEW e \in Entry \cup {None}, Commit(p, e)
  PROVE  TypeOK'
<1>1. job[p].hash \in Hashes  BY DEF TypeOK, Job
<1>2. stateData' \in Registry  BY <1>1 DEF TypeOK, Registry, Commit
<1>. QED  BY <1>2 DEF TypeOK, Commit, PCs, Handles

LEMMA UnlockType ==
  ASSUME TypeOK, NEW p \in Procs, Unlock(p),
         file' \in Registry \cup {Torn}, saveOk' \in BOOLEAN
  PROVE  TypeOK'
BY IdleJobType DEF TypeOK, Unlock, Finish, PCs

LEMMA RegisterType ==
  ASSUME TypeOK, NEW p \in Procs, NEW op \in Ops, NEW h \in Hashes, NEW s \in SeedTimes,
         Register(p, op, h, s)
  PROVE  TypeOK'
<1>1. [op |-> op, hash |-> h, seed |-> s] \in Job  BY DEF Job
<1>. QED  BY <1>1 DEF TypeOK, Register, Take, MarkOverlap, PCs, Handles

\* The entries the sections store.
LEMMA EntryTypes ==
  ASSUME TypeOK, NEW p \in Procs
  PROVE  /\ [magnet |-> TRUE, seed |-> job[p].seed, done |-> OldDone(p)] \in Entry
         /\ [magnet |-> TRUE, seed |-> job[p].seed, done |-> TRUE] \in Entry
         /\ [magnet |-> Old(p) # None /\ Old(p).magnet,
             seed |-> job[p].seed, done |-> OldDone(p)] \in Entry
<1>1. Old(p) \in Entry \cup {None} /\ job[p].seed \in SeedTimes
  BY DEF TypeOK, Registry, Job, Old
<1>2. OldDone(p) \in BOOLEAN /\ (Old(p) # None /\ Old(p).magnet) \in BOOLEAN
  BY <1>1 DEF OldDone, Entry
<1>. QED  BY <1>1, <1>2 DEF Entry

\* The steps of a goroutine keep the types.
LEMMA StepType == ASSUME TypeOK, NEW p \in Procs, Step(p) PROVE TypeOK'
<1>3. CASE MetadataArrived(p)  BY <1>3 DEF TypeOK, MetadataArrived, PCs
<1>4. CASE MetadataTimeout(p)
  BY <1>4, DropType, IdleJobType DEF TypeOK, MetadataTimeout, GiveUp, Finish, PCs
<1>5. CASE StopDrop(p)  BY <1>5, DropType DEF TypeOK, StopDrop, PCs
<1>6. CASE StoreAdded(p)  BY <1>6, EntryTypes, CommitType DEF StoreAdded
<1>7. CASE StoreSeeded(p)  BY <1>7, EntryTypes, CommitType DEF StoreSeeded
<1>8. CASE StoreSeedTime(p)  BY <1>8, EntryTypes, CommitType DEF StoreSeedTime
<1>9. CASE DeleteEntry(p)  BY <1>9, CommitType DEF DeleteEntry
<1>10. CASE SeedTimeRefused(p) \/ StatusRead(p)
  BY <1>10, IdleJobType DEF TypeOK, SeedTimeRefused, StatusRead, LeaveUnchanged, Finish, PCs
<1>11. CASE SaveState(p)  BY <1>11 DEF TypeOK, SaveState, PCs
<1>12. CASE OpenFails(p)  BY <1>12, UnlockType DEF TypeOK, OpenFails
<1>13. CASE WriteDone(p)  BY <1>13, UnlockType DEF TypeOK, WriteDone
<1>14. CASE WriteFails(p)  BY <1>14, UnlockType DEF TypeOK, WriteFails
<1>. QED
  BY <1>3, <1>4, <1>5, <1>6, <1>7, <1>8, <1>9, <1>10, <1>11, <1>12, <1>13, <1>14
  DEF Step, Waiting, Section, Saving

\* Every step keeps the types; that of loadState's loop because the entry it reads
\* is still there.
LEMMA NextType == TypeOK /\ RecoveryInv /\ [Next]_vars => TypeOK'
<1>. SUFFICES ASSUME TypeOK, RecoveryInv, [Next]_vars PROVE TypeOK'  OBVIOUS
<1>1. ASSUME NEW h \in Hashes, InfoArrives(h) PROVE TypeOK'
  BY <1>1 DEF TypeOK, InfoArrives
<1>2. ASSUME NEW h \in Hashes, Spawn(h) PROVE TypeOK'
  <2>1. CASE ~stateData[h].magnet  BY <1>2, <2>1 DEF TypeOK, Spawn
  <2>2. CASE stateData[h].magnet
    <3>1. stateData[h] \in Entry  BY <1>2 DEF TypeOK, Registry, RecoveryInv, Spawn
    <3>2. [op |-> "add", hash |-> h, seed |-> stateData[h].seed] \in Job
      BY <3>1 DEF Job, Ops, Entry
    <3>. QED  BY <1>2, <2>2, <3>2 DEF TypeOK, Spawn, Take, PCs, Procs
  <2>. QED  BY <2>1, <2>2
<1>3. ASSUME NEW h \in Hashes, BootAdd(h) PROVE TypeOK'
  BY <1>3, RegisterType DEF BootAdd, TypeOK, Job, Ops, Procs
<1>4. ASSUME NEW w \in Workers, Request(w) PROVE TypeOK'
  <2>. w \in Procs  BY DEF Procs
  <2>1. CASE BeginStatus(w)
    <3>1. [op |-> "status", hash |-> IdleJob.hash, seed |-> NoSeed] \in Job
      BY IdleJobType, ClientAssumption DEF Job, Ops
    <3>. QED  BY <2>1, <3>1 DEF TypeOK, BeginStatus, Take, PCs
  <2>2. ASSUME NEW h \in Hashes, BeginStop(w, h) PROVE TypeOK'
    <3>1. [op |-> "stop", hash |-> h, seed |-> NoSeed] \in Job
      BY ClientAssumption DEF Job, Ops
    <3>. QED  BY <2>2, <3>1 DEF TypeOK, BeginStop, Take, MarkOverlap, PCs, Handles
  <2>3. ASSUME NEW h \in Hashes, NEW s \in SeedTimes, BeginSet(w, h, s) PROVE TypeOK'
    <3>1. [op |-> "set", hash |-> h, seed |-> s] \in Job  BY DEF Job, Ops
    <3>. QED  BY <2>3, <3>1 DEF TypeOK, BeginSet, Take, MarkOverlap, PCs
  <2>4. ASSUME NEW h \in Hashes, NEW s \in SeedTimes, BeginAdd(w, h, s) \/ BeginSeed(w, h, s)
        PROVE TypeOK'
    BY <2>4, RegisterType DEF BeginAdd, BeginSeed, Ops
  <2>. QED  BY <1>4, <2>1, <2>2, <2>3, <2>4 DEF Request
<1>5. ASSUME NEW p \in Procs, Step(p) PROVE TypeOK'  BY <1>5, StepType
<1>6. CASE Restart
  BY <1>6, LoadedType, IdleJobType DEF TypeOK, Restart, PCs, Handles
<1>7. CASE UNCHANGED vars  BY <1>7 DEF TypeOK, vars
<1>. QED  BY <1>1, <1>2, <1>3, <1>4, <1>5, <1>6, <1>7 DEF Next
-----------------------------------------------------------------------------
\* Only the goroutines of loadState are at work while its loop runs: a request waits
\* for the end of the loop, and a section of theirs stores an entry, never removes one.
LEMMA NextRecovery == TypeOK /\ RecoveryInv /\ [Next]_vars => RecoveryInv'
<1>. SUFFICES ASSUME TypeOK, RecoveryInv, [Next]_vars PROVE RecoveryInv'  OBVIOUS
<1>. USE DEF Busy, Procs
<1>1. ASSUME NEW h \in Hashes, InfoArrives(h) PROVE RecoveryInv'
  BY <1>1 DEF RecoveryInv, InfoArrives
<1>2. ASSUME NEW h \in Hashes, Spawn(h) PROVE RecoveryInv'
  BY <1>2 DEF TypeOK, RecoveryInv, Spawn, Take
<1>3. ASSUME NEW h \in Hashes, BootAdd(h) PROVE RecoveryInv'
  BY <1>3 DEF TypeOK, RecoveryInv, BootAdd, Register, Take
<1>4. ASSUME NEW w \in Workers, Request(w) PROVE RecoveryInv'
  <2>1. w \notin Hashes  BY ClientAssumption
  <2>. QED
    BY <1>4, <2>1 DEF TypeOK, RecoveryInv, Request, Free, BeginStatus, BeginStop, BeginSet,
                      BeginAdd, BeginSeed, Register, Take
<1>5. ASSUME NEW p \in Procs, Step(p) PROVE RecoveryInv'
  <2>1. Busy(p)
    BY <1>5 DEF Step, Waiting, Section, Saving, MetadataArrived, MetadataTimeout, GiveUp, StopDrop,
      StoreAdded, StoreSeeded, StoreSeedTime, SeedTimeRefused, DeleteEntry, StatusRead, Enter,
      SaveState, OpenFails, WriteDone, WriteFails
  <2>2. toSpawn # {} => p \in Hashes /\ job[p].op = "add" /\ job[p].hash = p
    BY <2>1 DEF RecoveryInv
  <2>3. CASE Waiting(p) \/ StopDrop(p) \/ SeedTimeRefused(p) \/ StatusRead(p) \/ Saving(p)
    <3>1. UNCHANGED <<toSpawn, stateData>>
      BY <2>3 DEF Waiting, MetadataArrived, MetadataTimeout, GiveUp, StopDrop, SeedTimeRefused,
        StatusRead, LeaveUnchanged, Saving, SaveState, OpenFails, WriteDone, WriteFails, Unlock
    <3>2. \A q \in Procs : Busy(q)' => Busy(q) /\ job'[q] = job[q]
      BY <2>1, <2>3 DEF TypeOK, Waiting, MetadataArrived, MetadataTimeout, GiveUp, StopDrop,
        SeedTimeRefused, StatusRead, LeaveUnchanged, Finish, Saving, SaveState, OpenFails,
        WriteDone, WriteFails, Unlock
    <3>3. \A h \in Hashes : Busy(h)' => job'[h].op = "add" /\ job'[h].hash = h
      BY <3>2 DEF RecoveryInv
    <3>4. toSpawn' # {} => \A q \in Procs \ Hashes : ~Busy(q)'
      BY <3>1, <3>2 DEF RecoveryInv
    <3>5. \A h \in toSpawn' : stateData'[h] # None /\ ~Busy(h)'
      BY <3>1, <3>2 DEF RecoveryInv, TypeOK
    <3>. QED  BY <3>3, <3>4, <3>5 DEF RecoveryInv
  <2>4. ASSUME NEW e, Commit(p, e), toSpawn = {} \/ e # None PROVE RecoveryInv'
    BY <2>1, <2>2, <2>4 DEF TypeOK, RecoveryInv, Commit, Registry
  <2>5. CASE StoreAdded(p)
    BY <2>4, <2>5, EntryTypes, ClientAssumption DEF StoreAdded
  <2>6. CASE StoreSeeded(p) \/ StoreSeedTime(p) \/ DeleteEntry(p)
    <3>1. toSpawn = {}  BY <2>2, <2>6 DEF StoreSeeded, StoreSeedTime, DeleteEntry, Enter
    <3>. QED  BY <2>4, <2>6, <3>1 DEF StoreSeeded, StoreSeedTime, DeleteEntry
  <2>. QED  BY <1>5, <2>3, <2>5, <2>6 DEF Step, Section
<1>6. CASE Restart  BY <1>6 DEF RecoveryInv, Restart, Persisted
<1>7. CASE UNCHANGED vars  BY <1>7 DEF RecoveryInv, vars
<1>. QED  BY <1>1, <1>2, <1>3, <1>4, <1>5, <1>6, <1>7 DEF Next

\* Type correctness, and the discipline of the recovery, in every reachable state.
THEOREM TypeCorrect == Spec => [](TypeOK /\ RecoveryInv)
<1>1. Init => TypeOK  BY InitType
<1>2. Init => RecoveryInv
  BY DEF Init, Boot, RecoveryInv, Busy, Procs, Persisted
<1>3. TypeOK /\ RecoveryInv /\ [Next]_vars => (TypeOK /\ RecoveryInv)'
  BY NextType, NextRecovery
<1>. QED  BY <1>1, <1>2, <1>3, PTL DEF Spec

(* The client as the other modules compose it with a background goroutine.  *)

\* The client's steps never give a background goroutine work, nor other work.
LEMMA DaemonsKeepTheirWork ==
  ASSUME TypeOK, [Next]_vars, NEW d \in Daemons
  PROVE  Busy(d)' => Busy(d) /\ job'[d] = job[d]
<1>. d \in Procs /\ d \notin Hashes /\ d \notin Workers  BY ClientAssumption DEF Procs
<1>. USE DEF Busy
<1>1. ASSUME NEW h \in Hashes, InfoArrives(h) \/ Spawn(h) \/ BootAdd(h)
      PROVE  pc'[d] = pc[d] /\ job'[d] = job[d]
  BY <1>1 DEF TypeOK, InfoArrives, Spawn, BootAdd, Register, Take
<1>2. ASSUME NEW w \in Workers, Request(w) PROVE pc'[d] = pc[d] /\ job'[d] = job[d]
  BY <1>2 DEF TypeOK, Request, BeginStatus, BeginStop, BeginSet, BeginAdd, BeginSeed, Register, Take
<1>3. ASSUME NEW p \in Procs, Step(p) PROVE Busy(d)' => Busy(d) /\ job'[d] = job[d]
  BY <1>3 DEF TypeOK, Step, Waiting, MetadataArrived, MetadataTimeout, GiveUp, StopDrop, Section,
    StoreAdded, StoreSeeded, StoreSeedTime, SeedTimeRefused, DeleteEntry, StatusRead, Enter, Commit,
    LeaveUnchanged, Finish, Saving, SaveState, OpenFails, WriteDone, WriteFails, Unlock
<1>4. CASE Restart  BY <1>4 DEF Restart
<1>5. CASE UNCHANGED vars  BY <1>5 DEF vars
<1>. QED  BY <1>1, <1>2, <1>3, <1>4, <1>5 DEF Next

\* A step of the client's goroutines, and no restart: loadState's loop stays ended.
LEMMA LoopEnds ==
  ASSUME \/ \E h \in Hashes : InfoArrives(h) \/ Spawn(h) \/ BootAdd(h)
         \/ \E w \in Workers : Request(w)
         \/ \E p \in Procs : Step(p)
  PROVE  [Next]_vars /\ (toSpawn = {} => toSpawn' = {}) /\ crashes' = crashes
BY DEF Next, InfoArrives, Spawn, BootAdd, Request, BeginStatus, BeginStop, BeginSet, BeginAdd,
  BeginSeed, Register, Step, Waiting, MetadataArrived, MetadataTimeout, GiveUp, StopDrop, Section,
  StoreAdded, StoreSeeded, StoreSeedTime, SeedTimeRefused, DeleteEntry, StatusRead, Commit,
  LeaveUnchanged, Saving, SaveState, OpenFails, WriteDone, WriteFails, Unlock

\* Nor do they move one that does not take the step itself.
LEMMA OthersPlace ==
  ASSUME TypeOK, NEW d \in Daemons,
         \/ \E h \in Hashes : InfoArrives(h) \/ Spawn(h) \/ BootAdd(h)
         \/ \E w \in Workers : Request(w)
         \/ \E p \in Procs \ {d} : Step(p)
  PROVE  pc'[d] = pc[d]
<1>. d \in Procs /\ d \notin Hashes /\ d \notin Workers  BY ClientAssumption DEF Procs
<1>1. ASSUME NEW h \in Hashes, InfoArrives(h) \/ Spawn(h) \/ BootAdd(h) PROVE pc'[d] = pc[d]
  BY <1>1 DEF TypeOK, InfoArrives, Spawn, BootAdd, Register, Take
<1>2. ASSUME NEW w \in Workers, Request(w) PROVE pc'[d] = pc[d]
  BY <1>2 DEF TypeOK, Request, BeginStatus, BeginStop, BeginSet, BeginAdd, BeginSeed, Register, Take
<1>3. ASSUME NEW p \in Procs \ {d}, Step(p) PROVE pc'[d] = pc[d]
  BY <1>3 DEF TypeOK, Step, Waiting, MetadataArrived, MetadataTimeout, GiveUp, StopDrop, Section,
    StoreAdded, StoreSeeded, StoreSeedTime, SeedTimeRefused, DeleteEntry, StatusRead, Enter, Commit,
    LeaveUnchanged, Finish, Saving, SaveState, OpenFails, WriteDone, WriteFails, Unlock
<1>. QED  BY <1>1, <1>2, <1>3

\* A background goroutine that adds a torrent, once that loop has ended.
LEMMA DaemonAdds ==
  ASSUME TypeOK, RecoveryInv, toSpawn = {}, NEW d \in Daemons, NEW h \in Hashes, NEW s \in SeedTimes,
         Register(d, "add", h, s)
  PROVE  /\ TypeOK' /\ RecoveryInv' /\ toSpawn' = {} /\ crashes' = crashes
         /\ job'[d].hash = h
<1>. d \in Procs /\ d \notin Hashes  BY ClientAssumption DEF Procs
<1>1. TypeOK'  BY RegisterType DEF Ops
<1>2. RecoveryInv'  BY DEF TypeOK, RecoveryInv, Register, Take, Busy, Procs
<1>. QED  BY <1>1, <1>2 DEF TypeOK, Register, Take

-----------------------------------------------------------------------------
(* The lock and the file.                                                   *)

\* What a step does to the lock, to its sections and to what they protect: it leaves
\* them all alone, opens a section, goes on inside one, or ends one.
Changes(p, e) ==
  /\ stateData' = [stateData EXCEPT ![job[p].hash] = e]
  /\ OldDone(p) => e = None \/ e.done
Opens(p) ==
  /\ pc[p] = "enter" /\ stateMu = NoOne
  /\ stateMu' = p /\ pc' = [pc EXCEPT ![p] = "save"]
  /\ \E e \in Entry \cup {None} : Changes(p, e)
  /\ UNCHANGED <<file, saveOk, crashes>>
Proceeds(p) ==
  /\ pc[p] = "save" /\ CanRLock(p)
  /\ pc' = [pc EXCEPT ![p] = "write"]
  /\ file' = Torn
  /\ UNCHANGED <<shared, saveOk, crashes>>
Closes(p) ==
  /\ (pc[p] = "save" /\ CanRLock(p)) \/ pc[p] = "write"
  /\ pc' = [pc EXCEPT ![p] = "idle"] /\ stateMu' = NoOne
  /\ saveOk' => pc[p] = "write" /\ file' = stateData
  /\ saveOk' \in BOOLEAN /\ (~saveOk' => file' = file)
  /\ UNCHANGED <<stateData, crashes>>
Bystands ==
  /\ \A p \in Procs : pc'[p] = pc[p] \/ {pc[p], pc'[p]} \cap {"save", "write"} = {}
  /\ UNCHANGED <<shared, disk, crashes>>

OneKind == Restart \/ Bystands \/ \E p \in Procs : Opens(p) \/ Proceeds(p) \/ Closes(p)

LEMMA StepKinds == ASSUME TypeOK, [Next]_vars PROVE OneKind
<1>. USE DEF Procs
<1>1. ASSUME NEW h \in Hashes, InfoArrives(h) \/ Spawn(h) \/ BootAdd(h) PROVE Bystands
  <2>1. CASE InfoArrives(h)  BY <2>1 DEF InfoArrives, Bystands
  <2>2. CASE Spawn(h)  BY <2>2 DEF TypeOK, Spawn, Take, Bystands
  <2>3. CASE BootAdd(h)  BY <2>3 DEF TypeOK, BootAdd, Register, Take, Bystands
  <2>. QED  BY <1>1, <2>1, <2>2, <2>3
<1>2. ASSUME NEW w \in Workers, Request(w) PROVE Bystands
  BY <1>2 DEF TypeOK, Request, Free, BeginStatus, BeginStop, BeginSet, BeginAdd, BeginSeed,
              Register, Take, Bystands
<1>3. ASSUME NEW p \in Procs, Step(p) PROVE Bystands \/ Opens(p) \/ Proceeds(p) \/ Closes(p)
  <2>1. CASE Waiting(p) \/ StopDrop(p) \/ SeedTimeRefused(p) \/ StatusRead(p)
    BY <2>1 DEF TypeOK, Waiting, MetadataArrived, MetadataTimeout, GiveUp, StopDrop, SeedTimeRefused,
                StatusRead, LeaveUnchanged, Finish, Enter, Bystands
  <2>2. CASE StoreAdded(p) \/ StoreSeeded(p) \/ StoreSeedTime(p) \/ DeleteEntry(p)
    <3>1. ASSUME NEW e \in Entry \cup {None}, pc[p] = "enter", stateMu = NoOne, Commit(p, e),
                 OldDone(p) => e = None \/ e.done
          PROVE  Opens(p)
      BY <3>1 DEF Commit, Opens, Changes
    <3>2. CASE StoreAdded(p)  BY <3>1, <3>2, EntryTypes DEF StoreAdded, Enter
    <3>3. CASE StoreSeeded(p)  BY <3>1, <3>3, EntryTypes DEF StoreSeeded, Enter
    <3>4. CASE StoreSeedTime(p)  BY <3>1, <3>4, EntryTypes DEF StoreSeedTime, Enter
    <3>5. CASE DeleteEntry(p)  BY <3>1, <3>5 DEF DeleteEntry, Enter
    <3>. QED  BY <2>2, <3>2, <3>3, <3>4, <3>5
  <2>3. CASE SaveState(p)  BY <2>3 DEF SaveState, Proceeds
  <2>4. CASE OpenFails(p) \/ WriteDone(p) \/ WriteFails(p)
    BY <2>4 DEF OpenFails, WriteDone, WriteFails, Unlock, Finish, Closes
  <2>. QED  BY <1>3, <2>1, <2>2, <2>3, <2>4 DEF Step, Section, Saving
<1>4. CASE UNCHANGED vars  BY <1>4 DEF vars, Bystands, OneKind
<1>. QED  BY <1>1, <1>2, <1>3, <1>4 DEF Next, OneKind

\* At most one section is open, by the goroutine that holds stateMu.
LEMMA KindLock == ASSUME TypeOK, LockInv, OneKind PROVE LockInv'
<1>0. NoOne \notin Procs  BY ClientAssumption
<1>1. CASE Restart  BY <1>0, <1>1 DEF LockInv, Restart
<1>2. CASE Bystands  BY <1>2 DEF LockInv, Bystands
<1>3. ASSUME NEW p \in Procs, Opens(p) PROVE LockInv'
  BY <1>0, <1>3 DEF LockInv, Opens, TypeOK
<1>4. ASSUME NEW p \in Procs, Proceeds(p) PROVE LockInv'
  BY <1>0, <1>4 DEF LockInv, Proceeds, TypeOK
<1>5. ASSUME NEW p \in Procs, Closes(p) PROVE LockInv'
  BY <1>0, <1>5 DEF LockInv, Closes, TypeOK
<1>. QED  BY <1>1, <1>2, <1>3, <1>4, <1>5 DEF OneKind

\* stateMu protects every section from its change of the registry to the end of its save.
THEOREM LockCorrect == Spec => []LockInv
<1>1. Init => LockInv  BY ClientAssumption DEF Init, LockInv
<1>2. TypeOK /\ LockInv /\ [Next]_vars => LockInv'  BY StepKinds, KindLock
<1>. QED  BY <1>1, <1>2, TypeCorrect, PTL DEF Spec

\* The whole invariant, for any number of hashes, requests and background goroutines.
THEOREM ClientCorrect == Spec => []ClientInv
<1>1. TypeOK /\ RecoveryInv /\ LockInv => ClientInv  BY DEF ClientInv
<1>. QED  BY <1>1, TypeCorrect, LockCorrect, PTL

\* Every section saves what it has changed before it gives the lock back.
LEMMA KindSaved == ASSUME TypeOK, LockInv, SavedWhenQuiet, OneKind PROVE SavedWhenQuiet'
<1>0. NoOne \notin Procs /\ Torn \notin Registry  BY ClientAssumption
<1>1. CASE Restart  BY <1>1 DEF SavedWhenQuiet, Restart
<1>2. CASE Bystands  BY <1>2 DEF SavedWhenQuiet, Bystands
<1>3. ASSUME NEW p \in Procs, Opens(p) \/ Proceeds(p) PROVE SavedWhenQuiet'
  BY <1>0, <1>3 DEF SavedWhenQuiet, Opens, Proceeds, LockInv
<1>4. ASSUME NEW p \in Procs, Closes(p) PROVE SavedWhenQuiet'
  BY <1>0, <1>4 DEF SavedWhenQuiet, Closes, Loaded, TypeOK
<1>. QED  BY <1>1, <1>2, <1>3, <1>4 DEF OneKind

LEMMA InitSafe == Init => LockInv /\ SavedWhenQuiet
BY ClientAssumption DEF Init, Boot, LockInv, SavedWhenQuiet

\* Between sections, after a save that reported no error, a restart would load what
\* is in memory.
THEOREM SavedCorrect == Spec => []SavedWhenQuiet
<1>1. TypeOK /\ LockInv /\ SavedWhenQuiet /\ [Next]_vars => SavedWhenQuiet'
  BY StepKinds, KindSaved
<1>. QED  BY <1>1, InitSafe, TypeCorrect, LockCorrect, PTL DEF Spec

\* A restart loses changes only in the middle of a section or after a failed save.
THEOREM RestartSafe == Spec => RestartKeepsRegistry
<1>1. TypeOK /\ SavedWhenQuiet /\ [Next]_vars =>
        [crashes' # crashes => stateData' = stateData \/ stateMu # NoOne \/ ~saveOk]_vars
  <2>1. TypeOK /\ [Next]_vars /\ crashes' # crashes => Restart
    BY StepKinds DEF OneKind, Bystands, Opens, Proceeds, Closes
  <2>. QED  BY <2>1 DEF Restart, SavedWhenQuiet
<1>. QED  BY <1>1, TypeCorrect, SavedCorrect, PTL DEF Spec, RestartKeepsRegistry

-----------------------------------------------------------------------------
(* The program as it runs: the lock of Go, which is not reentrant.          *)

\* No goroutine ever gets past the read lock it asks for while it holds the write lock.
NoneWrites == \A p \in Procs : pc[p] # "write"

LEMMA NextNoneWrites ==
  ASSUME ~ReentrantRLock, TypeOK, LockInv, NoneWrites, [Next]_vars
  PROVE  /\ NoneWrites' /\ file' = file
         /\ stateMu # NoOne /\ crashes' = crashes => stateMu' = stateMu
<1>0. NoOne \notin Procs  BY ClientAssumption
<1>1. CASE Restart  BY <1>1 DEF Restart, TypeOK, NoneWrites
<1>2. CASE Bystands  BY <1>2 DEF Bystands, NoneWrites
<1>3. ASSUME NEW p \in Procs, Opens(p)
      PROVE  NoneWrites' /\ file' = file /\ stateMu = NoOne
  BY <1>3 DEF Opens, TypeOK, NoneWrites
<1>4. ASSUME NEW p \in Procs, Proceeds(p) \/ Closes(p) PROVE FALSE
  BY <1>0, <1>4 DEF Proceeds, Closes, CanRLock, LockInv, NoneWrites
<1>. QED  BY <1>1, <1>2, <1>3, <1>4, StepKinds DEF OneKind

LEMMA NothingWritten == ~ReentrantRLock /\ Spec => []NoneWrites
<1>. SUFFICES ASSUME ~ReentrantRLock PROVE Spec => []NoneWrites  OBVIOUS
<1>1. Init => NoneWrites  BY DEF Init, NoneWrites
<1>2. TypeOK /\ LockInv /\ NoneWrites /\ [Next]_vars => NoneWrites'
  BY NextNoneWrites
<1>. QED  BY <1>1, <1>2, TypeCorrect, LockCorrect, PTL DEF Spec

\* So state.json is never written ...
THEOREM FileFrozen == ~ReentrantRLock /\ Spec => StateFileFrozen
<1>. SUFFICES ASSUME ~ReentrantRLock PROVE Spec => StateFileFrozen  OBVIOUS
<1>1. TypeOK /\ LockInv /\ NoneWrites /\ [Next]_vars => [file' = file]_vars
  BY NextNoneWrites
<1>. QED  BY <1>1, NothingWritten, TypeCorrect, LockCorrect, PTL DEF Spec, StateFileFrozen

\* ... and the first section that changes the registry is the last one to be entered
\* until the process is restarted.
THEOREM LockStays == ~ReentrantRLock /\ Spec => LockNeverReleased
<1>. SUFFICES ASSUME ~ReentrantRLock PROVE Spec => LockNeverReleased  OBVIOUS
<1>1. TypeOK /\ LockInv /\ NoneWrites /\ [Next]_vars
        => [stateMu # NoOne /\ crashes' = crashes => stateMu' = stateMu]_vars
  BY NextNoneWrites
<1>. QED  BY <1>1, NothingWritten, TypeCorrect, LockCorrect, PTL DEF Spec, LockNeverReleased

-----------------------------------------------------------------------------
(* The registry that a client of the package sees.                          *)

\* Only a removal or a restart takes away the record that a download has completed.
THEOREM CompletionKept == Spec => CompletionNeverForgotten
<1>. DEFINE Kept == \A h \in Hashes :
       stateData[h] # None /\ stateData[h].done /\ crashes' = crashes
         => stateData'[h] = None \/ stateData'[h].done
<1>1. ASSUME TypeOK, [Next]_vars, crashes' = crashes PROVE Kept
  <2>1. ~Restart  BY <1>1 DEF Restart, TypeOK
  <2>2. ASSUME NEW p \in Procs, NEW e \in Entry \cup {None}, Changes(p, e) PROVE Kept
    BY <1>1, <2>2 DEF TypeOK, Registry, Changes, OldDone, Old
  <2>3. ASSUME NEW p \in Procs, Opens(p) PROVE Kept  BY <2>2, <2>3 DEF Opens
  <2>4. CASE stateData' = stateData  BY <2>4
  <2>. QED  BY <1>1, <2>1, <2>3, <2>4, StepKinds DEF OneKind, Bystands, Proceeds, Closes
<1>2. TypeOK /\ [Next]_vars => [Kept]_vars
  BY <1>1
<1>. QED  BY <1>2, TypeCorrect, PTL DEF Spec, CompletionNeverForgotten

\* A step of the client is a step of the abstract registry, or leaves it alone: a section
\* opens with a change of one entry, truncating the file loses the durable copy, and
\* the end of the section is the end of the save.
LEMMA RegistryStep ==
  ASSUME TypeOK, LockInv, OneKind PROVE [Abstract!Next]_(Abstract!registry)
<1>0. NoOne \notin Procs /\ Torn \notin Registry  BY ClientAssumption
<1>1. CASE Restart
  BY <1>0, <1>1 DEF Restart, Abstract!Next, Abstract!Reload
<1>2. CASE Bystands  BY <1>2 DEF Bystands, Abstract!registry
<1>3. ASSUME NEW p \in Procs, Opens(p) PROVE Abstract!Next
  <2>1. PICK e \in Entry \cup {None} : Changes(p, e)  BY <1>3 DEF Opens
  <2>2. job[p].hash \in Hashes  BY DEF TypeOK, Job
  <2>3. (stateMu # NoOne) = FALSE /\ (stateMu' # NoOne) = TRUE  BY <1>0, <1>3 DEF Opens
  <2>4. Abstract!Change(job[p].hash, e)
    BY <1>3, <2>1, <2>3 DEF Opens, Changes, OldDone, Old, Abstract!Change
  <2>. QED  BY <2>2, <2>4 DEF Abstract!Next
<1>4. ASSUME NEW p \in Procs, Proceeds(p) PROVE [Abstract!Next]_(Abstract!registry)
  BY <1>0, <1>4 DEF Proceeds, LockInv, Loaded, EmptyRegistry, Abstract!Next, Abstract!Lose,
    Abstract!Empty, Abstract!registry
<1>5. ASSUME NEW p \in Procs, Closes(p) PROVE Abstract!Next
  <2>1. stateMu # NoOne  BY <1>0, <1>5 DEF Closes, LockInv
  <2>2. CASE saveOk'
    <3>1. Loaded(file') = stateData /\ stateData' = stateData
      BY <1>0, <1>5, <2>2 DEF Closes, Loaded, TypeOK
    <3>. QED  BY <1>5, <2>1, <2>2, <3>1 DEF Closes, TypeOK, Abstract!Next, Abstract!Saved
  <2>3. CASE ~saveOk'
    BY <1>5, <2>1, <2>3 DEF Closes, TypeOK, Abstract!Next, Abstract!SaveFailed
  <2>. QED  BY <2>2, <2>3
<1>. QED  BY <1>1, <1>2, <1>3, <1>4, <1>5 DEF OneKind

LEMMA RegistryInit == Init => Abstract!Init
<1>. SUFFICES ASSUME Init PROVE Abstract!Init  OBVIOUS
<1>1. Loaded(file) \in Registry  BY LoadedType, ClientAssumption DEF Init
<1>. QED  BY <1>1 DEF Init, Boot, Registry, Abstract!Init

\* The client implements the registry: whatever goroutines, requests and saves do, a
\* reader of the registry and of state.json sees a behaviour of module Registry.
THEOREM ClientImplements == Spec => ImplementsRegistry
<1>1. TypeOK /\ LockInv /\ [Next]_vars => [Abstract!Next]_(Abstract!registry)
  BY StepKinds, RegistryStep
<1>. QED  BY <1>1, RegistryInit, TypeCorrect, LockCorrect, PTL
          DEF Spec, ImplementsRegistry, Abstract!Spec
=============================================================================
