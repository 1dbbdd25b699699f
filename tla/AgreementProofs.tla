---------------------------- MODULE AgreementProofs ----------------------------
(***************************************************************************)
(* Requests that do not overlap leave the registry and the library in      *)
(* agreement, and the recovery puts back what was saved: for any sets of   *)
(* torrents and goroutines, whatever requests on other torrents do.        *)
(*                                                                         *)
(* The invariant follows each torrent through the phases of the one        *)
(* goroutine that works on it.  Where two have overlapped, the history     *)
(* variable raced records it and nothing is claimed.                       *)
(***************************************************************************)
EXTENDS TorrentClientProofs

\* No goroutine works on the torrent: it has an entry exactly when it is registered, and
\* then its metadata is known, so that adding it again waits for nothing.
Settled(h) == (stateData[h] # None <=> h \in active) /\ (h \in active => h \in gotInfo)

\* The goroutine of a recovery still has the entry it was started for before it.
Restoring(h) ==
  stateData[h] # None /\ stateData[h].magnet /\ stateData[h].seed = job[h].seed

AddPhase(p, h) ==
  /\ p \in Hashes /\ pc[p] \in {"spawned", "metadata", "enter"} => Restoring(p)
  /\ \/ pc[p] = "spawned" /\ p \in Hashes
     \/ pc[p] = "metadata" /\ handle[p] = "live" /\ h \in active /\ (p \in Hashes \/ stateData[h] = None)
     \/ pc[p] = "enter" /\ h \in gotInfo
     \/ pc[p] \in {"save", "write"} /\ h \in gotInfo /\ stateData[h] # None
StopPhase(p, h) ==
  \/ pc[p] = "drop" /\ handle[p] = "live"
  \/ pc[p] = "enter" /\ h \notin active
  \/ pc[p] \in {"save", "write"} /\ h \notin active /\ stateData[h] = None
SetPhase(p, h) == pc[p] \in {"enter", "save", "write"} /\ Settled(h)

\* Where the goroutine is that works on h, when it is the only one.
Phase(p, h) ==
  \/ job[p].op \in {"add", "seed"} /\ AddPhase(p, h)
  \/ job[p].op \in {"stop", "collect"} /\ StopPhase(p, h)
  \/ job[p].op = "set" /\ SetPhase(p, h)

\* Listing torrents changes nothing, and a stamp neither makes nor removes an entry.
Harmless == {"status", "stamp"}
AtWork(p, h) == Busy(p) /\ job[p].op \notin Harmless /\ job[p].hash = h

HashInv(h) ==
  /\ h \in toSpawn => h \notin active
  /\ \A p, q \in Procs : AtWork(p, h) /\ AtWork(q, h) /\ p # q => h \in raced
  /\ h \notin raced /\ h \notin toSpawn =>
       /\ (\A p \in Procs : ~AtWork(p, h)) => Settled(h)
       /\ \A p \in Procs : AtWork(p, h) => Phase(p, h)
\* Those goroutines hold no torrent: they only read, or change an entry and save it.
Brief(p) ==
  Busy(p) => /\ job[p].op = "status" => pc[p] = "enter"
             /\ job[p].op = "stamp" => pc[p] \in {"enter", "save", "write"}
AllBrief == (\A p \in Procs : Brief(p))
AgreeInv == AllBrief /\ \A h \in Hashes : HashInv(h)

-----------------------------------------------------------------------------
USE DEF shared, disk, library, history, locals, Harmless, Brief

\* What concerns h is as it was.
Untouched(h) ==
  /\ stateData'[h] = None <=> stateData[h] = None
  /\ stateData[h] # None =>
       stateData'[h].magnet = stateData[h].magnet /\ stateData'[h].seed = stateData[h].seed
  /\ (h \in active' <=> h \in active) /\ (h \in gotInfo' <=> h \in gotInfo)
  /\ (h \in raced => h \in raced') /\ (h \in toSpawn' <=> h \in toSpawn)
  /\ \A p \in Procs : AtWork(p, h)' <=> AtWork(p, h)
  /\ \A p \in Procs : AtWork(p, h) => pc'[p] = pc[p] /\ job'[p] = job[p] /\ handle'[p] = handle[p]

LEMMA UntouchedKeeps ==
  ASSUME RecoveryInv, NEW h \in Hashes, HashInv(h), Untouched(h)
  PROVE  HashInv(h)'
<1>1. ASSUME NEW p \in Procs, AtWork(p, h), Phase(p, h) PROVE Phase(p, h)'
  <2>1. p \in Hashes => p = h  BY <1>1 DEF AtWork, RecoveryInv
  <2>. QED  BY <1>1, <2>1 DEF Untouched, Phase, AddPhase, StopPhase, SetPhase, Settled, Restoring
<1>2. Settled(h) => Settled(h)'  BY DEF Untouched, Settled
<1>. QED  BY <1>1, <1>2 DEF Untouched, HashInv

\* A step of p that concerns no torrent but k.
Confined(p, k) ==
  /\ \A h \in Hashes \ {k} :
       /\ stateData'[h] = stateData[h]
       /\ (h \in active' <=> h \in active) /\ (h \in gotInfo' <=> h \in gotInfo)
       /\ (h \in raced => h \in raced') /\ (h \in toSpawn' <=> h \in toSpawn)
  /\ \A q \in Procs \ {p} :
       /\ pc'[q] = pc[q] /\ job'[q] = job[q]
       /\ handle'[q] = handle[q] \/ job[q].hash = k
  /\ \A h \in Hashes \ {k} : ~AtWork(p, h) /\ ~AtWork(p, h)'
  /\ Brief(p)'

LEMMA ConfinedKeeps ==
  ASSUME RecoveryInv, AgreeInv, NEW p \in Procs, NEW k \in Hashes, Confined(p, k),
         k \notin toSpawn',
         \/ k \in raced'
         \/ /\ \A q \in Procs \ {p} : ~AtWork(q, k)
            /\ IF AtWork(p, k)' THEN Phase(p, k)' ELSE Settled(k)'
  PROVE  AgreeInv'
<1>1. AllBrief'  BY DEF AgreeInv, AllBrief, Confined, Busy
<1>2. ASSUME NEW h \in Hashes \ {k} PROVE HashInv(h)'
  <2>1. Untouched(h)  BY DEF Confined, Untouched, AtWork, Busy
  <2>. QED  BY <2>1, UntouchedKeeps DEF AgreeInv
<1>3. HashInv(k)'
  <2>1. \A q \in Procs \ {p} : AtWork(q, k)' <=> AtWork(q, k)
    BY DEF Confined, AtWork, Busy
  <2>. QED  BY <2>1 DEF HashInv
<1>. QED  BY <1>1, <1>2, <1>3 DEF AgreeInv

\* Dropping a torrent touches no other, nor the goroutines that work on others.
LEMMA DropLemma ==
  ASSUME TypeOK, NEW p \in Procs, DropHandle(p), NEW k, k = job[p].hash
  PROVE  /\ \A h \in Hashes \ {k} : (h \in active' <=> h \in active) /\ (h \in gotInfo' <=> h \in gotInfo)
         /\ \A q \in Procs \ {p} : handle'[q] = handle[q] \/ job[q].hash = k
         /\ handle[p] = "live" => k \notin active'
BY DEF TypeOK, DropHandle

-----------------------------------------------------------------------------
\* A step of the goroutine p that works on k concerns no other torrent, and leaves the
\* goroutine in the next phase or, when it is done, the torrent settled.
WorkGoesOn(p, k) ==
  /\ Confined(p, k) /\ (k \in raced => k \in raced') /\ toSpawn' = toSpawn
  /\ Phase(p, k) /\ k \notin raced' => IF AtWork(p, k)' THEN Phase(p, k)' ELSE Settled(k)'

LEMMA BusyStep == ASSUME NEW p \in Procs, Step(p) PROVE Busy(p)
BY DEF Busy, Step, Waiting, Section, Saving, MetadataArrived, MetadataTimeout, GiveUp, StopDrop,
  StoreAdded, StoreSeeded, StoreSeedTime, SeedTimeRefused, DeleteEntry, StatusRead, Enter,
  SaveState, OpenFails, WriteDone, WriteFails

\* Waiting for the metadata, and dropping the torrent.
LEMMA WaitingGoesOn ==
  ASSUME TypeOK, RecoveryInv, NEW p \in Procs, NEW k \in Hashes, AtWork(p, k),
         Waiting(p) \/ StopDrop(p)
  PROVE  WorkGoesOn(p, k)
<1>0. job[p].hash = k /\ job[p].op \notin Harmless /\ Busy(p)  BY DEF AtWork
<1>1. p \in Hashes => p = k /\ job[p].op = "add"  BY <1>0 DEF RecoveryInv
<1>2. CASE MetadataArrived(p)
  <2>1. /\ pc[p] = "metadata" /\ pc' = [pc EXCEPT ![p] = "enter"] /\ pc'[p] = "enter"
        /\ handle[p] = "live" => k \in gotInfo
        /\ UNCHANGED <<job, handle, active, gotInfo, stateData, toSpawn, raced>>
    BY <1>0, <1>2 DEF MetadataArrived, TypeOK
  <2>2. Confined(p, k)  BY <1>0, <2>1 DEF Confined, AtWork
  <2>3. Phase(p, k) => Phase(p, k)'
    BY <1>1, <2>1 DEF Phase, AddPhase, StopPhase, SetPhase, Restoring
  <2>4. AtWork(p, k)'  BY <1>0, <2>1 DEF AtWork, Busy
  <2>. QED  BY <2>1, <2>2, <2>3, <2>4 DEF WorkGoesOn
<1>3. CASE MetadataTimeout(p)
  <2>1. /\ pc[p] = "metadata" /\ pc' = [pc EXCEPT ![p] = "idle"]
        /\ job' = [job EXCEPT ![p] = IdleJob]
        /\ raced' = IF p \in Hashes THEN raced \cup {p} ELSE raced
        /\ DropHandle(p) /\ UNCHANGED <<stateData, toSpawn>>
    BY <1>3 DEF MetadataTimeout, GiveUp, Finish
  <2>2. /\ \A h \in Hashes \ {k} : (h \in active' <=> h \in active) /\ (h \in gotInfo' <=> h \in gotInfo)
        /\ \A q \in Procs \ {p} : handle'[q] = handle[q] \/ job[q].hash = k
        /\ handle[p] = "live" => k \notin active'
    BY <1>0, <2>1, DropLemma
  <2>3. ~Busy(p)'  BY <2>1 DEF Busy, TypeOK
  <2>4. Confined(p, k)
    <3>1. \A q \in Procs \ {p} : pc'[q] = pc[q] /\ job'[q] = job[q]  BY <2>1 DEF TypeOK
    <3>. QED  BY <1>0, <1>1, <2>1, <2>2, <2>3, <3>1 DEF Confined, AtWork
  <2>5. k \notin raced' /\ Phase(p, k) => Settled(k)'
    <3>1. k \notin raced' => p \notin Hashes  BY <1>1, <2>1
    <3>. QED  BY <2>1, <2>2, <3>1 DEF Phase, AddPhase, StopPhase, SetPhase, Settled
  <2>. QED  BY <2>1, <2>3, <2>4, <2>5 DEF WorkGoesOn, AtWork
<1>4. CASE StopDrop(p)
  <2>1. /\ pc[p] = "drop" /\ pc' = [pc EXCEPT ![p] = "enter"] /\ pc'[p] = "enter"
        /\ DropHandle(p) /\ UNCHANGED <<job, stateData, toSpawn, raced>>
    BY <1>4 DEF StopDrop, TypeOK
  <2>2. /\ \A h \in Hashes \ {k} : (h \in active' <=> h \in active) /\ (h \in gotInfo' <=> h \in gotInfo)
        /\ \A q \in Procs \ {p} : handle'[q] = handle[q] \/ job[q].hash = k
        /\ handle[p] = "live" => k \notin active'
    BY <1>0, <2>1, DropLemma
  <2>3. Confined(p, k)  BY <1>0, <2>1, <2>2 DEF Confined, AtWork
  <2>4. Phase(p, k) => Phase(p, k)'
    BY <2>1, <2>2 DEF Phase, AddPhase, StopPhase, SetPhase
  <2>5. AtWork(p, k)'  BY <1>0, <2>1 DEF AtWork, Busy
  <2>. QED  BY <2>1, <2>3, <2>4, <2>5 DEF WorkGoesOn
<1>. QED  BY <1>2, <1>3, <1>4 DEF Waiting

\* The sections that change the entry.
LEMMA CommitGoesOn ==
  ASSUME TypeOK, NEW p \in Procs, NEW k \in Hashes, AtWork(p, k), pc[p] = "enter",
         NEW e \in Entry \cup {None}, Commit(p, e),
         Phase(p, k) => CASE job[p].op \in {"add", "seed"} -> e # None
                          [] job[p].op \in {"stop", "collect"} -> e = None
                          [] OTHER -> e # None /\ k \in active
  PROVE  WorkGoesOn(p, k)
<1>0. job[p].hash = k /\ job[p].op \notin Harmless /\ Busy(p)  BY DEF AtWork
<1>1. /\ pc' = [pc EXCEPT ![p] = "save"] /\ pc'[p] = "save"
      /\ handle' = [handle EXCEPT ![p] = "none"]
      /\ stateData' = [stateData EXCEPT ![k] = e] /\ stateData'[k] = e
      /\ UNCHANGED <<job, active, gotInfo, toSpawn, raced>>
  BY <1>0 DEF Commit, TypeOK, Registry
<1>2. \A h \in Hashes \ {k} : stateData'[h] = stateData[h]  BY <1>1 DEF TypeOK, Registry
<1>3. Confined(p, k)  BY <1>0, <1>1, <1>2 DEF Confined, AtWork
<1>4. ASSUME Phase(p, k) PROVE Phase(p, k)'
  <2>1. CASE job[p].op \in {"add", "seed"}
    BY <1>1, <1>4, <2>1 DEF Phase, AddPhase
  <2>2. CASE job[p].op \in {"stop", "collect"}  BY <1>1, <1>4, <2>2 DEF Phase, StopPhase
  <2>3. CASE job[p].op = "set"  BY <1>1, <1>4, <2>3 DEF Phase, SetPhase, Settled
  <2>. QED  BY <1>4, <2>1, <2>2, <2>3 DEF Phase
<1>5. AtWork(p, k)'  BY <1>0, <1>1 DEF AtWork, Busy
<1>. QED  BY <1>1, <1>3, <1>4, <1>5 DEF WorkGoesOn

LEMMA SectionGoesOn ==
  ASSUME TypeOK, NEW p \in Procs, NEW k \in Hashes, AtWork(p, k), Section(p)
  PROVE  WorkGoesOn(p, k)
<1>0. job[p].hash = k /\ job[p].op \notin Harmless /\ Busy(p)  BY DEF AtWork
<1>1. CASE StoreAdded(p)
  BY <1>1, CommitGoesOn, EntryTypes, ClientAssumption DEF StoreAdded, Enter
<1>2. CASE StoreSeeded(p)
  BY <1>2, CommitGoesOn, EntryTypes, ClientAssumption DEF StoreSeeded, Enter
<1>3. CASE DeleteEntry(p)  BY <1>3, CommitGoesOn DEF DeleteEntry, Enter
<1>4. CASE StoreSeedTime(p)
  <2>1. Phase(p, k) => k \in active
    BY <1>0, <1>4 DEF StoreSeedTime, Enter, Known, Old, Phase, SetPhase, Settled
  <2>. QED  BY <1>4, <2>1, CommitGoesOn, EntryTypes, ClientAssumption DEF StoreSeedTime, Enter
<1>5. CASE SeedTimeRefused(p)
  <2>1. /\ pc' = [pc EXCEPT ![p] = "idle"] /\ job' = [job EXCEPT ![p] = IdleJob]
        /\ UNCHANGED <<handle, active, gotInfo, stateData, toSpawn, raced>>
        /\ job[p].op = "set"
    BY <1>5 DEF SeedTimeRefused, Enter, LeaveUnchanged, Finish
  <2>2. ~Busy(p)'  BY <2>1 DEF Busy, TypeOK
  <2>3. Confined(p, k)  BY <1>0, <2>1, <2>2 DEF Confined, AtWork, TypeOK
  <2>4. Phase(p, k) => Settled(k)'  BY <2>1 DEF Phase, SetPhase, Settled
  <2>. QED  BY <2>1, <2>2, <2>3, <2>4 DEF WorkGoesOn, AtWork
<1>6. ~StatusRead(p)  BY <1>0 DEF StatusRead, Enter
<1>. QED  BY <1>1, <1>2, <1>3, <1>4, <1>5, <1>6 DEF Section

\* The save, and the end of the section.
LEMMA SavingGoesOn ==
  ASSUME TypeOK, NEW p \in Procs, NEW k \in Hashes, AtWork(p, k), Saving(p)
  PROVE  WorkGoesOn(p, k)
<1>0. job[p].hash = k /\ job[p].op \notin Harmless /\ Busy(p)  BY DEF AtWork
<1>1. CASE SaveState(p)
  <2>1. /\ pc[p] = "save" /\ pc' = [pc EXCEPT ![p] = "write"] /\ pc'[p] = "write"
        /\ UNCHANGED <<job, handle, active, gotInfo, stateData, toSpawn, raced>>
    BY <1>1 DEF SaveState, TypeOK
  <2>2. Confined(p, k)  BY <1>0, <2>1 DEF Confined, AtWork
  <2>3. Phase(p, k) => Phase(p, k)'
    BY <2>1 DEF Phase, AddPhase, StopPhase, SetPhase, Settled
  <2>4. AtWork(p, k)'  BY <1>0, <2>1 DEF AtWork, Busy
  <2>. QED  BY <2>1, <2>2, <2>3, <2>4 DEF WorkGoesOn
<1>2. CASE OpenFails(p) \/ WriteDone(p) \/ WriteFails(p)
  <2>1. /\ pc' = [pc EXCEPT ![p] = "idle"] /\ job' = [job EXCEPT ![p] = IdleJob]
        /\ UNCHANGED <<handle, active, gotInfo, stateData, toSpawn, raced>>
        /\ pc[p] \in {"save", "write"}
    BY <1>2 DEF OpenFails, WriteDone, WriteFails, Unlock, Finish
  <2>2. ~Busy(p)'  BY <2>1 DEF Busy, TypeOK
  <2>3. Confined(p, k)  BY <1>0, <2>1, <2>2 DEF Confined, AtWork, TypeOK
  <2>. gotInfo \subseteq active  BY DEF TypeOK
  <2>4. Phase(p, k) => Settled(k)'
    BY <2>1 DEF Phase, AddPhase, StopPhase, SetPhase, Settled
  <2>. QED  BY <2>1, <2>2, <2>3, <2>4 DEF WorkGoesOn, AtWork
<1>. QED  BY <1>1, <1>2 DEF Saving

LEMMA HarmlessStep ==
  ASSUME AgreeInv, NEW p \in Procs, Step(p), job[p].op \in Harmless
  PROVE  StatusRead(p) \/ (Saving(p) /\ job[p].op = "stamp")
<1>1. /\ job[p].op = "status" => pc[p] = "enter"
      /\ job[p].op = "stamp" => pc[p] \in {"enter", "save", "write"}
  BY BusyStep DEF AgreeInv, AllBrief
<1>. QED
  BY <1>1 DEF Step, Waiting, Section, Saving, MetadataArrived, MetadataTimeout, GiveUp,
    StopDrop, StoreAdded, StoreSeeded, StoreSeedTime, SeedTimeRefused, DeleteEntry, StatusRead,
    Enter, SaveState, OpenFails, WriteDone, WriteFails

\* A goroutine that works on a torrent, or finishes its work.
LEMMA StepAgree ==
  ASSUME TypeOK, RecoveryInv, AgreeInv, NEW p \in Procs, Step(p)
  PROVE  AgreeInv'
<1>1. Busy(p)  BY BusyStep
<1>2. CASE job[p].op \in Harmless
  <2>1. CASE StatusRead(p)
    <3>1. /\ pc' = [pc EXCEPT ![p] = "idle"] /\ job' = [job EXCEPT ![p] = IdleJob]
          /\ UNCHANGED <<handle, active, gotInfo, stateData, toSpawn, raced>>
      BY <2>1 DEF StatusRead, LeaveUnchanged, Finish
    <3>2. ASSUME NEW h \in Hashes PROVE Untouched(h)
      BY <1>2, <3>1 DEF Untouched, AtWork, Busy, TypeOK
    <3>3. AllBrief'  BY <3>1 DEF TypeOK, AgreeInv, AllBrief, Busy
    <3>. QED  BY <3>2, <3>3, UntouchedKeeps DEF AgreeInv
  <2>2. CASE Saving(p) /\ job[p].op = "stamp"
    <3>1. /\ \/ pc' = [pc EXCEPT ![p] = "write"] /\ job' = job
             \/ pc' = [pc EXCEPT ![p] = "idle"] /\ job' = [job EXCEPT ![p] = IdleJob]
          /\ UNCHANGED <<handle, active, gotInfo, stateData, toSpawn, raced>>
      BY <2>2 DEF Saving, SaveState, OpenFails, WriteDone, WriteFails, Unlock, Finish
    <3>2. ASSUME NEW h \in Hashes PROVE Untouched(h)
      <4>1. IdleJob.op = "none"  BY DEF IdleJob
      <4>. QED  BY <1>1, <2>2, <3>1, <4>1 DEF Untouched, AtWork, Busy, TypeOK
    <3>3. AllBrief'  BY <2>2, <3>1 DEF TypeOK, AgreeInv, AllBrief, Busy
    <3>. QED  BY <3>2, <3>3, UntouchedKeeps DEF AgreeInv
  <2>3. StatusRead(p) \/ (Saving(p) /\ job[p].op = "stamp")  BY <1>2, HarmlessStep
  <2>. QED  BY <2>1, <2>2, <2>3
<1>3. CASE job[p].op \notin Harmless
  <2>1. PICK k \in Hashes : AtWork(p, k)  BY <1>1, <1>3 DEF AtWork, TypeOK, Job
  <2>2. k \notin toSpawn  BY <2>1 DEF RecoveryInv, AtWork
  <2>3. k \notin raced => Phase(p, k) /\ \A q \in Procs \ {p} : ~AtWork(q, k)
    BY <2>1, <2>2 DEF AgreeInv, HashInv
  <2>4. WorkGoesOn(p, k)
    BY <2>1, WaitingGoesOn, SectionGoesOn, SavingGoesOn DEF Step
  <2>. QED  BY <2>2, <2>3, <2>4, ConfinedKeeps DEF WorkGoesOn
<1>. QED  BY <1>2, <1>3

-----------------------------------------------------------------------------
\* A goroutine p takes up work on k: whatever it finds there, either another goroutine
\* is at work on k, which raced records, or k is settled and the first phase begins.
Begins(p, k) ==
  /\ ~Busy(p) /\ AtWork(p, k)'
  /\ \A h \in Hashes \ {k} :
       /\ stateData'[h] = stateData[h]
       /\ (h \in active' <=> h \in active) /\ (h \in gotInfo' <=> h \in gotInfo)
       /\ (h \in raced' <=> h \in raced)
  /\ k \in raced => k \in raced'
  /\ \A q \in Procs \ {p} : pc'[q] = pc[q] /\ job'[q] = job[q] /\ handle'[q] = handle[q]

LEMMA TakeAgree ==
  ASSUME RecoveryInv, AgreeInv, NEW p \in Procs, NEW k \in Hashes, Begins(p, k),
         toSpawn = {}, toSpawn' = {},
         k \in raced' \/ WorkingOn(k) \ {p} = {},
         Settled(k) /\ k \notin raced' => Phase(p, k)'
  PROVE  AgreeInv'
<1>1. Confined(p, k)  BY DEF Begins, Confined, AtWork
<1>2. CASE k \in raced'  BY <1>1, <1>2, ConfinedKeeps
<1>3. CASE k \notin raced'
  <2>1. \A q \in Procs : ~AtWork(q, k)
    BY <1>3 DEF WorkingOn, AtWork, Begins
  <2>2. Settled(k)  BY <1>3, <2>1 DEF AgreeInv, HashInv, Begins
  <2>. QED  BY <1>1, <1>3, <2>1, <2>2, ConfinedKeeps DEF Begins
<1>. QED  BY <1>2, <1>3

\* A goroutine registers a torrent, on a request or of its own accord.
LEMMA RegisterAgree ==
  ASSUME TypeOK, RecoveryInv, AgreeInv, NEW p \in Procs \ Hashes, NEW op \in {"add", "seed"},
         NEW h \in Hashes, NEW s \in SeedTimes,
         pc[p] = "idle", toSpawn = {}, Register(p, op, h, s)
  PROVE  AgreeInv'
<1>1. /\ job'[p].op = op /\ job'[p].hash = h
      /\ pc'[p] = IF h \in gotInfo' THEN "enter" ELSE "metadata"
      /\ handle'[p] = "live" /\ active' = active \cup {h}
      /\ gotInfo' = IF op = "seed" THEN gotInfo \cup {h} ELSE gotInfo
      /\ \A q \in Procs \ {p} : pc'[q] = pc[q] /\ job'[q] = job[q] /\ handle'[q] = handle[q]
      /\ MarkOverlap(p, h)
      /\ UNCHANGED <<stateData, toSpawn>>
  BY DEF Register, Take, TypeOK
<1>2. Begins(p, h)  BY <1>1 DEF Begins, AtWork, Busy, MarkOverlap
<1>3. Settled(h) => Phase(p, h)'
  BY <1>1 DEF Phase, AddPhase, Settled
<1>. QED  BY <1>1, <1>2, <1>3, TakeAgree DEF MarkOverlap

\* A request for a torrent.
LEMMA RequestAgree ==
  ASSUME TypeOK, RecoveryInv, AgreeInv, NEW w \in Workers, Request(w)
  PROVE  AgreeInv'
<1>. w \in Procs /\ w \notin Hashes  BY ClientAssumption DEF Procs
<1>1. CASE BeginStatus(w)
  <2>1. /\ pc[w] = "idle" /\ pc' = [pc EXCEPT ![w] = "enter"] /\ pc'[w] = "enter"
        /\ job'[w].op = "status" /\ \A q \in Procs \ {w} : job'[q] = job[q]
        /\ UNCHANGED <<handle, active, gotInfo, stateData, toSpawn, raced>>
    BY <1>1 DEF BeginStatus, Free, Take, TypeOK
  <2>2. ASSUME NEW h \in Hashes PROVE Untouched(h)  BY <2>1 DEF Untouched, AtWork, Busy
  <2>3. AllBrief'  BY <2>1 DEF AgreeInv, AllBrief, Busy
  <2>. QED  BY <2>2, <2>3, UntouchedKeeps DEF AgreeInv
<1>2. ASSUME NEW h \in Hashes, BeginStop(w, h) PROVE AgreeInv'
  <2>1. /\ pc[w] = "idle" /\ pc' = [pc EXCEPT ![w] = "drop"] /\ pc'[w] = "drop"
        /\ job'[w].op = "stop" /\ job'[w].hash = h
        /\ handle' = [handle EXCEPT ![w] = "live"] /\ handle'[w] = "live"
        /\ \A q \in Procs \ {w} : job'[q] = job[q] /\ handle'[q] = handle[q]
        /\ toSpawn = {} /\ MarkOverlap(w, h)
        /\ UNCHANGED <<active, gotInfo, stateData, toSpawn>>
    BY <1>2 DEF BeginStop, Free, Take, TypeOK
  <2>2. Begins(w, h)  BY <2>1 DEF Begins, AtWork, Busy, MarkOverlap
  <2>3. Phase(w, h)'  BY <2>1 DEF Phase, StopPhase
  <2>. QED  BY <2>1, <2>2, <2>3, TakeAgree DEF MarkOverlap
<1>3. ASSUME NEW h \in Hashes, NEW s \in SeedTimes, BeginSet(w, h, s) PROVE AgreeInv'
  <2>1. /\ pc[w] = "idle" /\ pc' = [pc EXCEPT ![w] = "enter"] /\ pc'[w] = "enter"
        /\ job'[w].op = "set" /\ job'[w].hash = h
        /\ \A q \in Procs \ {w} : job'[q] = job[q]
        /\ toSpawn = {} /\ MarkOverlap(w, h)
        /\ UNCHANGED <<handle, active, gotInfo, stateData, toSpawn>>
    BY <1>3 DEF BeginSet, Free, Take, TypeOK
  <2>2. Begins(w, h)  BY <2>1 DEF Begins, AtWork, Busy, MarkOverlap
  <2>3. Settled(h) => Phase(w, h)'  BY <2>1 DEF Phase, SetPhase, Settled
  <2>. QED  BY <2>1, <2>2, <2>3, TakeAgree DEF MarkOverlap
<1>. QED
  BY <1>1, <1>2, <1>3, RegisterAgree DEF Request, BeginAdd, BeginSeed, Free

\* The start of the recovery of one torrent.  No request is served before the last is
\* started, so that nobody else is at work on it.
LEMMA SpawnAgree ==
  ASSUME TypeOK, RecoveryInv, AgreeInv, NEW h \in Hashes, Spawn(h)
  PROVE  AgreeInv'
<1>. h \in Procs  BY DEF Procs
<1>1. /\ h \in toSpawn /\ toSpawn' = toSpawn \ {h} /\ stateData[h] # None /\ ~Busy(h)
      /\ h \notin active /\ stateData[h] \in Entry
      /\ UNCHANGED <<handle, active, gotInfo, stateData>>
  BY DEF Spawn, RecoveryInv, AgreeInv, HashInv, TypeOK, Registry
<1>2. \A q \in Procs \ {h} : ~AtWork(q, h)
  <2>1. \A q \in Procs \ Hashes : ~Busy(q)  BY <1>1 DEF RecoveryInv
  <2>. QED  BY <2>1 DEF AtWork, RecoveryInv
<1>3. CASE stateData[h].magnet
  <2>1. /\ pc'[h] = "spawned" /\ job'[h].op = "add" /\ job'[h].hash = h
        /\ job'[h].seed = stateData[h].seed /\ raced' = raced
        /\ \A q \in Procs \ {h} : pc'[q] = pc[q] /\ job'[q] = job[q]
    BY <1>3 DEF Spawn, Take, TypeOK
  <2>2. Confined(h, h) /\ h \notin toSpawn'  BY <1>1, <2>1 DEF Confined, AtWork
  <2>3. Phase(h, h)'  BY <1>1, <1>3, <2>1 DEF Phase, AddPhase, Restoring
  <2>4. AtWork(h, h)'  BY <2>1 DEF AtWork, Busy
  <2>. QED  BY <1>2, <2>2, <2>3, <2>4, ConfinedKeeps
<1>4. CASE ~stateData[h].magnet
  <2>1. raced' = raced \cup {h} /\ UNCHANGED <<pc, job>>  BY <1>4 DEF Spawn
  <2>2. Confined(h, h) /\ h \notin toSpawn'  BY <1>1, <2>1 DEF Confined, AtWork, Busy
  <2>. QED  BY <2>1, <2>2, ConfinedKeeps
<1>. QED  BY <1>3, <1>4

LEMMA BootAgree ==
  ASSUME TypeOK, RecoveryInv, AgreeInv, NEW h \in Hashes, BootAdd(h)
  PROVE  AgreeInv'
<1>. h \in Procs  BY DEF Procs
<1>1. job[h].op = "add" /\ job[h].hash = h /\ Busy(h) /\ h \notin toSpawn /\ AtWork(h, h)
  BY DEF BootAdd, Busy, RecoveryInv, AtWork
<1>2. /\ pc[h] = "spawned" /\ job'[h] = [op |-> "add", hash |-> h, seed |-> job[h].seed]
      /\ pc'[h] = IF h \in gotInfo' THEN "enter" ELSE "metadata"
      /\ handle'[h] = "live" /\ active' = active \cup {h} /\ gotInfo' = gotInfo
      /\ \A q \in Procs \ {h} : pc'[q] = pc[q] /\ job'[q] = job[q] /\ handle'[q] = handle[q]
      /\ raced' = IF WorkingOn(h) \ {h} # {} THEN raced \cup {h} ELSE raced
      /\ UNCHANGED <<stateData, toSpawn>>
  BY DEF BootAdd, Register, Take, MarkOverlap, TypeOK
<1>3. Confined(h, h)  BY <1>1, <1>2 DEF Confined, AtWork
<1>4. CASE h \in raced'  BY <1>1, <1>2, <1>3, <1>4, ConfinedKeeps
<1>5. CASE h \notin raced'
  <2>1. h \notin raced  BY <1>2, <1>5
  <2>2. Phase(h, h) /\ \A q \in Procs \ {h} : ~AtWork(q, h)
    BY <1>1, <2>1 DEF AgreeInv, HashInv
  <2>3. Phase(h, h)' /\ AtWork(h, h)'
    BY <1>1, <1>2, <2>2 DEF Phase, AddPhase, StopPhase, SetPhase, Restoring, AtWork, Busy
  <2>. QED  BY <1>1, <1>2, <1>3, <2>2, <2>3, ConfinedKeeps
<1>. QED  BY <1>4, <1>5

\* Metadata only ever adds to what the phases ask for.
LEMMA InfoAgree ==
  ASSUME TypeOK, RecoveryInv, AgreeInv, NEW h \in Hashes, InfoArrives(h)
  PROVE  AgreeInv'
<1>1. gotInfo' = gotInfo \cup {h} /\ UNCHANGED <<active, stateData, toSpawn, pc, job, handle, raced>>
  BY DEF InfoArrives
<1>2. ASSUME NEW g \in Hashes, NEW p \in Procs, Phase(p, g) PROVE Phase(p, g)'
  BY <1>1, <1>2 DEF Phase, AddPhase, StopPhase, SetPhase, Settled, Restoring
<1>3. \A g \in Hashes : Settled(g) => Settled(g)'  BY <1>1 DEF Settled
<1>4. \A g \in Hashes, p \in Procs : AtWork(p, g)' <=> AtWork(p, g)  BY <1>1 DEF AtWork, Busy
<1>. QED  BY <1>1, <1>2, <1>3, <1>4 DEF AgreeInv, AllBrief, HashInv, Busy

\* Every process idle and nothing registered: what awaits its recovery is all there is.
LEMMA AwakeAgree ==
  ASSUME pc = [p \in Procs |-> "idle"], active = {}, toSpawn = Persisted(stateData)
  PROVE  AgreeInv
BY DEF AgreeInv, AllBrief, HashInv, AtWork, Busy, Settled, Persisted

LEMMA RestartAgree == ASSUME TypeOK, Restart PROVE AgreeInv'
<1>1. /\ pc' = [p \in Procs |-> "idle"] /\ active' = {}
      /\ toSpawn' = Persisted(Loaded(file)) /\ stateData' = Loaded(file)
  BY DEF Restart
<1>. QED  BY <1>1 DEF AgreeInv, AllBrief, HashInv, AtWork, Busy, Settled, Persisted

LEMMA NextAgree == ASSUME TypeOK, RecoveryInv, AgreeInv, [Next]_vars PROVE AgreeInv'
<1>1. CASE UNCHANGED vars
  BY <1>1 DEF vars, AgreeInv, AllBrief, HashInv, AtWork, Busy, Settled, Phase, AddPhase,
    StopPhase, SetPhase, Restoring
<1>. QED
  BY <1>1, InfoAgree, SpawnAgree, BootAgree, RequestAgree, StepAgree, RestartAgree DEF Next

\* In every reachable state: the invariant that the phases make inductive.
THEOREM PhasesCorrect == Spec => []AgreeInv
<1>1. Init => AgreeInv  BY AwakeAgree DEF Init, Boot
<1>2. TypeOK /\ RecoveryInv /\ AgreeInv /\ [Next]_vars => AgreeInv'  BY NextAgree
<1>. QED  BY <1>1, <1>2, TypeCorrect, PTL DEF Spec

LEMMA Agrees == AgreeInv => Agreement
BY DEF AgreeInv, HashInv, Agreement, AtWork, WorkingOn, Settled

\* Requests that do not overlap leave the registry and the library in agreement.
THEOREM AgreementCorrect == Spec => []Agreement
BY Agrees, PhasesCorrect, PTL

\* Only its own section gives stateMu to the goroutine of a recovery.
LEMMA OnlyStoreAdded ==
  ASSUME TypeOK, RecoveryInv, [Next]_vars, NEW h \in Hashes, stateMu' = h, stateMu # h
  PROVE  StoreAdded(h) /\ Busy(h)
<1>0. h \in Procs /\ NoOne # h  BY ClientAssumption DEF Procs
<1>1. ~Restart /\ ~UNCHANGED vars  BY <1>0 DEF Restart, vars
<1>2. \A g \in Hashes : ~InfoArrives(g) /\ ~Spawn(g) /\ ~BootAdd(g)
  BY DEF InfoArrives, Spawn, BootAdd, Register
<1>3. \A w \in Workers : ~Request(w)
  BY DEF Request, BeginStatus, BeginStop, BeginSet, BeginAdd, BeginSeed, Register
<1>4. PICK p \in Procs : Step(p)  BY <1>1, <1>2, <1>3 DEF Next
<1>5. ~Waiting(p) /\ ~StopDrop(p) /\ ~Saving(p) /\ ~SeedTimeRefused(p) /\ ~StatusRead(p)
  BY <1>0 DEF Waiting, MetadataArrived, MetadataTimeout, GiveUp, StopDrop, Saving, SaveState,
    OpenFails, WriteDone, WriteFails, Unlock, SeedTimeRefused, StatusRead, LeaveUnchanged
<1>6. p = h /\ (StoreAdded(h) \/ StoreSeeded(h) \/ StoreSeedTime(h) \/ DeleteEntry(h))
  BY <1>4, <1>5 DEF Step, Section, StoreAdded, StoreSeeded, StoreSeedTime, DeleteEntry, Commit
<1>7. Busy(h)  BY <1>0, <1>4, <1>6, BusyStep
<1>. QED  BY <1>6, <1>7 DEF RecoveryInv, StoreSeeded, StoreSeedTime, DeleteEntry, Enter

\* A recovery that no request overlaps stores what is there already.
LEMMA Restored ==
  ASSUME TypeOK, RecoveryInv, AgreeInv, [Next]_vars,
         NEW h \in Hashes, stateMu' = h, stateMu # h, stateData[h] # None, h \notin raced
  PROVE  stateData' = stateData
<1>0. h \in Procs  BY DEF Procs
<1>1. StoreAdded(h) /\ Busy(h)  BY OnlyStoreAdded
<1>2. pc[h] = "enter" /\ job[h].op = "add" /\ job[h].hash = h /\ h \notin toSpawn
  BY <1>1 DEF StoreAdded, Enter, RecoveryInv
<1>3. Restoring(h)
  BY <1>0, <1>1, <1>2 DEF AgreeInv, HashInv, AtWork, Phase, AddPhase
<1>4. stateData' = [stateData EXCEPT ![h] = [magnet |-> TRUE, seed |-> job[h].seed, done |-> OldDone(h)]]
  BY <1>1, <1>2 DEF StoreAdded, Commit
<1>5. stateData[h] \in Entry  BY DEF TypeOK, Registry
<1>6. stateData[h] = [magnet |-> TRUE, seed |-> job[h].seed, done |-> OldDone(h)]
  BY <1>2, <1>3, <1>5 DEF Restoring, OldDone, Old, Entry
<1>. QED  BY <1>4, <1>6 DEF TypeOK, Registry

\* A recovery that no request overlaps puts back exactly the entry that was saved.
THEOREM RecoveryCorrect == Spec => RecoveryRestores
<1>. DEFINE Restores == \A h \in Hashes :
       stateMu' = h /\ stateMu # h /\ stateData[h] # None /\ h \notin raced => stateData' = stateData
<1>1. TypeOK /\ RecoveryInv /\ AgreeInv /\ [Next]_vars => [Restores]_vars  BY Restored
<1>. QED  BY <1>1, TypeCorrect, PhasesCorrect, PTL DEF Spec, RecoveryRestores
=============================================================================
