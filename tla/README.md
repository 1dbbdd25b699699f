# gorrent: a TLA+ verification of the daemon

gorrent is a torrent daemon with an HTTP interface. These modules model the parts of it in which
several goroutines, a restart, or a failure in the middle of an operation decide whether the daemon
does what its documentation says: the registry of torrents and its file, the goroutines that work on
the registry, the search over several sources with its cache and circuit breaker, the shared state of
two of the sources and of the resolver, and the two handlers of the daemon that start goroutines of
their own; and two calculations whose edges matter, the seed time and the playlists. TLC checks each
on small instances; TLAPS proves the safety properties for every value of the constants.
Every definition is translated from the source; the map in PROJECT.json names the lines.

Contents: [1 The system](#1-the-system) · [2 The modules](#2-the-modules-and-the-code) ·
[3 The runs](#3-the-runs) · [4 Bounds](#4-bounds-and-why-they-are-enough) ·
[5 Fairness](#5-fairness) · [6 Proofs](#6-what-is-proved) ·
[7 Differences from the documentation](#7-where-code-and-documentation-differ) ·
[8 Not modelled](#8-what-is-not-modelled) · [9 Plan](#9-plan)

To repeat a check, run TLC on the module and the configuration that the `runs` of PROJECT.json
name (`tlc -config client.cfg MCTorrentClient`), and `tlapm` on the modules whose names end in
`Proofs`.

## 1 The system

`cmd/daemon` starts one torrent client, one search manager and up to four background goroutines, and
serves them over HTTP and one websocket. `cmd/cli` is a client of that interface. Everything shares
one process: a crash loses all memory, and what survives are four JSON files and the download folder.

```
 HTTP/WS handlers (main.go) ──► torrent client (client.go) ◄── watch folder (watcher.go)
   │        │                    stateData under stateMu    ◄── RSS reader (rss/parser.go)
   │        └─ job per download  state.json (state.go)      ◄── post-processor (postprocess.go)
   │           with callback     BitTorrent library         ◄── garbage collector (startGC)
   └──► search manager ─► per source: circuit breaker ─► cache ─► scraper
```

| Component | State | Operations | What is hard | What makes it correct |
|---|---|---|---|---|
| Torrent client (`client.go`, `seed.go`) | `stateData` under `stateMu`; torrents in the library | add, seed, set seed time, stop, status | requests on one torrent overlap; the metadata may never come; a timeout drops what others use | registry, file and library agree; everyone gets an answer; completion is not forgotten |
| Persistence and boot (`state.go`) | `state.json` | `saveState` in each section; `loadState` and its goroutines | a truncating write under a lock; failing saves; a crash at any point; a loop over the map outside the lock | a restart loads what was in memory |
| Garbage collector (`startGC`) | a snapshot per pass | drop, forget, delete files | decides on a snapshot that ages | nothing is dropped or deleted that should stay |
| Post-processor (`postprocess.go`) | `processed`, its file | stamp, link, run the script, record | shares entries with requests; a crash between script and record | the script runs, once per life, and not again once that is on disk |
| Watch folder (`watcher.go`) | the folder, `handled/` | list, read, archive, add | files that are still being written; a crash after the move | a file that appears whole is added, and once |
| RSS reader (`rss/parser.go`) | history, its file | fetch, add what matches, remember | failing adds, a history saved late | what is remembered was added, and its magnet is not added again |
| Search manager (`manager.go`) | channel, wait group per search | fan out, collect, close | who closes the channel and when | no answer lost, no panic, it ends |
| Ranking (`manager.go`, `magnet.go`) | none | filter, sort, merge, sort | arrival order and an unstable sort must not matter | one row per torrent, the best, with what the others add |
| Circuit breaker (`circuit_breaker.go`) | health record in a `sync.Map` | ask, count, bench | read-increment-store without a lock | benched only after enough failures |
| Cache (`cache.go`) | entries and their order under a mutex | hit, miss, store, evict | the fetch is outside the mutex | bounded; order and entries agree; LRU |
| EZTV source (`eztv.go`) | index under an RWMutex | look, fetch, store | many find it stale at once; failures in mid-fetch | fetched once per TTL; nobody is stuck |
| 1337x source (`x1337.go`) | `lastWorkingHost` | try mirrors in turn | concurrent searches change the memory | fails only if all mirrors do |
| Download requests (`handleDownload`) | a job per request | search, add, wait, post | waits in a row; the torrent may be dropped and added again | announced once and truly; the job ends |
| Status socket (`handleWS`) | one connection, two goroutines | status, ping | two writers without a lock | neither goroutine is left behind; no crash |
| Other handlers | none | decode, validate, call the client | - | - |
| Seed time (`state.go`, `client.go`, `postprocess.go`) | seed time and stamp of an entry | parse, stamp, compare, report | products beyond 64 bits; torrents that are added again | seeded as long as was asked, and no longer |
| Playlists (`playlist.go`) | the `.m3u` files | natural order, group, write | numbers beyond 64 bits; a crash in mid-write | the right lists, in order, nothing overwritten |
| Network (`netutil/doh.go`) | DNS cache, pooled connection | resolve, dial | dials that wait for dials; TTLs; concurrent stores | no overdue or empty address is used; every dial ends |
| Configuration, logger, CLI, other scrapers | none | - | - | - |

PROJECT.json lists the components with their status, and as `hazards` what in this code a test would
hardly reach, each at its line, with the properties that would catch it going wrong.

## 2 The modules and the code

**TorrentClient** is the core. A goroutine is a process: `Workers` serve requests, each hash names
the goroutine that `loadState` starts for its entry, `Daemons` are added by the modules that extend
this one. `stateData`, `file`, `active` (registered with the library) and `gotInfo` (metadata known)
are the shared state; `pc`, `job` and `handle` are each goroutine's own. A request is `Begin*` (what
happens before the lock; `Register` is `AddTorrentSpec`), then the wait for metadata with its
30-second timer (`MetadataArrived`, `MetadataTimeout`), then one section under `stateMu`
(`StoreAdded`, `StoreSeeded`, `StoreSeedTime`, `DeleteEntry`), then `saveState`: `SaveState` truncates
the file, `WriteDone` fills it and unlocks, `OpenFails` and `WriteFails` are its error paths.
`Restart` is the death of the process at any point followed by `NewClient`. `Spawn` and `BootAdd`
are the loop of `loadState` and its goroutines. Handles matter because a dropped torrent's metadata
never arrives and a second `Drop` of it does nothing.

The constant `ReentrantRLock` is the one assumption about the lock. `saveState` takes `stateMu.RLock`
(state.go:121) while all of its callers hold `stateMu.Lock`; Go's RWMutex is not reentrant, so that
the program as it runs blocks there for ever. With `FALSE` the model is that program
(run *golock_recorded*, theorems FileFrozen and LockStays). With `TRUE` the model looks past
the block, at the code as it is written otherwise: the runs of the registry use that value, since
with `FALSE` nothing after the first change of the registry would be examined. Each of their
results is about the program with that one line made harmless, for example by serialising without
the second lock.

**Registry** is the abstract specification of the client: a map from hash to entry that changes by one
entry at a time, and a durable copy that lags behind by the change that is being saved, or by saves
that failed. It knows no goroutines, requests or lock. TorrentClient implements it under the mapping
`entries <- stateData`, `durable <- Loaded(file)`, `pending <- (stateMu # NoOne)`,
`trusted <- saveOk`: a section is a `Change` followed by `Lose` (the truncation) and `Saved`, or by
`SaveFailed`; a restart is `Reload`; all else is a stutter (*client*, theorem ClientImplements).

**Collector**, **PostProcessor**, **Watcher**, **FeedReader** each extend TorrentClient with one
background goroutine, composed as a conjunction: a step of the client with what it means for the
goroutine (`GCClientStep`, `PPClientStep`, `WatchClientStep`, `RssClientStep`), a step of the goroutine's
loop (`Pass`, `Round`, `WatchPoll`, `RssPoll`), a step of the world (a download completes, another
program writes a file), or a restart of both. Their calls of the client are the client's own actions
with the goroutine as the process, for example `Register(Watch, "add", MagnetOf[watchFile], NoSeed)`.
Watcher and PostProcessor are put side by side in **Chores** for one run: they meet only in the registry,
and a behaviour is about one of them (`chore`), as the runs of the client show what two actors on
the registry do to each other. FeedReader tells the texts of magnets from the torrents that they name
(`HashIn`), because the history of the reader is kept by text. What waits for the world without a
limit is a step of its own without fairness: the server of a feed (`GetReturns`) and the user's
script (`ScriptReturns`). In Collector a torrent that is dropped after the pass has listed it keeps the
progress it had (`frozen`, `Complete`), as the library's object does.

**CircuitBreaker** has one step per access to the `sync.Map`; **SearchCache** extends it with the two
sections of `CachingSource.Search` and the fetch between them, and connects the two as `main.go:66`
does: the breaker is outside, so that a hit of the cache is a success to it. **Selection** is the loop that
filters a slice, which `promote`, `ScoreAndFilter` and `BuildPlaylists` contain, as a recursive function
that can be proved about. **SearchManager** is the
fan-out of `Manager.Search`; **Ranking** extends it with the rows that the answers carry and what
`ScoreAndFilter`, `DedupeAndMerge` and `MergeMagnetTrackers` make of them. A sort is a choice among
all sorted permutations, because `sort.Slice` is not stable. A hash is written in one of three ways,
which `NormalizeInfoHash` makes one.

**EztvIndex** and **MirrorHosts** are the shared state of two sources, **DohResolver** that of the
transport that all of them use: each call of `DialContext` looks into the cache, sends its two queries
and falls back to the system's dialer. A query needs a connection of its own, which the transport,
external and modelled from its interface, takes from its pool or dials. **Scrapers** puts the three
side by side for one run. They share nothing, so each behaviour is about one of them (`source`).

**DownloadRequest** is `handleDownload` with the job it starts; jobs keep the torrent object that they
were given although the torrent may be dropped and added anew. Between the metadata and the return of
`AddMagnetWithSeedTime` the job passes the section that records the torrent (`Stored`), where the program
as it runs blocks: DownloadRequest has the constant `ReentrantRLock` for that, as TorrentClient does, and
*parts* sets it to `TRUE`. **StatusSocket** is `handleWS` with what `gorilla/websocket` does on a write,
which is external and modelled from its interface: one writer at a time, detected by an unsynchronised
flag, and a new message closes the one that is open. **SeedPolicy** is the life of one torrent against
the clock: `ParseSeedDuration` with the width of a duration, the stamp of the post-processor,
`ShouldDropTorrent`, and the time left that `Status` reports. There a pass of the collector is one step
and time is what matters; Collector has the steps of the pass and leaves open which limits are reached.
**NaturalOrder** is `NaturalLess` over the chunks of a name, and **Playlist** is `BuildPlaylists` and
`WritePlaylists` on top of it, with a restart between any two writes and the errors that the code passes
over: a file or a directory that cannot be opened is `OpenFails`, a target without an absolute path
`RootFails`, and `unopened` remembers where. **DaemonParts** puts these four side by side for one run
(`part`).

An action stands for the whole stretch of code between two points at which another goroutine, the
disk or a crash can come in between; the map in PROJECT.json gives the lines. Data is reduced to what
the properties tell apart: an entry of the registry is whether it has a magnet, its seed time and
whether it is stamped; what sources return is left out of the cache, and in the ranking is a row with its hash,
score, time and magnet. Definitions marked *mutant* in the modules are never used
by a specification; they are plausible mistakes, and the `mutants` of PROJECT.json name for each
property one that it rules out.

`MC*` modules add the definitions that a configuration cannot express.

## 3 The runs

A property of several parts is a conjunction of named definitions with a comment each. The invariants
named after a component begin with its types and what relates the component's place in its loop to
the state it shares.

| Run | Specification | Properties and what they show |
|---|---|---|
| client | two requests and the recovery goroutine on one torrent | **ClientInv**: types; while `loadState` runs no entry it has still to reach can vanish; the lock is held by exactly the goroutine whose section is open. **SavedWhenQuiet**: between sections a restart would load memory. **Agreement**: after requests that did not overlap, entry and registration agree. **ImplementsRegistry**: the refinement of Registry, which says among other things that a crash loses a change only inside a section or after a failed save, and that adding a torrent again keeps its stamp. **RequestsAnswered**: nobody waits for ever. |
| golock_recorded | the client with Go's lock | **RecordedIsSaved** is violated: see section 7. |
| collector | collector, one worker, recovery, restart | **GCInv**: the collector's snapshot and sections, and the file between them. **FilesOutliveEntry**: files go only when nothing would bring the torrent back, unless a request for it came in between. **RecoveryRestores**: the recovery of a torrent that no request touches puts back the entry as it was saved. |
| forever_dropped | the collector with Go's lock | **SeedsForever** is violated: see section 7. |
| chores | the watcher with two files, one written in place; or the post-processor; with one worker, recovery, restart | **WatchInv**: no file is added twice, whatever dies when. **DroppedIsAdded**: a file that appears whole is given to `AddMagnet` unless the process dies. **PPInv**: the script runs at most once per life, and only what was run is recorded. **SavedNotRerun**: what `gorrent_processed.json` holds is not run again, in a later life either. **EventuallyProcessed**, **EventuallyStamped**: if scripts return, a completed torrent that stays gets its script and its stamp. |
| feeds | two feeds that list one torrent, each under a magnet of its own | **RssInv**: only magnets that were added are remembered, and each is added once per life. **SavedNotReadded**: what the saved history holds is not added again. **PollEnds**: if the servers of the feeds answer, each poll ends. |
| source | two searches of one source, three queries | **BenchingJust**: never benched for fewer failures than the threshold under any overlap, and exactly the streak without overlap. **CacheInv**, **OrderIsRecency**: the cache is bounded, its order is that of its entries, and it evicts the least recently used. |
| search | four sources, one not configured | **SearchInv**: every answer once, no send on a closed channel, none blocked. **OneRowPerTorrent**, **AnswerIsWhole**: the best row wins and stays what it was but for the trackers of the others and a magnet or time it lacks, and the answer is sorted. **SearchEnds**. |
| scrapers | two EZTV searches; two 1337x searches; three dials | **IndexInv**, **FetchedOnce**, **SearchEnds**: one fetches, once per TTL, nobody is stuck. **MirrorInv**: no mirror twice, and failure only after all. **DohSafe**: a dial that asks nobody uses an address that is there and not overdue, whoever stored it. **DialEnds**: the dials that wait for dials all end. |
| parts | two download requests; the two goroutines of a socket; a torrent under every kind of seed time; the playlists of a torrent | **DownloadInv**, **CompletionIsAnnounced**, **JobEnds**: a completion is announced once, to who asked, when it is true, and whenever it comes within the seven days; if the webhook answers, no job outlives them. **SocketInv**, **NothingLeft**: the library's flag has an owner, the connection is closed by its handler, no goroutine is left behind. **SeedInv**, **SeedsAsAsked**, **SeedTimeEnds**: no torrent is stamped before it is complete, what `Status` reports is what the collector does, a torrent is seeded as long as was asked and not for ever. **PlaylistInv**, **NeverOverwritten**: lists only where they belong, with every file once and in order, whole unless cut short, and missing only where they could not be created; what is in a `playlist.m3u` stays. |
| socket_panic | the socket | **NeverCrashes** is violated: see section 7. |
| doh_loop | the dials | **NoLoop** is violated: see section 7. |

Deadlock is checked in all runs whose system never stops; `CHECK_DEADLOCK FALSE` stands where it may:
a search that has answered (*search*), jobs, connections and playlists that are done (*parts*,
*socket_panic*), and the client blocked on its own lock (*golock_recorded*, *forever_dropped*).

## 4 Bounds, and why they are enough

* **Registry runs.** One hash: sections change one entry only, and two hashes meet only at the lock,
  which two goroutines on one hash contend for as well. Two workers (*client*) give every overlap of
  two requests with each other and with the recovery; with a background goroutine one worker suffices
  for the overlap with it. `MaxCrashes = 1` lets a restart follow every prefix; what it finds is
  a file, and `InitialFiles` already has every kind of file (missing, one torrent stamped or not, one
  without a magnet, torn), so a second crash starts from nothing new. In *collector*, `SeedTimes`
  has the empty setting and "for ever", in requests and in the saved file; a finite time differs from
  the empty one only in which limit applies, which `due` leaves open.
* **source.** Threshold 3 as in `main.go`; failures are counted up to 5, two past the threshold, where
  nothing distinguishes counts any more. Three queries over a cache of two make eviction happen;
  callers and queries are symmetric, and no property of this run is temporal.
* **search.** Four sources: three that can answer, so that a row can tie with one and lose to another,
  and one that is not configured. At most one row each, of one of two torrents or of none, with and
  without hash, magnet and time, in each way to write a hash; merging folds one row at a time.
* **scrapers.** Two searches contend, `TTL = 2` and `MaxTime = 3` let the index expire once under
  them and be fetched again; three pages have a first, a middle and a last. Three mirrors: one
  remembered, one before and one after it. Three dials: one of a name, one of the resolver that its query
  needs, and one more that meets either; `MaxTTL = 2` keeps an answer, lets it age and drops it, and two
  addresses have a first that fails.
* **parts.** Two jobs, two torrent objects: dropped once and added again. Statuses of one or two frames:
  a ping can come before, between and after frames. Seed times: a second is three nanoseconds, a day two
  seconds and a duration below sixteen, so that among the eight settings six seconds wrap to a
  negative time and eleven to almost none, two days just fit, and seven nanoseconds are no whole
  seconds; ages count to six seconds, past every limit. Playlists: all torrents of two files out of ten,
  among them two numbers, one with a leading zero and one beyond 64 bits, two spellings of a letter,
  lists of the torrent's own, a file that is no media file and one that is rejected, with a third in one
  of two directories; and the empty torrent. One restart follows any prefix; a second one meets no state
  of the files that the first did not.
* **chores.** One file written in place passes through empty, partial and whole; one appears whole. Both
  name one torrent, so that they meet in the registry; beside the watcher the registry starts empty, and clients only
  stop torrents, which is what can come between two adds of the watcher. Beside the post-processor it starts
  with and without the torrent, stamped or not.
* **feeds.** One torrent in both feeds, under two magnets: what one feed has added is in the registry, but
  not in the history, when the other is read; the second poll, and the life after a restart, meet both.

## 5 Fairness

Goroutines that can run do run: weak fairness of each goroutine's steps. Sections under `stateMu` have
strong fairness, since `sync.RWMutex` lets every waiter in eventually although the lock is taken
again and again in between (a waiting writer stops new readers, and a starving waiter is handed the
mutex); the same holds for the EZTV index. The 30-second timer of the metadata runs out;
the seven days of a job need not, so that CompletionIsAnnounced cannot hide behind them, and JobEnds
speaks of jobs whose days are over. Reading and renaming in the watch folder succeed again
and again, and who began a file finishes it (strong and weak fairness in Watcher). A dial goes on,
as each of its waits has a time limit (five seconds for a query, thirty for a connection). The
clock of SeedPolicy advances, and its post-processor and collector come round, as their tickers say.
Mirrors and playlists need no fairness for what is claimed of them. Of the searches of the
EZTV index only the taking of the lock and the fetch are fair: SearchEnds says that nobody stays there.

Three calls wait for the world without a limit: the feed reader for a server (parser.go:75), the
post-processor for the user's script (postprocess.go:149), a job for its webhook (main.go:261). No
fairness makes them end. The properties that need them have that as their premise, in sight:
`FeedsAnswer` in PollEnds, `ScriptsReturn` in EventuallyProcessed and EventuallyStamped, `WebhookAnswers`
in JobEnds. Nothing obliges a client to send a request, a peer to deliver, a download to complete, a
searcher to stay, or a save to succeed. The socket's two goroutines are fair one by one; nothing is
assumed of its client, and NothingLeft speaks only of one that has gone and of a handler that has
returned. Its handler is taken to get the status that it asks the client for, which RequestsAnswered says
of the client.

## 6 What is proved

TLAPS checks these for every value of the constants that satisfies the named assumptions: any
sets of hashes, goroutines and files, any initial files, any threshold, width or TTL. The bounds
(`MaxCrashes`, `MaxFails`, `MaxTime`, `MaxAge`) are constants too; the theorems hold for each value of them.

* **TorrentClientProofs.** The inductive invariant is `TypeOK /\ RecoveryInv /\ LockInv` (ClientInv).
  TypeOK alone is not inductive: `Spawn` reads `stateData[h].magnet`, which has a value only because no
  entry that the loop has still to reach can disappear. That is RecoveryInv, and it holds because
  requests are served only after the loop and recovery goroutines touch only their own hash. LockInv
  says that exactly the goroutine in a section holds the lock. Its proof sorts all steps by what
  they do to lock and section (lemma StepKinds: a step opens a section, proceeds in it, closes it,
  or leaves both alone), and checks four kinds rather than twenty actions. From these follow
  **ClientCorrect**, **SavedCorrect** (the only states with file and memory apart are those with a section
  open or a save failed), **RestartSafe**, **CompletionKept** and **ClientImplements**: initial states map to
  initial states of Registry, and each kind of step to a step of it or a stutter. **FileFrozen** and
  **LockStays** are about the program as it runs (`ReentrantRLock = FALSE`): no goroutine ever gets past
  `SaveState`, so `state.json` never changes and the lock, once taken, stays taken until a restart.
* **AgreementProofs.** **AgreementCorrect** needs to know where a torrent's one goroutine stands. AgreeInv
  follows it: while nobody is at work on a torrent it is Settled (it has an entry exactly when it is
  registered, and then its metadata is known); while one goroutine is, AddPhase, StopPhase or SetPhase
  says how far entry and registration are apart at each `pc`; once two have overlapped (`raced`), nothing
  is claimed. A step on one torrent leaves the others as they were (lemma Untouched). The same
  invariant says that a recovery which nothing overlapped has the entry it was started for still
  before it, from which **RecoveryCorrect** follows, for the client's own specification.
* **BackgroundProofs** is about the four goroutines that share the registry with clients. To the client,
  each of their steps is one of five (DaemonStep): it begins an add, takes up a stamp, makes it, drops a
  torrent, or forgets an entry. `Moves` is a step of the client or one of these, and ClientIInv (TypeOK,
  RecoveryInv, LockInv, SavedWhenQuiet and AgreeInv together) is kept by all Moves, which also map to
  steps of Registry (ClientMoves). So for each goroutine it only remains that its steps are Moves, and
  **WatcherKeepsClient**, **ReaderKeepsClient**, **PostProcessorKeepsClient** and
  **CollectorKeepsClient** say that with it at work the client keeps everything that the previous two
  modules prove of it alone, the refinement of Registry included. What each goroutine promises itself
  needs one strengthening more. FilePlaces says where a file is at each step of the watcher, so that one
  whose magnet was tried has left the folder for good (**WatchCorrect**). Remembers has the saved history
  within the remembered one, and a magnet that is not remembered was not added in this life
  (**RssCorrect**, **HistoryCorrect**). RunsRecorded says the same of scripts: at most one run in this
  life, and none yet of the torrent at hand (**ProcessedOnce**); and what the file holds is in memory, so
  that it is passed over (**ProcessedStays**). For the collector GCPlaces ties the steps of the pass to
  those of its section, and Dropping says of the torrent at hand, while no other goroutine has turned to
  it: it has left the library, and from the end of the section on neither memory nor, if saves succeed,
  the file has its entry (**CollectorCorrect**, **FilesGoLast**).
* **SelectionProofs.** What the filtering loop returns for every slice: the elements that pass, in their
  order, each as often; it is the only such sequence, commutes with appending, and selecting
  twice is selecting once. The provers have no rule of induction for data, so each induction is put as an
  argument about a least counterexample, which exists because the order of the naturals is well founded
  (lemmas Least and Climb).
* **SearchCacheProofs.** For the breaker, NeverBenchedForFewer needs the loaded counts too: SeenInv says that
  a caller about to record has seen no more failures than were recorded since the last success that met no
  recording. **BreakerSound** is proved with it under every overlap. StreakCounted
  and OnlyStreakBenches need ExactInv: while calls have not overlapped at most one is under way, and
  the record, or what this call has seen of it, is the streak (**BreakerExact**, **BreakerBenchesStreaks**;
  **BreakerJust** joins the halves). The breaker around the cache implements the breaker alone
  (**CacheKeepsBreaker**), which carries that over (**CachedBreakerJust**). For the cache, CallsInv has a call
  inside only while the breaker is asking, with its query in hand while it fetches, and OrderInv has
  order, entries and uses together: `Store` evicts a front part of the order, and the rest is the order of
  what remains only because no query is in it twice (**CacheSound**); that it is then still the order of
  uses (**CacheEvictsOldest**) rests on the laws of SelectionProofs.
* **DaemonPartsProofs.** **SocketCorrect** needs that a writer has a frame of its status left
  (FrameLeft); **DownloadCorrect** that a job's place in its waits fits what its request and object have
  been through (Progress). **SeedCorrect** and **SeededAsAsked** hold for every width of a duration:
  wrapping leaves a time that fits as it is, and a stamp is never older than the completion.
  **LessIrreflexive** and **LessTransitive** make NaturalLess a strict order on names of any length
  without oversized numbers; chunks are compared by cases, and of two first differences the earlier
  decides. **PlaylistsCorrect** needs that the lists still to be written (`plan`) are sorted permutations
  of the files that belong in them (PlanInv), and that each list the program created is in order, or
  empty because it is the one open now or was cut short (OursInv). What the plan no longer has is there,
  or among those that could not be opened. The theorem assumes that no directory is called NoDir, the
  value for "none". **PlaylistsStay** is about single steps.
* **ScrapersProofs.** IndexInv is inductive: who fetches holds the lock, and the index was stale when it
  took the lock and cannot have become fresh since, as the clock only advances and only the holder stores
  (**IndexCorrect**, **IndexFetchedOnce**). **DohCorrect** needs only the types of the resolver's state:
  what Lookup takes is as young as the TTL that was stored with it. **MirrorCorrect** adds AllAccounted:
  while a search has not answered, each mirror is still before it or has refused it.
* **RankingProofs.** **NoAnswerIsLost** is about the fan-out alone, for any finite set of sources.
  NoAnswerLost is not inductive: SearchIInv adds that the counter of the wait group is the number of
  running goroutines, so that the closer finds zero only when all are done, and that answers and channel
  together hold each answer that was sent exactly once, so that a goroutine which has still to send finds
  room among the at most `Cardinality(Sources) - 1` answers of the others (lemma Room). **SearchCorrect**
  carries it over to a search whose answers are ranked. For the ranking, Fold(m, V) says that `m` is what
  the merge owes to the rows in V: one row per torrent in V, and every row without a hash as it was.
  Made(r, V) says of a row that it is one of the best of its torrent in V, with what the others in V add
  to it. RankIInv has some set V of rows visited, which with those still in `list` is all that was kept,
  and Fold(merged, V): V is quantified, as the state does not remember it. A new row is appended
  (FoldAppended) or changes the one row of its torrent (FoldMerged); of two rows that beat neither the
  other, either may stay (SameRank). The two sorts are any arrangement in which no later row ranks before
  an earlier one, so what is proved holds for every way an unstable sort leaves ties (Arranged). When
  `list` is empty V is all of Kept, and **TorrentsOnce** and **AnswersWhole** follow. The assumptions are
  that NoHash and NoUri, the values for "none", are no hash and no source, and that times, seeders and
  bonuses are natural numbers.

Only model-checked: all liveness (the prover has no rule for ENABLED under fairness). The runs that expect a
violation are TLC's alone. No module uses a RECURSIVE operator.

## 7 Where code and documentation differ

Found while translating; 1 to 4 are shown by runs that expect a violation.

1. `saveState` blocks on the lock that its caller holds (state.go:121), so that `state.json` is never
   written and the first change of the registry stops every later request, `/status` included;
   CHANGELOG.md:22 promises that state persists, CHANGELOG.md:42 that torrents come back after a crash
   without blocking the API. For the same reason the post-processor never gets past its stamp to
   the script that CHANGELOG.md:104 guarantees.
2. A ping that fires while the status socket is writing ends the daemon (main.go:502), as the
   goroutine is outside the middleware that recovers; CHANGELOG.md:43 says that panics are caught.
   Short of that, a ping closes the message that is open, so that the socket of a healthy client
   ends (main.go:510); the read deadline and the pong handler have no effect, because nothing reads
   (main.go:490-491, CHANGELOG.md:114).
3. The query for an address is sent by a client that names no transport (doh.go:142), and main.go:57-60
   has made the default one the transport whose dials send such queries: to reach the resolver the daemon
   asks the resolver for the address of the resolver. doh.go:141 says "Must use a separate client to avoid
   loop!". Only the five seconds of each query end it, after which the system's dialer is used; until that
   has happened once, no connection to the resolver is there to send a query on and no name is resolved over
   HTTPS, while the README's line 67 has it for all sources.
4. The collector decides on a snapshot (client.go:322): a torrent set to seed for ever during a pass is
   still dropped by the limit that applied before (run *forever_dropped*), while client.go:284 and
   CHANGELOG.md:18 exempt it.
5. The breaker counts a search that its own client cancelled, loses failures of concurrent
   calls, stores stale ones after a success, and takes a hit of the cache for a success of the source
   (circuit_breaker.go:53-61, README.md:68). BenchingJust states what does hold.
6. The watcher archives a file that was only partly written when it was read, and its magnet is never
   added unless its hash was there already (watcher.go:70, client.go:88, CHANGELOG.md:86). DroppedIsAdded is about files that appear whole.
7. The webhook is called without the context and without a time limit (main.go:261): a silent one keeps
   the job for good, past the seven days of main.go:223-224 and CHANGELOG.md:96. JobEnds has the answer
   as its premise.
8. An empty EZTV page does not end the fetch, although the comment says so (eztv.go:129-130).
9. The sources of the documentation include "1337x" (README.md:172, openapi.yaml:27-29), which is the
   identifier of no source (x1337.go:33, manager.go:45): naming it asks nobody.
10. The script runs before the torrent is recorded, and the record is written by truncating the file first
   (postprocess.go:76-81): a crash in between, or a torn file, makes a later life run it again, for a torn file
   that of every torrent. CHANGELOG.md:104 has "executed exactly once per torrent". PPInv is about one
   life, SavedNotRerun about what the file holds; RunScript after PPRestart is the second run.
11. The history of the reader is kept by the text of the magnet, which parser.go:108 calls "stable and
   unique": a torrent that two feeds list with different trackers is added once for each, also within
   one life, as it is in *feeds*.

Not against any document, but worth knowing; the properties say what holds in spite of it:

* A seed time of more than 64 bits of nanoseconds (some 292 years) wraps around, and may drop a torrent at
  once (state.go:47, 55). SeedsAsAsked is about times that fit.
* A torrent that was processed, removed and added again is not stamped again (postprocess.go:37), and one
  under a category has no file where its age is looked for (client.go:344): both together are never
  dropped. SeedTimeEnds leaves out this case, and torrents that are given a new time again and again.
* Adding a torrent again replaces the seed time that a client has set (client.go:141).
* NaturalLess compares numbers beyond 64 bits as text (playlist.go:42-65), which makes a cycle of "2", "10" and
  "15000000000000000000": what the sort makes of them is left open, and InOrder says nothing of them.
* A playlist that was cut short is never completed, as a file that exists is passed over; and where creating
  one fails for another reason the torrent is recorded as processed without it (playlist.go:210-215).
* A feed server that never finishes its answer holds the reader, and a script that never ends the
  post-processor, for all feeds and torrents (parser.go:75, postprocess.go:149).
* Requests for one torrent that overlap may leave an entry for a torrent that is gone, or the other way
  round (client.go:134, 355), and a seed time set during the recovery is overwritten by the one that was read at
  boot (state.go:106): Agreement, RecoveryRestores and FilesOutliveEntry leave out what overlaps.
* The loop of `loadState` ranges over the map while the goroutines it has started write it (state.go:96). Go
  may end the process for that; to the model this is a restart, which may come at any point.
* An address whose TTL is zero is kept for sixty seconds (doh.go:159-163), which DohSafe leaves out.

## 8 What is not modelled

* The other scrapers, and matching and parsing in the two that are modelled: stateless translations
  of an HTTP answer.
* `netutil.ResilientClient`, which nothing in the program uses, and `DisableDirListing`.
* `ConnStats`, `Close`, building metainfo from local files, hard links, the connection that a webhook's
  unread answer keeps: no state of the client's.
* Authentication, decoding of requests, metrics, configuration, logging and the command line: pure
  I/O or comparisons of strings; settings that matter are constants.
* In Playlist, which extensions are media, which parts of a path are rejected and how a name is cut
  into chunks are given with the files; in SeedPolicy, the spelling of a seed time is its form and its number.

## 9 Plan

Done, in this order: TorrentClient (the registry is what all else stands on) with its proofs; the four
goroutines that extend it; CircuitBreaker with its proofs and SearchCache; SearchManager and
Ranking; StatusSocket, DownloadRequest; EztvIndex, MirrorHosts, Scrapers; Registry with the refinement;
SeedPolicy, NaturalOrder, Playlist, DaemonParts; DohResolver; Chores; the proofs of section 6.

What is left:

1. The decision of SeedPolicy in place of `due` in Collector, once ages fit into the bounds of that run.
2. The session of two searches that share one cache and one breaker from within the fan-out: today
   SearchManager takes a source's answer as given, and SearchCache has the callers of one source.
