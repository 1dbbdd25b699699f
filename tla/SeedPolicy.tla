------------------------------ MODULE SeedPolicy ------------------------------
(***************************************************************************)
(* How long a completed torrent is seeded: ParseSeedDuration (state.go),   *)
(* the completion stamp, ShouldDropTorrent and the remaining time that     *)
(* Status reports (client.go), over the life of one torrent that is added, *)
(* retuned, stopped and added again.  Collector has what comes between the *)
(* steps of one pass; here the pass is one step and time is what matters.  *)
(*                                                                         *)
(* Times are ages in seconds, which count up to MaxAge, where every limit  *)
(* is past.  A duration is a number of nanoseconds that wraps around at    *)
(* Half, as a 64-bit one does.                                             *)
(***************************************************************************)
EXTENDS Integers

CONSTANTS
  Settings,     \* the values of seed_time that clients send
  Second,       \* nanoseconds in a second
  Day,          \* seconds in a day
  Half,         \* durations are below Half and at least -Half
  MaxAge,       \* bound: ages are told apart up to here
  MaxSeedDays,  \* configuration, together with AutoCleanup and DeleteFiles
  AutoCleanup,
  DeleteFiles,
  Never         \* not stamped, not complete, no such file

\* "empty" is the setting left out and "zero" is "0"; "days" and "seconds" hold the
\* number that stands before the "d" or alone; "span" is a duration that
\* time.ParseDuration accepts, which refuses one that does not fit.
Forms == {"empty", "zero", "days", "seconds", "span"}
Setting == [form : Forms, n : Nat]
Ages == 0..MaxAge
Entry == [seed : Settings, stamp : Ages \cup {Never}]

ASSUME SeedAssumption ==
  /\ Settings \subseteq Setting
  /\ \A s \in Settings : s.form = "span" => s.n < Half
  /\ Second \in Nat \ {0} /\ Day \in Nat \ {0} /\ Half \in Nat \ {0}
  /\ MaxAge \in Nat /\ MaxSeedDays \in Nat
  /\ MaxAge * Second >= Half /\ MaxAge >= MaxSeedDays * Day
  /\ AutoCleanup \in BOOLEAN /\ DeleteFiles \in BOOLEAN
  /\ Never \notin Nat /\ Never \notin Entry

VARIABLES
  entry,     \* its entry in the registry, while it is registered, or Never
  finished,  \* how long all its data has been there, or Never
  fileAge,   \* the age of the file DownloadDir/<name>, or Never: a torrent with a category
             \* lies elsewhere, and one that is added again finds an old file
  processed  \* the post-processor has its hash in gorrent_processed.json

seedVars == <<entry, finished, fileAge, processed>>

SeedInit == entry = Never /\ finished = Never /\ fileAge = Never /\ processed = FALSE

-----------------------------------------------------------------------------
(* ParseSeedDuration.                                                       *)

\* What int64 makes of a product that was not checked.
Wrapped(d) == IF d < Half THEN d ELSE ((d + Half) % (2 * Half)) - Half

\* The nanoseconds that the client asked for, and those the program works with.
Asked(s) == CASE s.form = "days" -> s.n * Day * Second
              [] s.form = "seconds" -> s.n * Second
              [] OTHER -> s.n
Duration(s) == Wrapped(Asked(s))

Infinite(s) == s.form = "zero"
Finite(s) == s.form \notin {"empty", "zero"}

-----------------------------------------------------------------------------
(* Requests, the download and the post-processor.                           *)

Registered == entry # Never
Completed == Registered /\ finished # Never

\* A new entry keeps the stamp of the one it replaces, but not its seed time.
AddTorrent(s) ==
  /\ entry' = [seed |-> s, stamp |-> IF Registered THEN entry.stamp ELSE Never]
  /\ UNCHANGED <<finished, fileAge, processed>>

\* Local data is complete as it is, and stamped anew.
SeedLocal(s) ==
  /\ entry' = [seed |-> s, stamp |-> 0]
  /\ finished' = IF finished = Never THEN 0 ELSE finished
  /\ UNCHANGED <<fileAge, processed>>

Retune(s) ==
  /\ Registered
  /\ entry' = [entry EXCEPT !.seed = s]
  /\ UNCHANGED <<finished, fileAge, processed>>

\* StopTorrent: the files stay.
Stop ==
  /\ Registered
  /\ entry' = Never /\ finished' = Never
  /\ UNCHANGED <<fileAge, processed>>

\* Without a category the first data makes the file; a directory keeps the time of its
\* last new entry, a file that of its last write.
FirstData ==
  /\ Registered /\ finished = Never /\ fileAge = Never
  /\ fileAge' = 0
  /\ UNCHANGED <<entry, finished, processed>>

LastData ==
  /\ Registered /\ finished = Never
  /\ finished' = 0
  /\ fileAge' \in {fileAge} \cup (IF fileAge = Never THEN {} ELSE {0})
  /\ UNCHANGED <<entry, processed>>

\* Mutant: the stamp is forgotten.
PostProcessNoStamp ==
  /\ Completed /\ ~processed
  /\ processed' = TRUE
  /\ UNCHANGED <<entry, finished, fileAge>>

\* The round of the post-processor: a hash that it knows is passed over, and is not
\* stamped again.
PostProcess ==
  /\ Completed /\ ~processed
  /\ processed' = TRUE
  /\ entry' = [entry EXCEPT !.stamp = IF @ = Never THEN 0 ELSE @]
  /\ UNCHANGED <<finished, fileAge>>

-----------------------------------------------------------------------------
(* The collector and Status.                                                *)

\* Mutant: the time of the file is preferred to the stamp.
AgeOfFile == IF fileAge # Never THEN fileAge ELSE entry.stamp
Age == IF entry.stamp # Never THEN entry.stamp ELSE fileAge

\* Mutant: the global limits apply besides the torrent's own.
ShouldDropByEither(ratio) ==
  /\ Completed
  /\ \/ AutoCleanup /\ ratio
     \/ Finite(entry.seed) /\ Age # Never /\ Age * Second >= Duration(entry.seed)

\* ShouldDropTorrent; `ratio' says whether the upload ratio has been reached.
ShouldDropTorrent(ratio) ==
  /\ Completed
  /\ IF entry.seed.form = "empty"
     THEN AutoCleanup /\ (ratio \/ (MaxSeedDays > 0 /\ Age # Never /\ Age >= MaxSeedDays * Day))
     ELSE Finite(entry.seed) /\ Age # Never /\ Age * Second >= Duration(entry.seed)

Collect ==
  /\ \E ratio \in BOOLEAN : ShouldDropTorrent(ratio)
  /\ entry' = Never /\ finished' = Never
  /\ fileAge' = IF DeleteFiles THEN Never ELSE fileAge
  /\ UNCHANGED processed

\* seed_remaining_sec: none without a stamp, -1 for ever, else whole seconds.
Remaining ==
  IF Infinite(entry.seed) THEN -1
  ELSE LET left == Duration(entry.seed) - entry.stamp * Second
       IN  IF left <= 0 THEN 0 ELSE left \div Second

-----------------------------------------------------------------------------
Older(a) == IF a = Never \/ a = MaxAge THEN a ELSE a + 1

Ageing ==
  /\ entry' = IF Registered THEN [entry EXCEPT !.stamp = Older(@)] ELSE entry
  /\ finished' = Older(finished) /\ fileAge' = Older(fileAge)
  /\ UNCHANGED processed

Reseed == \E s \in Settings : SeedLocal(s)

SeedNext ==
  \/ \E s \in Settings : AddTorrent(s) \/ Retune(s)
  \/ Reseed \/ Stop \/ FirstData \/ LastData \/ PostProcess \/ Collect \/ Ageing

SeedSpec == SeedInit /\ [][SeedNext]_seedVars

\* The clock advances and the two background goroutines come round.
SeedFairness == WF_seedVars(Ageing) /\ WF_seedVars(PostProcess) /\ WF_seedVars(Collect)

-----------------------------------------------------------------------------
(* Properties.                                                              *)

\* Types, and no torrent is stamped before it is complete.
SeedTypeOK ==
  /\ entry = Never \/ entry \in Entry
  /\ finished \in Ages \cup {Never} /\ fileAge \in Ages \cup {Never}
  /\ processed \in BOOLEAN
StampInv ==
  /\ finished # Never => Registered
  /\ Registered /\ entry.stamp # Never => finished # Never /\ entry.stamp <= finished

\* What Status reports is what the collector does: a torrent with time left, or none to
\* run out, is dropped by no limit, and one with none left is due within a second.
StatusAgrees ==
  Completed /\ entry.stamp # Never /\ entry.seed.form # "empty" =>
    /\ Remaining # 0 => \A ratio \in BOOLEAN : ~ShouldDropTorrent(ratio)
    /\ Remaining = 0 => (entry.stamp + 1) * Second >= Duration(entry.seed)

SeedInv == SeedTypeOK /\ StampInv /\ StatusAgrees

\* A torrent with a seed time of its own that is stamped is dropped only when it has been
\* complete for as long as was asked, and never if that is for ever.  A time that
\* does not fit 64 bits of nanoseconds is not promised, and is not kept.
SeedsAsAsked ==
  [][Collect /\ entry.seed.form # "empty" =>
       /\ Finite(entry.seed)
       /\ Asked(entry.seed) < Half /\ entry.stamp # Never
            => finished * Second >= Asked(entry.seed)]_seedVars

\* A completed torrent with a finite seed time is dropped in the end, unless it is given
\* another one or seeded anew again and again -- and unless it was processed before and
\* lies under a category: then nothing tells when it was completed.
Reset == Reseed \/ (Registered /\ entry' # Never /\ entry'.seed # entry.seed)
SeedTimeEnds ==
  \/ []<><<Reset>>_seedVars
  \/ (Completed /\ Finite(entry.seed) /\ (entry.stamp # Never \/ fileAge # Never \/ ~processed))
       ~> (~Registered \/ ~Finite(entry.seed))
=============================================================================
