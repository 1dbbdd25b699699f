------------------------------- MODULE Watcher -------------------------------
(***************************************************************************)
(* The watch folder of the torrent client (watcher.go), composed with      *)
(* TorrentClient: every five seconds it reads the magnet files it finds,   *)
(* moves each to handled/ and then adds its torrent.  Another program puts *)
(* the files there, and may be still writing one when it is read.          *)
(***************************************************************************)
EXTENDS TorrentClient

CONSTANTS
  Watch,       \* the goroutine, a member of Daemons
  Files,       \* names of magnet files
  MagnetOf,    \* the torrent of each file
  InOnePiece   \* those that appear complete (moved into the folder), not written in place

ASSUME WatcherAssumption ==
  /\ Watch \in Daemons
  /\ Files # {}
  /\ MagnetOf \in [Files -> Hashes]
  /\ InOnePiece \subseteq Files

VARIABLES
  folder,     \* what the writer has put in each file so far, "absent" when not in the folder
  handled,    \* files in handled/
  watchAt, watchList, watchFile,  \* the goroutine: place, files listed, file at hand
  text,       \* what it read of the file at hand
  tries       \* history: how often AddMagnet has taken on the magnet of each file

watchVars == <<folder, handled, watchAt, watchList, watchFile, text, tries>>
watchAllVars == <<vars, watchVars>>

Texts == {"empty", "partial", "whole"}
SomeFile == CHOOSE f \in Files : TRUE
InFolder == {f \in Files : folder[f] # "absent"}

WatchInit ==
  /\ Init
  /\ folder = [f \in Files |-> "absent"] /\ handled = {}
  /\ watchAt = "sleep" /\ watchList = {} /\ watchFile = SomeFile /\ text = "empty"
  /\ tries = [f \in Files |-> 0]

-----------------------------------------------------------------------------
(* The other program (external): each file is dropped once.                 *)

Write(f) ==
  /\ f \notin handled
  /\ folder' = [folder EXCEPT ![f] =
       CASE folder[f] = "absent" -> IF f \in InOnePiece THEN "whole" ELSE "empty"
         [] folder[f] = "empty" -> "partial"
         [] OTHER -> "whole"]
  /\ folder' # folder
  /\ UNCHANGED <<vars, handled, watchAt, watchList, watchFile, text, tries>>

-----------------------------------------------------------------------------
(* One poll.                                                                *)

ListFolder ==
  /\ watchAt = "sleep" /\ toSpawn = {}
  /\ watchList' = InFolder
  /\ watchAt' = "scan"
  /\ UNCHANGED <<vars, folder, handled, watchFile, text, tries>>

\* Mutant: a file that could not be read is archived like the others.
PassOverArchives(f) ==
  /\ watchAt = "scan" /\ f \in watchList
  /\ watchList' = watchList \ {f}
  /\ folder' = [folder EXCEPT ![f] = "absent"] /\ handled' = handled \cup {f}
  /\ UNCHANGED <<vars, watchAt, watchFile, text, tries>>

\* An empty file waits for the next poll; so does one that cannot be opened or read.
PassOver(f) ==
  /\ watchAt = "scan" /\ f \in watchList
  /\ watchList' = watchList \ {f}
  /\ UNCHANGED <<vars, folder, handled, watchAt, watchFile, text, tries>>

ReadFile(f) ==
  /\ watchAt = "scan" /\ f \in watchList
  /\ folder[f] # "empty"
  /\ text' = folder[f]
  /\ watchFile' = f /\ watchList' = watchList \ {f}
  /\ watchAt' = "archive"
  /\ UNCHANGED <<vars, folder, handled, tries>>

\* os.Rename, after which the writer's further text goes to the archived file.
Rename(f) ==
  /\ folder' = [folder EXCEPT ![f] = "absent"]
  /\ handled' = handled \cup {f}

\* Mutant: the file is moved once its torrent has been added.
ArchiveLater ==
  /\ watchAt = "archive"
  /\ watchAt' = "add"
  /\ UNCHANGED <<vars, folder, handled, watchList, watchFile, text, tries>>

Archive ==
  /\ watchAt = "archive"
  /\ Rename(watchFile)
  /\ watchAt' = "add"
  /\ UNCHANGED <<vars, watchList, watchFile, text, tries>>

ArchiveFails ==
  /\ watchAt = "archive"
  /\ watchAt' = "scan"
  /\ UNCHANGED <<vars, folder, handled, watchList, watchFile, text, tries>>

\* AddMagnet refuses a magnet that was read in part, at once, unless its hash is all there.
AddWatched ==
  /\ watchAt = "add"
  /\ \/ /\ Register(Watch, "add", MagnetOf[watchFile], NoSeed)
        /\ tries' = [tries EXCEPT ![watchFile] = @ + 1]
        /\ watchAt' = "adding"
     \/ text # "whole" /\ watchAt' = "scan" /\ UNCHANGED <<vars, tries>>
  /\ UNCHANGED <<folder, handled, watchList, watchFile, text>>

\* AddMagnet has returned; its error is only logged.
Added ==
  /\ watchAt = "adding" /\ pc[Watch] = "idle"
  /\ watchAt' = "scan"
  /\ UNCHANGED <<vars, folder, handled, watchList, watchFile, text, tries>>

EndWatchPoll ==
  /\ watchAt = "scan" /\ watchList = {}
  /\ watchAt' = "sleep" /\ watchFile' = SomeFile /\ text' = "empty"
  /\ UNCHANGED <<vars, folder, handled, watchList, tries>>

WatchPoll ==
  \/ ListFolder \/ Archive \/ ArchiveFails \/ AddWatched \/ Added \/ EndWatchPoll
  \/ \E f \in Files : PassOver(f) \/ ReadFile(f)

-----------------------------------------------------------------------------
WatchClientStep ==
  /\ \/ \E h \in Hashes : InfoArrives(h) \/ Spawn(h) \/ BootAdd(h)
     \/ \E w \in Workers : Request(w)
     \/ \E p \in Procs : Step(p)
  /\ UNCHANGED watchVars

\* The folder outlives the process.
WatchRestart ==
  /\ Restart
  /\ watchAt' = "sleep" /\ watchList' = {} /\ watchFile' = SomeFile /\ text' = "empty"
  /\ UNCHANGED <<folder, handled, tries>>

WatchNext == WatchClientStep \/ WatchPoll \/ (\E f \in Files : Write(f)) \/ WatchRestart

WatchSpec == WatchInit /\ [][WatchNext]_watchAllVars

-----------------------------------------------------------------------------
(* Properties.                                                              *)

\* The watcher's own state has its types, and it has a torrent in hand only while it
\* waits for AddMagnet.
WatchTypeOK ==
  /\ folder \in [Files -> Texts \cup {"absent"}]
  /\ handled \subseteq Files /\ handled \cap InFolder = {}
  /\ watchAt \in {"sleep", "scan", "archive", "add", "adding"}
  /\ watchList \subseteq Files /\ watchFile \in Files /\ text \in Texts
  /\ tries \in [Files -> Nat]
  /\ Busy(Watch) => watchAt = "adding" /\ job[Watch].hash = MagnetOf[watchFile]

\* watcher.go:20-23: "a crash between the two can't cause a double-download": whatever
\* dies when, the magnet of a file is added at most once.
AddedOnce == \A f \in Files : tries[f] <= 1

\* What every step of the watcher keeps.
WatchInv == WatchTypeOK /\ AddedOnce

Dropped(f) == folder[f] # "absent" \/ f \in handled

\* A file that is complete when it appears is taken on by AddMagnet sooner or later, if the
\* process lives on.
DroppedIsAdded == \A f \in InOnePiece : []<>(Dropped(f) => tries[f] > 0 \/ crashes > 0)
=============================================================================
