------------------------------ MODULE FeedReader ------------------------------
(***************************************************************************)
(* The RSS auto-downloader (src/pkg/rss/parser.go), composed with          *)
(* TorrentClient: at regular intervals it fetches its feeds, adds the      *)
(* torrent of every matching item it has not added before, and remembers   *)
(* in rss_history.json which magnets it has.  A magnet is its text: two    *)
(* feeds may list one torrent under different ones, with other trackers.   *)
(***************************************************************************)
EXTENDS TorrentClient

CONSTANTS
  Rss,      \* the goroutine, a member of Daemons
  Feeds,    \* configured feeds
  Magnets,  \* texts of magnet links
  HashIn,   \* the torrent that each of them names
  Matching  \* the magnets of each feed's items that match its expressions

ASSUME FeedAssumption ==
  /\ Rss \in Daemons
  /\ Feeds # {} /\ Magnets # {}
  /\ HashIn \in [Magnets -> Hashes]
  /\ Matching \in [Feeds -> SUBSET Magnets]

VARIABLES
  rssAt,        \* where the goroutine is in its poll
  feedsLeft, feed, itemsLeft, item,  \* feeds and items to go, and those at hand
  failed,       \* AddMagnet has returned an error
  changed,      \* this feed has added to the history
  remembered,   \* its history in memory, by magnet
  historyFile,  \* rss_history.json, or Torn
  added,        \* history: how often each magnet was added in this life
  ever          \* history: the magnets that were ever added

tally == <<added, ever>>
rssVars == <<rssAt, feedsLeft, feed, itemsLeft, item, failed, changed, remembered,
             historyFile, tally>>
rssAllVars == <<vars, rssVars>>

\* loadHistory: what does not parse leaves the map empty.
LoadedHistory(f) == IF f = Torn THEN {} ELSE f

SomeFeed == CHOOSE f \in Feeds : TRUE
SomeMagnet == CHOOSE m \in Magnets : TRUE

RssInit ==
  /\ Init
  /\ rssAt = "sleep" /\ feedsLeft = {} /\ feed = SomeFeed
  /\ itemsLeft = {} /\ item = SomeMagnet
  /\ failed = FALSE /\ changed = FALSE
  /\ historyFile = {} /\ remembered = LoadedHistory(historyFile)
  /\ added = [m \in Magnets |-> 0] /\ ever = {}

-----------------------------------------------------------------------------
(* One poll.                                                                *)

BeginPoll ==
  /\ rssAt = "sleep" /\ toSpawn = {}
  /\ feedsLeft' = Feeds /\ rssAt' = "feeds"
  /\ UNCHANGED <<vars, feed, itemsLeft, item, failed, changed, remembered, historyFile, tally>>

Get(f) ==
  /\ rssAt = "feeds" /\ f \in feedsLeft
  /\ feedsLeft' = feedsLeft \ {f} /\ feed' = f
  /\ rssAt' = "fetch"
  /\ UNCHANGED <<vars, itemsLeft, item, failed, changed, remembered, historyFile, tally>>

\* The feed is fetched and parsed, or is given up for this poll.  http.Get has no limit.
GetReturns ==
  /\ rssAt = "fetch"
  /\ \/ rssAt' = "items" /\ itemsLeft' = Matching[feed] /\ changed' = FALSE
     \/ rssAt' = "feeds" /\ UNCHANGED <<itemsLeft, changed>>
  /\ feed' = SomeFeed
  /\ UNCHANGED <<vars, feedsLeft, item, failed, remembered, historyFile, tally>>

SkipRemembered(m) ==
  /\ rssAt = "items" /\ m \in itemsLeft \cap remembered
  /\ itemsLeft' = itemsLeft \ {m}
  /\ UNCHANGED <<vars, rssAt, feedsLeft, feed, item, failed, changed, remembered,
                 historyFile, tally>>

\* AddMagnet refuses the text, or the library does: at once, with an error.
Refused(m) ==
  /\ rssAt = "items" /\ m \in itemsLeft \ remembered
  /\ itemsLeft' = itemsLeft \ {m}
  /\ UNCHANGED <<vars, rssAt, feedsLeft, feed, item, failed, changed, remembered,
                 historyFile, tally>>

AddItem(m) ==
  /\ rssAt = "items" /\ m \in itemsLeft \ remembered
  /\ itemsLeft' = itemsLeft \ {m} /\ item' = m
  /\ Register(Rss, "add", HashIn[m], NoSeed)
  /\ rssAt' = "adding" /\ failed' = FALSE
  /\ UNCHANGED <<feedsLeft, feed, changed, remembered, historyFile, tally>>

Remember(magnets) == remembered' = remembered \cup magnets /\ changed' = TRUE
Tally(m) == added' = [added EXCEPT ![m] = @ + 1] /\ ever' = ever \cup {m}

\* Mutant: a magnet that failed is remembered like the others.
ItemReturnsAnyway ==
  /\ rssAt = "adding" /\ pc[Rss] = "idle"
  /\ rssAt' = "items" /\ item' = SomeMagnet /\ failed' = FALSE
  /\ Remember({item})
  /\ IF failed THEN UNCHANGED tally ELSE Tally(item)
  /\ UNCHANGED <<vars, feedsLeft, feed, itemsLeft, historyFile>>

\* AddMagnet has returned.
ItemReturns ==
  /\ rssAt = "adding" /\ pc[Rss] = "idle"
  /\ rssAt' = "items" /\ item' = SomeMagnet /\ failed' = FALSE
  /\ IF failed
     THEN UNCHANGED <<remembered, changed, tally>>
     ELSE Remember({item}) /\ Tally(item)
  /\ UNCHANGED <<vars, feedsLeft, feed, itemsLeft, historyFile>>

FeedDone == rssAt = "items" /\ itemsLeft = {}

\* saveHistory, once per feed: os.WriteFile truncates the file first.
EndFeed ==
  /\ FeedDone
  /\ changed' = FALSE
  /\ IF changed
     THEN \/ historyFile' = Torn /\ rssAt' = "write"
          \/ rssAt' = "feeds" /\ UNCHANGED historyFile
     ELSE rssAt' = "feeds" /\ UNCHANGED historyFile
  /\ UNCHANGED <<vars, feedsLeft, feed, itemsLeft, item, failed, remembered, tally>>

WriteHistory ==
  /\ rssAt = "write"
  /\ historyFile' \in {remembered, Torn}
  /\ rssAt' = "feeds"
  /\ UNCHANGED <<vars, feedsLeft, feed, itemsLeft, item, failed, changed, remembered, tally>>

EndRssPoll ==
  /\ rssAt = "feeds" /\ feedsLeft = {}
  /\ rssAt' = "sleep"
  /\ UNCHANGED <<vars, feedsLeft, feed, itemsLeft, item, failed, changed, remembered,
                 historyFile, tally>>

RssPoll ==
  \/ BeginPoll \/ ItemReturns \/ EndFeed \/ WriteHistory \/ EndRssPoll
  \/ \E f \in Feeds : Get(f)
  \/ \E m \in Magnets : SkipRemembered(m) \/ Refused(m) \/ AddItem(m)

-----------------------------------------------------------------------------
\* What the steps of the client mean for the reader: its own wait may time out.
RssFollow ==
  /\ failed' = (failed \/ MetadataTimeout(Rss))
  /\ UNCHANGED <<rssAt, feedsLeft, feed, itemsLeft, item, changed, remembered, historyFile, tally>>

RssClientStep ==
  /\ \/ \E h \in Hashes : InfoArrives(h) \/ Spawn(h) \/ BootAdd(h)
     \/ \E w \in Workers : Request(w)
     \/ \E p \in Procs : Step(p)
  /\ RssFollow

RssRestartWith(known) ==
  /\ Restart
  /\ rssAt' = "sleep" /\ feedsLeft' = {} /\ feed' = SomeFeed
  /\ itemsLeft' = {} /\ item' = SomeMagnet
  /\ failed' = FALSE /\ changed' = FALSE
  /\ remembered' = known
  /\ added' = [m \in Magnets |-> 0]
  /\ UNCHANGED <<historyFile, ever>>

RssRestartBlank == RssRestartWith({})  \* mutant: the history is not read at the start
RssRestart == RssRestartWith(LoadedHistory(historyFile))

RssNext == RssClientStep \/ RssPoll \/ GetReturns \/ RssRestart
RssSpec == RssInit /\ [][RssNext]_rssAllVars

\* The reader is a goroutine like those of the client, whose fairness is that of
\* TorrentClient (in fewer conditions: what one of them does outside the sections stays
\* possible until it does it, one step at a time).  Nothing obliges the server of a feed to
\* answer, or to finish its answer.
RssFairness ==
  /\ \A h \in Hashes : WF_rssAllVars((Spawn(h) \/ BootAdd(h)) /\ RssFollow)
  /\ \A p \in Procs : /\ WF_rssAllVars((Waiting(p) \/ StopDrop(p) \/ Saving(p)) /\ RssFollow)
                      /\ SF_rssAllVars(Section(p) /\ RssFollow)
  /\ WF_rssAllVars(RssPoll)

RssFairSpec == RssSpec /\ RssFairness

-----------------------------------------------------------------------------
(* Properties.                                                              *)

\* The reader's own state has its types, and it has a torrent in hand only while it
\* waits for AddMagnet.
RssTypeOK ==
  /\ rssAt \in {"sleep", "feeds", "fetch", "items", "adding", "write"}
  /\ feedsLeft \subseteq Feeds /\ feed \in Feeds
  /\ itemsLeft \subseteq Magnets /\ item \in Magnets
  /\ failed \in BOOLEAN /\ changed \in BOOLEAN
  /\ remembered \subseteq Magnets
  /\ historyFile = Torn \/ historyFile \subseteq Magnets
  /\ added \in [Magnets -> Nat] /\ ever \subseteq Magnets
  /\ Busy(Rss) => rssAt = "adding" /\ job[Rss].hash = HashIn[item]

\* Only what was added is remembered, in memory or in the file: a dead magnet, or one that
\* is refused, is tried again by the next poll.
OnlyAddedRemembered == remembered \cup LoadedHistory(historyFile) \subseteq ever

\* However often a user stops its torrent, and whichever feeds list it, the reader adds a
\* magnet once per life of the process.  (A torrent with two magnets is added twice.)
AddedOncePerLife == \A m \in Magnets : added[m] <= 1

\* What every step of the reader keeps.
RssInv == RssTypeOK /\ OnlyAddedRemembered /\ AddedOncePerLife

\* What rss_history.json holds is not added again, in this life or a later one.
SavedNotReadded ==
  [][\A m \in Magnets : added'[m] > added[m] => m \notin LoadedHistory(historyFile)]_rssAllVars

\* No server of a feed holds the reader for ever.
FeedsAnswer == []<>(rssAt # "fetch")

\* Each poll ends if the feeds answer: dead magnets hold it up, but not for ever.
PollEnds == FeedsAnswer => []<>(rssAt = "sleep")
=============================================================================
