\* Two feeds that list one torrent under different magnets, against a client that stops it
\* and a restart, past the self-deadlock.
SPECIFICATION RssFairSpec
CONSTANTS
  Hashes = {h1}
  Workers = {w1}
  Daemons = {rss}
  Rss = rss
  Feeds = {u1, u2}
  Magnets = {m1, m2}
  HashIn <- OneTorrent
  Matching <- OneEach
  SeedTimes = {none}
  NoSeed = none
  NoOne = NoOne
  None = None
  Torn = Torn
  ReentrantRLock = TRUE
  InitialFiles <- FreshFiles
  Requests = {"stop"}
  MaxCrashes = 1
INVARIANT RssInv
PROPERTIES SavedNotReadded PollEnds
