\* Looks past the self-deadlock of saveState: every interleaving of two requests on one
\* torrent with its recovery goroutine, failing saves and one restart.
SPECIFICATION FairSpec
CONSTANTS
  Hashes = {h1}
  Workers = {w1, w2}
  Daemons = {}
  SeedTimes = {none}
  NoSeed = none
  NoOne = NoOne
  None = None
  Torn = Torn
  ReentrantRLock = TRUE
  InitialFiles <- StartFiles
  Requests = {"add", "seed", "set", "stop", "status"}
  MaxCrashes = 1
INVARIANTS ClientInv SavedWhenQuiet Agreement
PROPERTIES RequestsAnswered ImplementsRegistry
