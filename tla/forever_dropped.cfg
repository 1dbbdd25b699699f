\* The program as it runs, lock included: a pass of the collector and a new seed time.
SPECIFICATION GCSpec
CONSTANTS
  Hashes = {h1}
  Workers = {w1}
  Daemons = {gc}
  GC = gc
  SeedTimes = {none, forever}
  NoSeed = none
  Forever = forever
  NoOne = NoOne
  None = None
  Torn = Torn
  ReentrantRLock = FALSE
  InitialFiles <- FinishedSaved
  Requests = {"add", "set"}
  MaxCrashes = 1
  AutoCleanup = TRUE
  DeleteFiles = TRUE
PROPERTY SeedsForever
CHECK_DEADLOCK FALSE
