\* Passes of the collector against requests, recovery and a restart, past the self-deadlock.
SPECIFICATION GCSpec
CONSTANTS
  Hashes = {h1}
  Workers = {w1}
  Daemons = {gc}
  GC = gc
  SeedTimes = {none, forever}
  NoSeed = none
  Forever = forever
  NoOne = NoOne
  None = None
  Torn = Torn
  ReentrantRLock = TRUE
  InitialFiles <- FinishedSaved
  Requests = {"add", "set"}
  MaxCrashes = 1
  AutoCleanup = TRUE
  DeleteFiles = TRUE
INVARIANT GCInv
PROPERTIES FilesOutliveEntry RecoveryRestores
