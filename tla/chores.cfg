\* Two files, one of them still being written when it is read, or the post-processor;
\* against requests, recovery and a restart, past the self-deadlock.
SPECIFICATION ChoresSpec
CONSTANTS
  Hashes = {h1}
  Workers = {w1}
  Daemons = {watch, pp}
  Watch = watch
  PP = pp
  Files = {f1, f2}
  MagnetOf <- OneMagnet
  InOnePiece = {f1}
  SeedTimes = {none}
  NoSeed = none
  NoOne = NoOne
  None = None
  Torn = Torn
  ReentrantRLock = TRUE
  InitialFiles <- StartFiles
  Requests = {"add", "stop"}
  MaxCrashes = 1
INVARIANTS WatchInv PPInv
PROPERTIES DroppedIsAdded SavedNotRerun EventuallyProcessed EventuallyStamped
