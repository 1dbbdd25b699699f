\* CHANGELOG.md:22 against Go's lock: a recorded torrent never reaches state.json.
SPECIFICATION FairSpec
CONSTANTS
  Hashes = {h1}
  Workers = {w1}
  Daemons = {}
  SeedTimes = {none}
  NoSeed = none
  NoOne = NoOne
  None = None
  Torn = Torn
  ReentrantRLock = FALSE
  InitialFiles <- FreshFiles
  Requests = {"add", "seed", "set", "stop", "status"}
  MaxCrashes = 1
CHECK_DEADLOCK FALSE
PROPERTY RecordedIsSaved
