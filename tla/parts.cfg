\* Two download requests for one torrent, which may be dropped once and added again; one
\* socket, with statuses of one or two frames; one torrent under eight seed times; and the
\* playlists of 200 torrents.  Jobs and sockets end for good, and restarts are bounded.
SPECIFICATION PartsSpec
CONSTANTS
  Requests = {r1, r2}
  MaxObjects = 2
  ReentrantRLock = TRUE
  MaxFrames = 2
  Settings <- SomeSettings
  Second = 3
  Day = 2
  Half = 16
  MaxAge = 6
  MaxSeedDays = 2
  AutoCleanup = TRUE
  DeleteFiles = FALSE
  Never = Never
  Chunks <- SomeChunks
  NoNumber = NoNumber
  NoDir = NoDir
  Torrents <- SomeTorrents
  MaxRestarts = 1
CHECK_DEADLOCK FALSE
INVARIANTS DownloadInv SocketInv SeedInv PlaylistInv
PROPERTIES CompletionIsAnnounced JobEnds NothingLeft SeedsAsAsked SeedTimeEnds NeverOverwritten
