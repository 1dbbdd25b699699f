\* Four sources, one of them not configured; the search stops when it has answered.
SPECIFICATION RankFairSpec
CONSTANTS
  yts = yts
  nyaa = nyaa
  x1337 = x1337
  eztv = eztv
  Sources = {yts, nyaa, x1337, eztv}
  Names <- AllNames
  Id <- IdOf
  Configured = {"yts", "nyaa", "x1337"}
  AnySource = AnySource
  h1 = h1
  h2 = h2
  Hashes = {h1, h2}
  NoHash = NoHash
  Times = {0, 1, 2, 3}
  Seeds = {0, 1, 2}
  Bonuses = {0, 1}
  Trackers = {"yts", "nyaa", "x1337", "eztv"}
  NoUri = NoUri
  MinSeeders = 1
  Answers <- SmallAnswers
CHECK_DEADLOCK FALSE
INVARIANTS SearchInv OneRowPerTorrent AnswerIsWhole
PROPERTY SearchEnds
