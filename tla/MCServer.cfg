CONSTANTS
  Daemon = {d1, d2}
  Client = {k1, k2}
  MaxClients = 1
  MaxFile = 3
  Row <- Rows
  HashLen = {40, 64, 65}
  MaxRows = 3
  Budget = 3800
  MaxFrame = 4096
  DeltaFrame = 91
  ItemFrame = 86
  LeastRow = 169
  NameCap = 512
  LongestHash = 64
  Hash = {1, 2, 3}
  Torrent <- Torrents
  Top = 7
  ActiveListCap = 2
SPECIFICATION Spec
SYMMETRY Symmetric
CHECK_DEADLOCK FALSE
INVARIANTS ServesAtThePath NoClientAfterClose FramesFit NothingIsLost AggregateIsTrue GrammarIsExact EndpointIsJudged
PROPERTIES RecoveryTakesTheDead
