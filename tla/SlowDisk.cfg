CONSTANTS
  FileLength = 2
  PieceLength = 2
  BlockSize = 1
  PipelineLen = 2
  None = None
  c1 = c1
  c2 = c2
  Connections = {c1}
  PeerHas <- FirstHasAll
  FileOf <- FilePerPiece
  SlowDisk = TRUE
  Capacity = 16
  Scenarios <- NoFault
SPECIFICATION FairSpec
PROPERTIES
  StoredIsVerified
CHECK_DEADLOCK FALSE
