CONSTANTS
  FileLength = 3
  PieceLength = 2
  BlockSize = 1
  PipelineLen = 1
  None = None
  c1 = c1
  c2 = c2
  Connections = {c1, c2}
  PeerHas <- FirstHasAll
  FileOf <- FilePerPiece
  SlowDisk = FALSE
  Capacity = 16
  Scenarios <- OneFault
SPECIFICATION FairSpec
INVARIANTS
  TypeOK
  
  

  
CHECK_DEADLOCK FALSE
