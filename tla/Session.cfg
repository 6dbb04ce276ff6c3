CONSTANTS
  FileLength = 1
  PieceLength = 1
  BlockSize = 1
  PipelineLen = 2
  None = None
  FastChoices = {TRUE, FALSE}
  ChildCapacity = 8
  ParentCapacity = 8
  QueueCapacity = 1
  PeerMessages = {"BitField", "HaveAll", "HaveNone", "UnChoke", "Piece", "Request",
                  "UnknownRequest", "Cancel", "Port", "Advice"}
  InitialBitfields = {{}, {0}}
  OthersVerify = {}
  OthersReport <- FirstBlock
  MayBreak = TRUE
SPECIFICATION FairSpec
INVARIANTS
  
  InterestSettles
  ReportsOnlyOwnBlocks
  
PROPERTIES
  
  DisconnectEndsAll
  ReadHalfGetsOn
CHECK_DEADLOCK FALSE
