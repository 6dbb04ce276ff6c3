CONSTANTS
  FileLength = 15
  PieceLength = 6
  BlockSize = 2
  PipelineLen = 3
  None = None
SPECIFICATION FairSpec
INVARIANTS
  TypeOK
  PipelineCount
  OnePieceUnderWay
PROPERTIES
  WorkConserving
  PipelineSpec
  EveryBlockLands
