CONSTANTS
  BlockSize = 2
  None = None
  Torrents <- OneDirectory
SPECIFICATION Spec
INVARIANTS
  TypeOK
  PieceIsItsBlocks
  UploadsAreTrue
  NothingLeftWhenDone
  EveryBlockFindsItsPlace
CHECK_DEADLOCK FALSE
