CONSTANTS
  BlockSize = 2
  None = None
  Torrents <- DefaultDirectory
SPECIFICATION Spec
INVARIANTS
  EveryBlockFindsItsPlace
CHECK_DEADLOCK FALSE
