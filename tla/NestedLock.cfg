CONSTANTS
  Connections = {c1}
  SendBitfield = {c1}
  Monitor = monitor
  NumPieces = 1
SPECIFICATION FairSpec
PROPERTIES
  LockIsGranted
CHECK_DEADLOCK FALSE
