CONSTANTS
  Connections = {c1, c2, c3}
  SendBitfield = {c1}
  Monitor = monitor
  NumPieces = 2
SPECIFICATION FairSpec
INVARIANTS
  TypeOK
  TellsWhatItTracks
PROPERTIES
  OnlyNestedReadBlocks
CHECK_DEADLOCK FALSE
