CONSTANTS
  Message <- ReadInFull
  MaxMessages = 2
  Conditions <- CutOrUpdated
SPECIFICATION FairSpec
INVARIANTS
  TypeOK
PROPERTIES
  ImplementsFifo
  AllReceived
CHECK_DEADLOCK FALSE
