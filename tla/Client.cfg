CONSTANTS
  None = None
  a = a
  b = b
  wrong = wrong
  mute = mute
  Clients = {a, b}
  Others = {wrong, mute}
  Manner <- MannerOf
  Fast <- FastOf
  MaxPeers = 2
  Diallers = {mute}
SPECIFICATION FairSpec
INVARIANTS
  TypeOK
  
  SessionsComeInPairs
PROPERTIES
  OnlyDeadlocksHoldUp
  BacklogIsServed
CHECK_DEADLOCK FALSE
