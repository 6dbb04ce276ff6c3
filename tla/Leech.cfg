CONSTANTS
  FileLength = 2
  PieceLength = 1
  BlockSize = 1
  PipelineLen = 2
  None = None
  FastChoices = {FALSE}
  ChildCapacity = 2
  ParentCapacity = 8
  QueueCapacity = 1
  PeerMessages = {"BitField", "Have", "UnChoke", "Choke", "Piece",
                  "Request", "Cancel"}
  InitialBitfields = {{}, {1}, {0, 1}}
  OthersVerify = {0}
  OthersReport <- NoBlocks
  MayBreak = FALSE
SPECIFICATION Spec
INVARIANTS
  TypeOK
  TrackerCaughtUp
  PeerKnowsWhatWeHave
  
  AsksOnlyWhatPeerHas
PROPERTIES
  NoRequestForWhatWeHave
  
CHECK_DEADLOCK FALSE
