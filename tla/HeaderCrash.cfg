SPECIFICATION Spec

CONSTANTS
  Block <- MCBlock
  Parent <- MCParent
  Depth <- MCDepth
  Branch <- MCBranch
  Genesis = "g"
  NoBlock = "none"
  Stalled = "stalled"
  Rewind = 2
  MaxHeaders = 2
  Round = {"r1"}
  CalmPeer = TRUE
  MaxCrashes = 1
  MaxReconnects = 1
  MaxOthers = 0
  MaxServed = 0
  MaxInbox = 1

INVARIANTS
  TypeOK
  CalmInv
  WholeBranch
  Recoverable
  NoSelfMadeStop

PROPERTIES
  TipAfterRow
  ChainSpec
  FeedSpec

CHECK_DEADLOCK FALSE
