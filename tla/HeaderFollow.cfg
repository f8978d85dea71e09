SPECIFICATION FairSpec

CONSTANTS
  Block <- SmallBlock
  Parent <- SmallParent
  Depth <- SmallDepth
  Branch <- SmallBranch
  Genesis = "g"
  NoBlock = "none"
  Stalled = "stalled"
  Rewind = 2
  MaxHeaders = 2
  Round = {"r1"}
  CalmPeer = TRUE
  MaxCrashes = 0
  MaxReconnects = 0
  MaxOthers = 0
  MaxServed = 2
  MaxInbox = 3

INVARIANTS
  OneWriter

PROPERTIES
  SyncEnds
  QueuedBlockIndexed

CHECK_DEADLOCK FALSE
