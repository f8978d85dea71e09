SPECIFICATION Spec

CONSTANTS
  Block <- ShortBlock
  Parent <- ShortParent
  Depth <- ShortDepth
  Branch <- ShortBranch
  Genesis = "g"
  NoBlock = "none"
  Stalled = "stalled"
  Rewind = 1
  MaxHeaders = 1
  Round = {"r1", "r2"}
  CalmPeer = FALSE
  MaxCrashes = 0
  MaxReconnects = 0
  MaxOthers = 1
  MaxServed = 0
  MaxInbox = 1

INVARIANTS
  HeightsTrue

CHECK_DEADLOCK FALSE
