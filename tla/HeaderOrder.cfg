SPECIFICATION Spec

CONSTANTS
  Block <- LineBlock
  Parent <- LineParent
  Depth <- LineDepth
  Branch <- LineBranch
  Genesis = "g"
  NoBlock = "none"
  Stalled = "stalled"
  Rewind = 2
  MaxHeaders = 2
  Round = {"r1", "r2"}
  CalmPeer = TRUE
  MaxCrashes = 0
  MaxReconnects = 0
  MaxOthers = 1
  MaxServed = 0
  MaxInbox = 2

INVARIANTS
  HeadersArriveInOrder

CHECK_DEADLOCK FALSE
