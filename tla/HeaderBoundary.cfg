SPECIFICATION Spec

CONSTANTS
  Block <- LineBlock
  Parent <- LineParent
  Depth <- LineDepth
  Branch <- LineBranch
  Genesis = "g"
  NoBlock = "none"
  Stalled = "stalled"
  Rewind = 2
  MaxHeaders = 2
  Round = {"r1"}
  CalmPeer = TRUE
  MaxCrashes = 1
  MaxReconnects = 0
  MaxOthers = 0
  MaxServed = 0
  MaxInbox = 2

INVARIANTS
  StartsFromGenesis

CHECK_DEADLOCK FALSE
