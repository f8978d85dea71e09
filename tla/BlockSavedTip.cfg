SPECIFICATION BlockSpec

CONSTANTS
  MaxForks = 1
  MaxWaiting = 2
  Prompt = TRUE
  SlowReads = TRUE
  Genesis = "g"
  NoBlock = "none"
  Stalled = "stalled"
  RecentHashes = 3
  Call = {"c1"}
  CalmPeer = TRUE
  MaxCrashes = 0
  MaxResumes = 0
  MaxTimeouts = 0
  Block <- MidBlock
  Parent <- MidParent
  Depth <- MidDepth
  Branch <- MidBranch

INVARIANTS
  SavedTipGood

CHECK_DEADLOCK FALSE
