SPECIFICATION FairSpec

CONSTANTS
  MaxForks = 1
  MaxWaiting = 1
  Prompt = TRUE
  SlowReads = FALSE
  Genesis = "g"
  NoBlock = "none"
  Stalled = "stalled"
  RecentHashes = 3
  Call = {"c1"}
  CalmPeer = TRUE
  MaxCrashes = 0
  MaxResumes = 0
  MaxTimeouts = 0
  Block <- MidBlock
  Parent <- MidParent
  Depth <- MidDepth
  Branch <- MidBranch

PROPERTIES
  CatchesUp
  HeadersReturn

CHECK_DEADLOCK FALSE
