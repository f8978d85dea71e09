SPECIFICATION BlockSpec

CONSTANTS
  MaxForks = 1
  MaxWaiting = 2
  Prompt = TRUE
  SlowReads = FALSE
  Genesis = "g"
  NoBlock = "none"
  Stalled = "stalled"
  RecentHashes = 3
  Call = {"c1"}
  CalmPeer = TRUE
  MaxCrashes = 1
  MaxResumes = 0
  MaxTimeouts = 0
  Block <- LineBlock
  Parent <- LineParent
  Depth <- LineDepth
  Branch <- LineBranch

INVARIANTS
  SavedAgain

CHECK_DEADLOCK FALSE
