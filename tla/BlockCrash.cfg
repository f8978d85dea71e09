SPECIFICATION BlockSpec

CONSTANTS
  MaxForks = 1
  MaxWaiting = 2
  Prompt = TRUE
  SlowReads = FALSE
  Genesis = "g"
  NoBlock = "none"
  Stalled = "stalled"
  RecentHashes = 3
  Call = {"c1"}
  CalmPeer = TRUE
  MaxCrashes = 1
  MaxResumes = 1
  MaxTimeouts = 0
  Block <- MidBlock
  Parent <- MidParent
  Depth <- MidDepth
  Branch <- MidBranch

INVARIANTS
  TypeOK
  OneSaver
  BlocksWhole
  CommittedIndexed
  Agree
  NoSelfMadeStop

PROPERTIES
  IndexSpec

CHECK_DEADLOCK FALSE
