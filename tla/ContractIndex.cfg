SPECIFICATION Spec

CONSTANTS
  Block <- MidBlock
  Parent <- MidParent
  Depth <- MidDepth
  Branch <- MidBranch
  Genesis = "g"
  NoBlock = "none"
  Contract = {"S", "C", "D", "N"}
  Holder = {"x", "y"}
  Token = {"u", "v"}
  NoToken = "none"
  Nobody = "zero"
  Standard <- MCStandard
  Dgp = {"S"}
  Creations <- MCCreations
  Inner <- MCInner
  Logs <- MCLogs
  CalmSync = TRUE
  Steady = TRUE
  MaxCrashes = 2
  MaxForks = 2

INVARIANTS
  
  BalancesCurrent
  HoldersCurrent
  SuppliesCurrent
  ContractsCurrent

CHECK_DEADLOCK FALSE
