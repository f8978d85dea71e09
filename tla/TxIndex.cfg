SPECIFICATION Spec

CONSTANTS
  Block <- ForkBlock
  Parent <- ForkParent
  Depth <- ForkDepth
  Branch <- ForkBranch
  Genesis = "g"
  NoBlock = "none"
  Stalled = "stalled"
  Contents <- MCContents
  Inputs <- MCInputs
  Pays <- MCPays
  Tx = {"cg", "c1", "ca", "cb", "p", "sa", "sb", "t", "r", "u", "x"}
  NoTx = "none"
  Address = {"M", "P", "T", "R", "U", "X"}
  Relayed = {"t", "r", "u"}
  Segwit = {"t", "u"}
  Contract = {"t", "r"}
  Spender = {"x"}
  LastPoW = 1
  Unconfirmed = 9
  Null = null
  CalmMempool = TRUE
  CalmStart = TRUE
  MaxWaiting = 1
  MaxDeliveries = 2
  MaxCrashes = 1
  MaxReorgs = 1

INVARIANTS
  TypeOK
  LedgerExact
  LinksAgree
  NoOrphans
  BalancesExact
  AddressesKept
  NeverRefused

CHECK_DEADLOCK FALSE
