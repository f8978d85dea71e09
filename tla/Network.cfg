SPECIFICATION Spec

CONSTANTS
  Address = {"a", "b"}
  InventoryLimit = 1
  MaxHeight = 1
  MaxEnds = 2
  MaxLate = 1
  KeyVerify <- MCKeyVerify
  Script <- MCScript
  ByteCode <- MCByteCode
  Amount <- MCAmount
  Key <- MCKey
  Hash <- MCHash
  Hash32 <- MCHash32
  Chain <- MCChain
  Checksum <- MCChecksum
  KeyHash <- MCKeyHash
  Payload <- MCPayload
  Streams <- MCStreams
  MaxPieces = 3
  MAX_RECEIVE_BUFFER = 60

INVARIANTS
  TypeOK
  PeersAlive
  RetryWhenAlone
  ScriptsRead
  FramesRead
  AddressesRead

PROPERTIES
  BlockArrives

CHECK_DEADLOCK FALSE
