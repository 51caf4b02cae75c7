SPECIFICATION BridgeSpec
CONSTANTS
  OracleSetUpdated = OracleSetUpdated
  EventKinds <- MCOneKind
  ClaimKinds <- MCOneKind
  TronBlockDelay = 1
  TronRestartDelayBlock = 1
  BatchSendMsgCount = 1
  BatchBlockLimit = 0
  ScanDepth = 2
  Radix = 2
  U64 = 64
  InitHead = 2
  InitEvents <- MCNoEvents
  MaxHead = 3
  MaxEvents = 1
  MaxPerBlock = 1
  MaxPending = 1
  StartFlags = {0, 2}
  ForeignCaches = {0}
  GravityIds = {g1, g2}
  MaxNonce = 1
  MaxUnanswered = 0
  ConfirmChunk = 1
INVARIANTS
  BridgeTypeOK
  HalvesAlternate
PROPERTIES
  ImplementsOracle
  ImplementsSinger
