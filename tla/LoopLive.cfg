SPECIFICATION BridgeFairSpec
CONSTANTS
  OracleSetUpdated = OracleSetUpdated
  EventKinds <- MCOneKind
  ClaimKinds <- MCOneKind
  TronBlockDelay = 1
  TronRestartDelayBlock = 1
  BatchSendMsgCount = 1
  BatchBlockLimit = 0
  ScanDepth = 2
  Radix = 2
  U64 = 64
  InitHead = 2
  InitEvents <- MCNoEvents
  MaxHead = 3
  MaxEvents = 1
  MaxPerBlock = 1
  MaxPending = 0
  StartFlags = {2}
  ForeignCaches = {0}
  GravityIds = {g1}
  MaxNonce = 1
  MaxUnanswered = 0
  ConfirmChunk = 1
PROPERTIES
  SigningNotHeldBack
  RelayNotHeldBack
