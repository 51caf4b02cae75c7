SPECIFICATION Spec
CONSTANTS
  OracleSetUpdated = OracleSetUpdated
  SendToFx = SendToFx
  EventKinds <- MCOneKind
  ClaimKinds <- MCOneKind
  TronBlockDelay = 1
  TronRestartDelayBlock = 1
  BatchSendMsgCount = 2
  BatchBlockLimit = 1
  ScanDepth = 2
  Radix = 2
  U64 = 64
  InitHead = 2
  InitEvents <- MCTwoEvents
  MaxHead = 5
  MaxEvents = 5
  MaxPerBlock = 3
  MaxPending = 1
  StartFlags = {2}
  ForeignCaches = {0}
INVARIANTS
  IndInv
PROPERTIES
  SplitForGood
  ImplementsEventRelay
