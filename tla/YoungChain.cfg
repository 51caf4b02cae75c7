SPECIFICATION Spec
CONSTANTS
  OracleSetUpdated = OracleSetUpdated
  SendToFx = SendToFx
  EventKinds <- MCOneKind
  ClaimKinds <- MCOneKind
  TronBlockDelay = 1
  TronRestartDelayBlock = 1
  BatchSendMsgCount = 1
  BatchBlockLimit = 0
  ScanDepth = 4
  Radix = 2
  U64 = 64
  InitHead = 2
  InitEvents <- MCOneEvent
  MaxHead = 4
  MaxEvents = 2
  MaxPerBlock = 1
  MaxPending = 1
  StartFlags = {0}
  ForeignCaches = {0}
INVARIANTS
  GiveUpMeansAbsent
