SPECIFICATION FairSpec
CONSTANTS
  OracleSetUpdated = OracleSetUpdated
  SendToFx = SendToFx
  EventKinds <- MCOneKind
  ClaimKinds <- MCOneKind
  TronBlockDelay = 1
  TronRestartDelayBlock = 1
  BatchSendMsgCount = 1
  BatchBlockLimit = 0
  ScanDepth = 2
  Radix = 2
  U64 = 64
  InitHead = 2
  InitEvents <- MCNoEvents
  MaxHead = 4
  MaxEvents = 2
  MaxPerBlock = 2
  MaxPending = 1
  StartFlags = {1, 3}
  ForeignCaches = {0}
PROPERTIES
  ActiveOracleRelays
