SPECIFICATION Spec
CONSTANTS
  OracleSetUpdated = OracleSetUpdated
  SendToFx = SendToFx
  EventKinds <- MCEventKinds
  ClaimKinds <- MCEventKinds
  TronBlockDelay = 1
  TronRestartDelayBlock = 1
  BatchSendMsgCount = 1
  BatchBlockLimit = 0
  ScanDepth = 2
  Radix = 2
  U64 = 64
  InitHead = 2
  InitEvents <- MCNoEvents
  MaxHead = 5
  MaxEvents = 2
  MaxPerBlock = 2
  MaxPending = 1
  StartFlags = {0, 3}
  ForeignCaches = {0, 5}
INVARIANTS
  TypeOK
  ClaimsAreSettled
  OnlySplitBlockSkipped
  CacheIsBehindClaims
  ClaimsLeaveNoGap
  RewindBounded
  GiveUpMeansAbsent
PROPERTIES
  AdvanceSkipsNothing
  ImplementsEventRelay
