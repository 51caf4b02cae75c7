SPECIFICATION Spec
CONSTANTS
  U64 = 8
  MaxHeight = 4
INVARIANTS
  TypeOK
  RunsAfterProgress
PROPERTIES
  WaitEnds
  OneDaemonStays
