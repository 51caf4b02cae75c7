SPECIFICATION Spec
CONSTANTS
  Width = 4
  Byte = {0, 1}
  U64 = 4
  BridgeIds <- MCBridgeIds
  Values = {0, 3, 4, 6}
  Answers <- MCAnswers
  I64 = 32
  Prices = {0, 3, 5, 6, 31}
  Energies = {0, 1, 2, 3, 9}
  TimeOut = 10
  Pause = 3
  Latency = 2
INVARIANTS
  TypeOK
  BridgeIdRoundTrip
  LimitCoversPriceRise
  NoMintMissed
  WaitBounded
