SPECIFICATION FairSpec
CONSTANTS
  Contract = Contract
  Token = Token
  Addresses = {Contract, Token}
  OracleSetUpdated = OracleSetUpdated
  SendToFx = SendToFx
  Kinds = {OracleSetUpdated, SendToFx}
  NoTopic = NoTopic
  Unknown = Unknown
  Blocks <- MCBlocks
INVARIANTS
  IndInv
  AnswersComplete
  QueriesAgree
PROPERTIES
  ReadIffDecodable
