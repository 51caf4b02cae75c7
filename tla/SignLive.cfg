SPECIFICATION SigningSpec
CONSTANTS
  GravityIds = {g1}
  MaxNonce = 2
  MaxUnanswered = 1
  ConfirmChunk = 2
PROPERTIES
  BatchesEventuallyConfirmed
  SetsEventuallyConfirmed
