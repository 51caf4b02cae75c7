SPECIFICATION SigningSpec
CONSTANTS
  GravityIds = {g1, g2}
  MaxNonce = 2
  MaxUnanswered = 1
  ConfirmChunk = 1
INVARIANTS
  SigningTypeOK
  OldestSetFirst
  SigningInv
PROPERTIES
  ImplementsSigningDuty
  ConfirmsAreCurrent
