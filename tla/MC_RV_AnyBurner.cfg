SPECIFICATION Spec
CONSTANTS
  alice = alice
  bob = bob
  self = self
  none = none
  zero = zero
  n1 = n1
  n2 = n2
  c1 = c1
  c2 = c2
  noRecord = noRecord
  Account <- Accounts
  Self = self
  NoAddress = none
  Nullifier <- TwoNullifiers
  ZeroNullifier = zero
  Corridor <- Corridors
  NoRecord = noRecord
  VerifierChoice <- SelfOrAccount
  RecordCaller <- AllAddresses
  MaxCredits = 2
CHECK_DEADLOCK FALSE
INVARIANTS
  RecordsBackedByBurn
