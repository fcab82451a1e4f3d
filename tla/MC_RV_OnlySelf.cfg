SPECIFICATION Spec
CONSTANTS
  alice = alice
  bob = bob
  self = self
  none = none
  zero = zero
  n1 = n1
  n2 = n2
  c1 = c1
  c2 = c2
  noRecord = noRecord
  Account <- Accounts
  Self = self
  NoAddress = none
  Nullifier <- Nullifiers
  ZeroNullifier = zero
  Corridor <- Corridors
  NoRecord = noRecord
  VerifierChoice <- OnlySelf
  RecordCaller <- Accounts
  MaxCredits = 2
CHECK_DEADLOCK FALSE
INVARIANTS
  TypeOK
  OneCreditPerNullifier
  BurnsAreRecorded
  UsedMatchesRecords
  RetiredEventsMatchRecords
PROPERTIES
  RetirementIsFinal
  ImplementsLedger
