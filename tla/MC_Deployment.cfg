SPECIFICATION DeploySpec
CONSTANTS
  deployer = deployer
  alice = alice
  self = self
  none = none
  zero = zero
  n1 = n1
  c1 = c1
  noRecord = noRecord
  Account <- Accounts
  Self = self
  NoAddress = none
  Nullifier <- Nullifiers
  ZeroNullifier = zero
  Corridor <- Corridors
  NoRecord = noRecord
  VerifierChoice <- OnlySelf
  RecordCaller <- Accounts
  MaxCredits = 2
  Deployer = deployer
CHECK_DEADLOCK FALSE
INVARIANT
  DeployedRetires
