SPECIFICATION FairRelaySpec
CONSTANTS
  r1 = r1
  r2 = r2
  noRequest = noRequest
  deployer = deployer
  wallet = wallet
  self = self
  none = none
  n1 = n1
  n2 = n2
  c1 = c1
  noRecord = noRecord
  Account <- Accounts
  Self = self
  NoAddress = none
  Nullifier <- Nullifiers
  ZeroNullifier = n1
  Corridor <- Corridors
  NoRecord = noRecord
  VerifierChoice <- OnlySelf
  RecordCaller <- Accounts
  MaxCredits = 3
  Request <- TwoRequests
  NoRequest = noRequest
  Kind <- BothKinds
  Deployer = deployer
  Wallet = wallet
  UseDb = TRUE
  UseVerifier = TRUE
  UseRegistry = TRUE
  TestMode = TRUE
  Faults <- AllFaults
  MaxPolls = 1
  MaxRestarts = 1
  MaxDay = 1
CHECK_DEADLOCK FALSE
INVARIANTS
  RelayTypeOK
  VerifiedOnceUntilRestart
  VerifiedHasCertificateUntilRestart
  
  CertifiedNullifierStored
PROPERTIES
  EveryRelayAnswered
