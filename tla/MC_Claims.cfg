SPECIFICATION FairSpec
CONSTANTS
  Page = {p1, p2}
  Retirement = {1, 2}
  Secret = {1}
  Period = {1}
  Threshold = {6}
  VolumeOf <- MCVolumeOf
  Form <- MCForm
  RealProver = TRUE
  CircuitSize = 2
  MaxU64 = 15
  MaxAttempts = 2
  TreeDepth = 2
INVARIANTS
  ClaimTypeOK HonestClaimIsProved VolumesBelong 
PROPERTIES
  LaterClaimIsRefused ClaimEnds
