SPECIFICATION Spec
CONSTANTS
  Page = {p1}
  Retirement = {1, 2}
  Secret = {1}
  Period = {1, 2}
  Threshold = {6}
  VolumeOf <- MCVolumeOf
  Form <- MCForm
  RealProver = TRUE
  CircuitSize = 2
  MaxU64 = 15
  MaxAttempts = 2
  TreeDepth = 2
INVARIANT
  RetirementsCountOnce
