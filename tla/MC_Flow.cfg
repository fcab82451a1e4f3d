SPECIFICATION FairSpec
CONSTANTS
  corsia = corsia
  taxonomy = taxonomy
  noCorridor = noCorridor
  noPath = noPath
  noProof = noProof
  noCertificate = noCertificate
  Credit <- Credits
  Corridor <- OneCorridor
  Eligible <- Meets
  RealProver = TRUE
  NoCorridor = noCorridor
  NoPath = noPath
  NoProof = noProof
  NoCertificate = noCertificate
  MaxRequests = 1
  MaxSubmits = 2
  MaxConnects = 1
CHECK_DEADLOCK FALSE
INVARIANTS
  FlowTypeOK
  OnePostAtATime
  
  
PROPERTIES
  SubmissionEnds
