SPECIFICATION FairSpec
CONSTANTS
  w1 = w1
  w2 = w2
  n1 = n1
  n2 = n2
  Runner <- TwoRunners
  Nullifier <- Nullifiers
  TopicNullifier = TRUE
  Faults <- NoFaults
  BatchSize = 2
  MaxLedger = 3
  MaxRestarts = 0
CHECK_DEADLOCK FALSE
INVARIANTS
  ProcessedIsIndexed
  

  
