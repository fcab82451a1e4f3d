SPECIFICATION Spec
CONSTANTS
  w1 = w1
  w2 = w2
  n1 = n1
  n2 = n2
  Runner <- TwoRunners
  Nullifier <- Nullifiers
  TopicNullifier = TRUE
  Faults <- AllFaults
  BatchSize = 2
  MaxLedger = 3
  MaxRestarts = 1
CHECK_DEADLOCK FALSE
SYMMETRY Symmetry
INVARIANTS
  NoDoubleProcessing

  
