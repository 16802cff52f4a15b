SPECIFICATION Spec
CONSTANTS
  NSeq = 3
  MaxSaves = 0
  Settings <- TwoMicroBatches
INVARIANTS
  StateExact
CHECK_DEADLOCK FALSE
