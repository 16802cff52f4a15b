SPECIFICATION Spec
CONSTANTS
  NSeq = 3
  MaxSaves = 1
  Settings <- Sound
INVARIANTS
  TailsVerified
  NeverBroken
  StateExact
CHECK_DEADLOCK FALSE
