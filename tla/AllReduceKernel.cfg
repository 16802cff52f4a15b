\* Two GPUs, two blocks, chunks of 4 (two vectors, one per block) or 3 (a tail).
CONSTANTS
  NRanks = 2
  Blocks = 2
  Threads = 1
  Vec <- UniformVec
  MaxCount = 4
  Counts = {3, 4}
  TokenMod = 3
  MaxCall = 3
SPECIFICATION FairSpec
INVARIANTS
  TypeOK
  ReadsCommitted
  NoDataRace
  Lockstep
PROPERTIES
  Completes
  Implements
