\* Two GPUs, tensors of one or two chunks, both wire types, rank 1 active or not;
\* the third call reuses the first slot.
CONSTANTS
  NRanks = 2
  MaxChunks = 2
  Bf16 = {TRUE, FALSE}
  Inactive = {{}, {1}}
  MaxCall = 3
SPECIFICATION FairSpec
INVARIANTS
  NoDataRace
  SumStays
PROPERTIES
  Completes
  Implements
