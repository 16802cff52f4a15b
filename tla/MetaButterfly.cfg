\* Two to four backends, both ways to copy.
SPECIFICATION Spec
CONSTANTS
  Sizes = {2, 3, 4}
  Inactive = {0, 1}
  Settings <- SyncAndAsync
INVARIANTS AuxFits SumExact BitIdentical NoDataRace
