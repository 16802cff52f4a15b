\* The norms, computed twice, and a linear attention layer, with the switches.
SPECIFICATION Spec
CONSTANTS
  Settings <- AllGraphs
  PoolCells = 32
INVARIANTS ReadsIntended StateWritten
