\* The output norm, whose result takes the memory of its input.
SPECIFICATION Spec
CONSTANTS
  Settings <- LastNorm
  PoolCells = 32
INVARIANT ReadsIntended
