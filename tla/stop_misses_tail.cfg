SPECIFICATION Spec
CONSTANTS
  PoolSize = 2
  ChunkUnits = 2
  BlockUnits = 1
  MaxBlocks = 3
  Faults = {}
INVARIANT StopHearsAll
CHECK_DEADLOCK FALSE
