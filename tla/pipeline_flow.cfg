SPECIFICATION FairSpec
CONSTANTS
  PoolSize = 2
  ChunkUnits = 2
  BlockUnits = 5
  MaxBlocks = 3
  Faults = {"source", "worker"}
INVARIANT BuffersConserved
INVARIANT HeardInOrder
INVARIANT AbandonedNotFinalized
PROPERTY TeardownEnds
CHECK_DEADLOCK FALSE
