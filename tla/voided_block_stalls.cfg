SPECIFICATION Spec
CONSTANTS
  PoolSize = 2
  BlockFrames = 2
  NativeBlocks = {1, 2, 3}
  MaxFrames = 5
  ReportEvery = 1
  MaxClock = 1
  NoBlock = NoBlock
INVARIANT VoidedBlockReused
CHECK_DEADLOCK FALSE
