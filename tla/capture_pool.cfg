SPECIFICATION FairSpec
CONSTANTS
  PoolSize = 2
  BlockFrames = 3
  NativeBlocks = {2, 3, 4}
  MaxFrames = 12
  ReportEvery = 1
  MaxClock = 2
  NoBlock = NoBlock
INVARIANT PoolConserved
INVARIANT NothingRefused
INVARIANT HeardFaithfully
PROPERTY StopReleases
CHECK_DEADLOCK FALSE
