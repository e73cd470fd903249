SPECIFICATION FairSpec
CONSTANTS
  Stoppers = {"monitor"}
  BlockLen = 2
  BatchFrames = 2
  MaxFrames = 3
  MaxBuffers = 2
INVARIANT OneShape
PROPERTY SilentAfterStop
PROPERTY StopReturns
CHECK_DEADLOCK FALSE
