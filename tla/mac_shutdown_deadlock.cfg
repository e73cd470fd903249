SPECIFICATION FairSpec
CONSTANTS
  Stoppers = {"shutdown"}
  BlockLen = 2
  BatchFrames = 2
  MaxFrames = 2
  MaxBuffers = 2
PROPERTY StopReturns
CHECK_DEADLOCK FALSE
