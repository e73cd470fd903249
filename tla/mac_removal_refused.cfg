SPECIFICATION Spec
CONSTANTS
  Stoppers = {"monitor"}
  BlockLen = 2
  BatchFrames = 2
  MaxFrames = 2
  MaxBuffers = 2
INVARIANT TailStaysDiscarded
CHECK_DEADLOCK FALSE
