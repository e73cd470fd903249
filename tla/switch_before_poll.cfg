SPECIFICATION Spec
CONSTANTS
  PacketUnits = 2
  EndpointSlots = 1
  WaitUnits = 3
  BlockLen = 3
  MaxGapFill = 3
  PollUnits = 3
  MaxNow = 6
  MaxSwitches = 1
INVARIANT WatchesWhatItHears
CHECK_DEADLOCK FALSE
