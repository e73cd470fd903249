SPECIFICATION FairSpec
CONSTANTS
  PacketUnits = 2
  EndpointSlots = 1
  WaitUnits = 3
  BlockLen = 3
  MaxGapFill = 3
  PollUnits = 3
  MaxNow = 6
  MaxSwitches = 1
INVARIANT NothingHeld
INVARIANT LeadBounded
PROPERTY SilentAfterError
PROPERTY StopReturns
PROPERTY PacketsRead
PROPERTY SwitchNoticed
CHECK_DEADLOCK FALSE
