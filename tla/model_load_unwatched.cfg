SPECIFICATION SpecModelMayHang
CONSTANTS
  StartCalls = {c1}
  StopCalls = {}
  Tasks = {}
  MaxAttempts = 1
  Requests = {{"microphone", "system"}, {"microphone"}, {"system"}}
  Events = {"slow start"}
  NoPipe = NoPipe
PROPERTY StartingEnds
CHECK_DEADLOCK FALSE
