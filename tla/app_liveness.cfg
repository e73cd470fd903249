SPECIFICATION AppSpecDriversMayHang
CONSTANTS
  StartCalls = {c1, c2}
  StopCalls = {d1}
  Tasks = {}
  MaxAttempts = 1
  Requests = {{"microphone", "system"}, {"system"}}
  Events = {"failed start", "slow start", "slow stop"}
  NoPipe = NoPipe
PROPERTY StartingEnds
PROPERTY StoppingEnds
CHECK_DEADLOCK FALSE
