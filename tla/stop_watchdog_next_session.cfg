SPECIFICATION AppSpec
CONSTANTS
  StartCalls = {c1, c2}
  StopCalls = {d1}
  Tasks = {}
  MaxAttempts = 1
  Requests = {{"microphone"}}
  Events = {"slow stop"}
  NoPipe = NoPipe
INVARIANT IdleIsReleased
CHECK_DEADLOCK FALSE
