SPECIFICATION Spec
CONSTANTS
  StartCalls = {c1}
  StopCalls = {d1}
  Tasks = {}
  MaxAttempts = 1
  Requests = {{"microphone", "system"}, {"microphone"}, {"system"}}
  Events = {"failed start"}
  NoPipe = NoPipe
INVARIANT NothingPending
CHECK_DEADLOCK FALSE
