SPECIFICATION Spec
CONSTANTS
  StartCalls = {c1}
  StopCalls = {}
  Tasks = {t1}
  MaxAttempts = 1
  Requests = {{"microphone", "system"}, {"microphone"}, {"system"}}
  Events = {"monitor fault"}
  NoPipe = NoPipe
INVARIANT CapturingIsAlive
CHECK_DEADLOCK FALSE
