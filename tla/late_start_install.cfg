SPECIFICATION Spec
CONSTANTS
  StartCalls = {c1}
  StopCalls = {d1}
  Tasks = {}
  MaxAttempts = 1
  Requests = {{"microphone", "system"}, {"microphone"}, {"system"}}
  Events = {}
  NoPipe = NoPipe
PROPERTY LateStartNeverInstalls
CHECK_DEADLOCK FALSE
