SPECIFICATION Spec
CONSTANTS
  StartCalls = {c1}
  StopCalls = {}
  Tasks = {}
  MaxAttempts = 1
  Requests = {{"microphone", "system"}, {"microphone"}, {"system"}}
  Events = {"shutdown"}
  NoPipe = NoPipe
INVARIANT ShutdownReleases
CHECK_DEADLOCK FALSE
