SPECIFICATION AppSpec
CONSTANTS
  StartCalls = {c1}
  StopCalls = {d1, d2}
  Tasks = {}
  MaxAttempts = 1
  Requests = {{"microphone"}}
  Events = {}
  NoPipe = NoPipe
INVARIANT IdleAfterTeardown
CHECK_DEADLOCK FALSE
