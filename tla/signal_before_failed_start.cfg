SPECIFICATION AppSpec
CONSTANTS
  StartCalls = {c1}
  StopCalls = {}
  Tasks = {}
  MaxAttempts = 1
  Requests = {{"microphone", "system"}}
  Events = {"failed start", "microphone signal", "system signal"}
  NoPipe = NoPipe
INVARIANT FailureShowsNoCapture
CHECK_DEADLOCK FALSE
