SPECIFICATION SpecFair
CONSTANTS
  StartCalls = {c1}
  StopCalls = {}
  Tasks = {t1}
  MaxAttempts = 1
  Requests = {{"microphone"}}
  Events = {"monitor fault", "shutdown"}
  NoPipe = NoPipe
PROPERTY ShutdownEnds
CHECK_DEADLOCK FALSE
