SPECIFICATION SpecFair
CONSTANTS
  StartCalls = {c1}
  StopCalls = {}
  Tasks = {t1, t2}
  MaxAttempts = 2
  Requests = {{"microphone", "system"}, {"microphone"}, {"system"}}
  Events = {"failed start", "monitor fault", "worker fault", "panic", "microphone signal"}
  NoPipe = NoPipe
INVARIANT NothingPending
INVARIANT RecoveriesPaidFor
PROPERTY ReconnectingEnds
CHECK_DEADLOCK FALSE
