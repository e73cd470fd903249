SPECIFICATION Spec
CONSTANTS
  StartCalls = {c1}
  StopCalls = {}
  Tasks = {t1, t2}
  MaxAttempts = 1
  Requests = {{"microphone", "system"}, {"microphone"}, {"system"}}
  Events = {"monitor fault"}
  NoPipe = NoPipe
INVARIANT ErrorOnlyWhenAllTerminal
CHECK_DEADLOCK FALSE
