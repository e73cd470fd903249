SPECIFICATION AppSpec
CONSTANTS
  StartCalls = {c1}
  StopCalls = {d1}
  Tasks = {t1}
  MaxAttempts = 1
  Requests = {{"microphone", "system"}, {"microphone"}, {"system"}}
  Events = {"monitor fault"}
  NoPipe = NoPipe
INVARIANT NothingPending
CHECK_DEADLOCK FALSE
