SPECIFICATION Spec
CONSTANTS
  StartCalls = {c1}
  StopCalls = {}
  Tasks = {t1, t2}
  MaxAttempts = 1
  Requests = {{"microphone", "system"}}
  Events = {"monitor fault", "worker fault"}
  NoPipe = NoPipe
PROPERTY TerminalStaysTerminal
CHECK_DEADLOCK FALSE
