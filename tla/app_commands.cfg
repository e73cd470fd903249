SPECIFICATION AppSpec
CONSTANTS
  StartCalls = {c1, c2}
  StopCalls = {d1}
  Tasks = {}
  MaxAttempts = 1
  Requests = {{"microphone", "system"}, {"microphone"}, {"system"}, {}}
  Events = {"failed start", "enumeration", "microphone signal", "system signal"}
  NoPipe = NoPipe
SYMMETRY Symmetry
INVARIANT CapturingIsAlive
INVARIANT ErrorIsDead
INVARIANT StartStands
CHECK_DEADLOCK FALSE
