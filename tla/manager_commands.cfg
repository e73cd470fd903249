SPECIFICATION Spec
CONSTANTS
  StartCalls = {c1, c2}
  StopCalls = {d1}
  Tasks = {}
  MaxAttempts = 1
  Requests = {{"microphone", "system"}, {"system"}}
  Events = {"failed start", "slow start", "slow stop", "shutdown", "enumeration"}
  NoPipe = NoPipe
SYMMETRY Symmetry
INVARIANT SingleOwner
INVARIANT AtomicStart
PROPERTY RefinesOwnership
CHECK_DEADLOCK FALSE
