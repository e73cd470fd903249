SPECIFICATION AppSpec
CONSTANTS
  StartCalls = {c1}
  StopCalls = {d1}
  Tasks = {t1, t2}
  MaxAttempts = 1
  Requests = {{"microphone", "system"}, {"microphone"}, {"system"}}
  Events = {"monitor fault", "microphone signal", "system signal"}
  NoPipe = NoPipe
SYMMETRY Symmetry
INVARIANT IdleIsReleased
INVARIANT ListeningIsAlive
INVARIANT OnlySessionRuns
CHECK_DEADLOCK FALSE
