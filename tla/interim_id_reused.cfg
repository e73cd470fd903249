SPECIFICATION SessionSpec
CONSTANTS
  MaxWorkers = 2
  Scenes <- RefusedFinal
INVARIANT NoFinalRefused
CHECK_DEADLOCK FALSE
