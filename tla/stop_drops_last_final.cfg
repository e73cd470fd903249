SPECIFICATION SessionSpec
CONSTANTS
  MaxWorkers = 2
  Scenes <- StoppedFinal
INVARIANT StopFinalizesInterim
CHECK_DEADLOCK FALSE
