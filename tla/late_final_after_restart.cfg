SPECIFICATION SessionSpec
CONSTANTS
  MaxWorkers = 2
  Scenes <- LateFinal
INVARIANT EmittedInOrder
CHECK_DEADLOCK FALSE
