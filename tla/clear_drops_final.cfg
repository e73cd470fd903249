SPECIFICATION SessionSpec
CONSTANTS
  MaxWorkers = 2
  Scenes <- ClearedFinal
PROPERTY ClearOnlyConfirmed
CHECK_DEADLOCK FALSE
