SPECIFICATION SessionSpec
CONSTANTS
  MaxWorkers = 3
  Scenes <- AllScenes
INVARIANT EveryFinalKept
INVARIANT TimelineMonotone
PROPERTY FinalsNeverChange
PROPERTY CopiedIsTrue
INVARIANT PendingIsAnswered
CHECK_DEADLOCK FALSE
