SPECIFICATION FairSpec
CONSTANTS
  Kinds = {"capture", "audio"}
  Threads = {"t1", "t2"}
  Emissions = {{"capture"}, {"audio"}}
  MaxRevision = 2
INVARIANT UpToDate
PROPERTY NeverBackwards
INVARIANT ReleasedOnce
PROPERTY ListenersReleased
CHECK_DEADLOCK FALSE
