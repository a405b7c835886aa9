SPECIFICATION FairSpec
CONSTANTS
  Dirs = {1, 2, 3}
  Foreign = {3}
  MaxResets = 2
  Inherits = {0, 2, 3}
  MaxFaults = 2
  BrowserMakesRoot = TRUE
INVARIANTS
  OnlyAskedIsDeleted
  NothingLeftBehind
  CompletedStaysGone
  RunningIsNotDoomed
PROPERTIES
  ResetEnds
CHECK_DEADLOCK FALSE
