SPECIFICATION Spec
CONSTANTS
  NoCall = NoCall
  Unknown = Unknown
  MaxSessions = 2
  Plans <- MCPlans
INVARIANTS
  CaptureOffIsTrue
  IdleHoldsNothing
  HistoryIsTrue
PROPERTIES
  CaptureImplemented
CHECK_DEADLOCK FALSE
