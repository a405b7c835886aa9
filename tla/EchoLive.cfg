SPECIFICATION FairSpec
CONSTANTS
  NoCall = NoCall
  Unknown = Unknown
  MaxSessions = 1
  Plans <- LivePlans
PROPERTIES
  SessionEnds
  ShutdownEnds
  CaptureReleased
CHECK_DEADLOCK FALSE
