SPECIFICATION Spec
CONSTANTS
  r1 = r1
  Resetters = {r1}
  FailureLimit = 2
  Printed = {"transition"}
INVARIANT
  ReadyMeansRunning
CHECK_DEADLOCK FALSE
