SPECIFICATION Spec
CONSTANTS
  r1 = r1
  Resetters = {r1}
  FailureLimit = 2
  Printed = {"transition"}
INVARIANTS
  NativeFollowsIntent
  NeverAbandoned
  CircuitHolds
  ShutdownIsLast
CHECK_DEADLOCK FALSE
