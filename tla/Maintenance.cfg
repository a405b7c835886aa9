SPECIFICATION Spec
CONSTANTS
  Connections = {c1, c2}
  Pastes = {}
  Requests = {t1}
  Revisions <- OneRevision
  Prerequisites = {}
  SessionModes = {all}
  Slots <- MCSlots
  None = None
  MaxDrain = 1
  MaxCleanup = 1
  EffectCapacity = 1
  Observations <- DrainObservations
  Failures = {"FailedNotApplied"}
  Faults = {"Desynchronized"}
  EpochLimit = 2
SYMMETRY ConnectionSymmetry
INVARIANTS
  SealedNeverCaptures
  NeutralIsTrue
CHECK_DEADLOCK FALSE
