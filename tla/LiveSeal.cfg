SPECIFICATION FairSpec
CONSTANTS
  Connections = {c1}
  Pastes = {}
  Requests = {t1}
  Revisions <- OneRevision
  Prerequisites = {hook}
  SessionModes = {}
  Slots <- MCSlots
  None = None
  MaxDrain = 1
  MaxCleanup = 0
  EffectCapacity = 0
  Observations <- SealObservations
  Failures = {"FailedNotApplied"}
  Faults = {"Stale"}
  EpochLimit = 1
PROPERTIES
  SealingEnds
  PredecessorTold
  ClosingEnds
CHECK_DEADLOCK FALSE
