SPECIFICATION Spec
CONSTANTS
  Connections = {c1}
  Pastes = {p1}
  Requests = {}
  Revisions <- OneRevision
  Prerequisites = {hook}
  SessionModes = {}
  Slots <- MCSlots
  None = None
  MaxDrain = 1
  MaxCleanup = 0
  EffectCapacity = 0
  Observations <- ClaimedObservations
  Failures = {"FailedNotApplied"}
  Faults = {}
  EpochLimit = 1
PROPERTIES
  ClaimedPasteNeverCancelled
CHECK_DEADLOCK FALSE
