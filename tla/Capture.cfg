SPECIFICATION Spec
CONSTANTS
  Connections = {c1}
  Pastes = {p1}
  Requests = {}
  Revisions <- TwoRevisions
  Prerequisites = {}
  SessionModes = {}
  Slots <- MCSlots
  None = None
  MaxDrain = 1
  MaxCleanup = 0
  EffectCapacity = 0
  Observations <- PasteObservations
  Failures = {"FailedNotApplied", "Indeterminate"}
  Faults = {"Recoverable", "IdsExhausted"}
  EpochLimit = 1
INVARIANTS
  TypeOK
  EnabledSound
  AppliedBelongsToLease
  CloseAssured
  PasteOwnershipAgrees
  DependentsInOrder
PROPERTIES
  FailClosed
  CancelledPasteNeverClaims
CHECK_DEADLOCK FALSE
