SPECIFICATION Spec
CONSTANTS
  t1 = t1
  t2 = t2
  v1 = v1
  m1 = m1
  session = session
  Transcribers = {t1, t2}
  Verifiers = {v1}
  Mutators = {m1}
  Session = session
  Nobody = nobody
  Holders <- MCHolders
  Casts <- MCCasts
  MaxPushes = 1
  MaxRestarts = 1
  MaxGeneration = 2
INVARIANTS
  UseCoversWork
  SharingIsFair
  NothingForgotten
PROPERTIES
  FilesNeverChangeUnderUse
  NoStartAfterClose
CHECK_DEADLOCK FALSE
