SPECIFICATION Spec
CONSTANTS
  a = a
  b = b
  leftAlt = leftAlt
  rightAlt = rightAlt
  Letters <- MCLetters
  Sides <- MCSides
  KindOf <- MCKindOf
  Configurations <- MCConfigurations
  NoBinding = NoBinding
  JournalCapacity = 6
  MenuKinds = {"alt"}
  NeutralizationRequired = TRUE
  NoEvent = NoEvent
  NoTurn = NoTurn
  NoMatch = NoMatch
  AltGrSide = rightAlt
  MaxLapses = 1
INVARIANTS NoStuckLetter NothingSwallowed ModifiersFollow
INVARIANTS ActivationPaired BeliefsAreTrue
PROPERTIES TerminalNeverCaptures
CHECK_DEADLOCK FALSE
