SPECIFICATION Spec
CONSTANTS
  NSEC = 2
  LostLimit = 1
  NTAR = 1
  SEQMAX = 4
  NUM = 0
  HALF = 8
  LOGGING = TRUE
  RTTs <- SteadyClock
  Pressed = {}
  MINUTE = 2
  Caps = {0}
  MaxCopies = 2
  MaxLife = 2
  MaxTotal = 5
INVARIANTS
  TypeOK
  NumbersInStep
  AgeFound
  NeverPinged
PROPERTIES
  Refines
  AnswersAreLogged
