SPECIFICATION Spec
CONSTANTS
  NSEC = 2
  LostLimit = 99
  NTAR = 2
  SEQMAX = 3
  NUM = 2
  HALF = 8
  LOGGING = TRUE
  RTTs <- SteadyClock
  Pressed = {"0", "q"}
  MINUTE = 2
  Caps = {0}
  MaxCopies = 1
  MaxLife = 1
  MaxTotal = 3
INVARIANTS
  Balanced
  LateWereLost
  StopsAfterNum
PROPERTIES
  Refines
