SPECIFICATION Spec
CONSTANTS
  NSEC = 2
  LostLimit = 99
  NTAR = 1
  SEQMAX = 3
  NUM = 4
  HALF = 8
  LOGGING = FALSE
  RTTs <- SteadyClock
  Pressed = {}
  MINUTE = 2
  Caps = {0}
  MaxCopies = 0
  MaxLife = 1
  MaxTotal = 6
INVARIANTS
  StopsAfterNum
