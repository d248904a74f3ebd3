SPECIFICATION FairSpec
CONSTANTS
  NSEC = 2
  LostLimit = 99
  NTAR = 1
  SEQMAX = 4
  NUM = 4
  HALF = 8
  LOGGING = FALSE
  RTTs <- SteadyClock
  Pressed = {"Left", "Right", "-", "+", "End", "q", "0"}
  MINUTE = 2
  Caps = {0, 1}
  MaxCopies = 1
  MaxLife = 1
  MaxTotal = 4
INVARIANTS
  NeverPinged
  Balanced
PROPERTIES
  Terminates
