SPECIFICATION Spec
CONSTANTS
  NSEC = 3
  LostLimit = 99
  NTAR = 1
  SEQMAX = 5
  NUM = 0
  HALF = 8
  LOGGING = FALSE
  RTTs <- SteadyClock
  Pressed = {"Left"}
  MINUTE = 2
  Caps = {1}
  MaxCopies = 1
  MaxLife = 2
  MaxTotal = 3
PROPERTIES
  LateMarksItsPing
