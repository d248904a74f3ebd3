SPECIFICATION FairSpec
CONSTANTS
  SENDS = 1
  MaxPresses = 0
PROPERTIES
  ResetHappens
