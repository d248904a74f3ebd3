SPECIFICATION FairSpec
CONSTANTS
  SENDS = 1
  MaxPresses = 2
INVARIANTS
  TypeOK
  LocksFollowControl
  WaitsEmptyHanded
  LatestPressIsKept
PROPERTIES
  Exits
  FrameIsDrawn
  GroupsGoOn
