SPECIFICATION PathSpec
CONSTANTS
  NTAR = 3
  Headed = {}
  NHDR = 0
  TALL = 6
  NWID = 8
  AWID = 15
  NSEC = 20
  Sizes <- ShortScreen
  Starts <- OneStart
  Dist <- MCDist
  Pressed = {"PageDown", "Enter"}
  TTTL = 3
  MaxLife = 0
  MaxSweeps = 2
INVARIANTS
  HopsAreReset
