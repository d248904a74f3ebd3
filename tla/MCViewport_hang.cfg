SPECIFICATION FairSpec
CONSTANTS
  NTAR = 7
  Headed <- MCHeaded
  NHDR = 2
  TALL = 6
  NWID = 8
  AWID = 15
  NSEC = 20
  Sizes <- OneScreen
  Starts <- AllStarts
  Pressed = {"Down", "Enter"}
PROPERTIES
  SelectionReturns
