SPECIFICATION FairSpec
CONSTANTS
  NTAR = 7
  Headed <- MCHeaded
  NHDR = 2
  TALL = 6
  NWID = 8
  AWID = 15
  NSEC = 20
  Sizes <- GrowingScreens
  Starts <- AllStarts
  Pressed = {"PageUp", "PageDown", "Up", "Down", "n", "a", "t", "Esc"}
INVARIANTS
  TypeOK
  SelectionIsDrawn
  RowFillsTheLine
PROPERTIES
  SelectionReturns
