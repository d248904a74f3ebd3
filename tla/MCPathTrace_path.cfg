SPECIFICATION PathSpec
CONSTANTS
  NTAR = 2
  Headed = {}
  NHDR = 0
  TALL = 6
  NWID = 8
  AWID = 15
  NSEC = 20
  Sizes <- TallScreen
  Starts <- OneStart
  Dist <- MCDist
  Pressed = {"Up", "Down", "Enter", "Esc", "h"}
  TTTL = 3
  MaxLife = 0
  MaxSweeps = 3
INVARIANTS
  PathTypeOK
  HopsAreOfSelection
  TargetIsLast
  PathIsFound
  HistoryHasTheTimes
PROPERTIES
  PathOnlyShrinks
  TrimKeepsAnswers
