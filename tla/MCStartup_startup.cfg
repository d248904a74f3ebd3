SPECIFICATION Spec
CONSTANTS
  MAXSZ = 19
  Hosts <- MCHosts
  HostLength <- MCHostLength
  Address <- MCAddress
  Displays = {0, 9}
  FileOptions <- MCFileOptions
  CommandLines <- MCCommandLines
  Pids = {1, 65535}
  MaxLines = 4
INVARIANTS
  StartupTypeOK
  HeadersCounted
  ColumnsFit
  AddressNamesTarget
  CommandLineWins
  PeriodWithinASecond
  ChecksumIsRight
  AnswersAreRecognised
