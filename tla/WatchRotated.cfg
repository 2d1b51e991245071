CONSTANTS
  NumFiles = 1
  MaxInodes = 2
  MaxLines = 1
  MaxWritten = 2
  MaxCancelled = 2
  MaxTailers = 2
  MaxRuns = 2
  Globbed = FALSE
  DotLog = TRUE
  StopOption = FALSE
  Reused = {1}
SPECIFICATION SpecOpened
PROPERTY RotatedMeansBeginning
CHECK_DEADLOCK FALSE
