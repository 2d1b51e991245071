CONSTANTS
  NumFiles = 2
  MaxInodes = 3
  MaxLines = 1
  MaxWritten = 1
  MaxCancelled = 2
  MaxTailers = 2
  MaxRuns = 1
  Globbed = TRUE
  DotLog = TRUE
  StopOption = FALSE
  Reused = {1}
SPECIFICATION FairSpec
INVARIANTS TypeOK OneFollower StatesOfKnownFiles NoDoubleRead
PROPERTIES Found Released
CHECK_DEADLOCK FALSE
