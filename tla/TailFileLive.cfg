CONSTANTS
  MaxSize = 4
  Chunks = {2}
  MaxRuns = 1
  ReadFrom = "last"
  Globbed = TRUE
  Modes = {"follow", "stop"}
  Poll = TRUE
SPECIFICATION FairSpec
PROPERTIES EveryLineArrives StreamCloses FileReleased StopReturns
CHECK_DEADLOCK FALSE
