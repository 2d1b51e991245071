CONSTANTS
  MaxSize = 4
  Chunks = {2}
  MaxRuns = 1
  ReadFrom = "last"
  Globbed = TRUE
  Modes = {"follow", "stop"}
  Poll = FALSE
SPECIFICATION Spec
INVARIANT FinalOffset
CHECK_DEADLOCK FALSE
