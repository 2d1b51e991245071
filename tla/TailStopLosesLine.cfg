CONSTANTS
  MaxSize = 4
  Chunks = {2}
  MaxRuns = 2
  ReadFrom = "last"
  Globbed = FALSE
  Modes = {"follow"}
  Poll = FALSE
SPECIFICATION Spec
PROPERTY PicksUpWhereItLeftOff
CHECK_DEADLOCK FALSE
