CONSTANTS
  MaxSize = 5
  Chunks = {2,3}
  MaxRuns = 2
  ReadFrom = "last"
  Globbed = TRUE
  Modes = {"follow", "stop"}
  Poll = FALSE
SPECIFICATION Spec
INVARIANTS TypeOK InOrder SavedAtMostTwoAhead
PROPERTIES SkipsAtMostTwo ImplementsLineFeed
CHECK_DEADLOCK FALSE
