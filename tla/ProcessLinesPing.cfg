CONSTANTS
  Dialects = {"mysql"}
  MaxEntries = 3
  MaxPolled = 0
  NumParsers = 1
  Sampled = {}
  Pings = TRUE
SPECIFICATION Spec
INVARIANT EveryStatement
CHECK_DEADLOCK FALSE
