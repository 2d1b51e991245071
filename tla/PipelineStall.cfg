CONSTANTS
  Streams = {s1}
  MaxEvents = 7
  NumSenders = 1
  CapReal = 1
  CapRetry = 1
  CapWork = 1
  CapResponses = 1
  BatchSize = 2
  BackOff = TRUE
  Sampling = FALSE
  Refusing = FALSE
  Ticking = FALSE
  MaxFails = 2
SPECIFICATION Spec
INVARIANT NoStandstill
CHECK_DEADLOCK FALSE
