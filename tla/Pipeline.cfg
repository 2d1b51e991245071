CONSTANTS
  Streams = {s1}
  MaxEvents = 3
  NumSenders = 2
  CapReal = 1
  CapRetry = 1
  CapWork = 1
  CapResponses = 1
  BatchSize = 2
  BackOff = TRUE
  Sampling = TRUE
  Refusing = TRUE
  Ticking = TRUE
  MaxFails = 2
SPECIFICATION FairSpec
INVARIANTS TypeOK NoSendOnClosed DoneMeansDrained SenderLeavesNothing
PROPERTIES RunReturns ImplementsLedger FinalTotal
CHECK_DEADLOCK FALSE
