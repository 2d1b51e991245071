CONSTANTS
  Dialects = {"mysql", "postgresql", "lines"}
  MaxEntries = 3
  MaxPolled = 1
  NumParsers = 2
  Sampled = {"mysql", "lines"}
  Pings = FALSE
SPECIFICATION FairSpec
INVARIANTS TypeOK WholeStatements EveryStatement WholeQuery SurvivesPolling NothingAfterReturn
PROPERTIES ParserReturns
CHECK_DEADLOCK FALSE
