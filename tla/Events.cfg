CONSTANTS
  Keys = {1, 2}
  MaxCount = 3
  MinEvents = 2
  Unit = 12
  Log10 <- MCLog10
  Scenarios <- MCScenarios
SPECIFICATION Spec
INVARIANTS NothingHiddenIsSent OthersUntouched RateMeansRate OnlyTimeFieldLost YearRecovered MongoValuesKept QuietSendsAll RatesMeetGoal
CHECK_DEADLOCK FALSE
