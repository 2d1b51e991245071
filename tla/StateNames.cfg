CONSTANTS
  Logs <- McLogs
  Configs <- McConfigs
  MaxSize = 1
  MaxRuns = 2
SPECIFICATION Spec
INVARIANTS StatesWhereAsked
PROPERTIES ResumesWhereSaved NewFilesWhole
CHECK_DEADLOCK FALSE
