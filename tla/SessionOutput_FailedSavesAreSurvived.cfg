SPECIFICATION FairSpec
CONSTANTS
  console = console
  exited = exited
  s1 = s1
  MaxMessages = 1
  Saves <- OneSave
  MaxClears = 1
  SaveFails = TRUE
PROPERTY FailedSavesAreSurvived
CHECK_DEADLOCK FALSE
