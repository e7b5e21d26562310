SPECIFICATION FairSpec
CONSTANTS
  console = console
  exited = exited
  s1 = s1
  MaxMessages = 3
  Saves <- OneSave
  MaxClears = 2
  SaveFails = TRUE
INVARIANTS TypeOK PrintedInOrder NothingIsLost
PROPERTIES ScriptsOutliveMessages ThreadExits
CHECK_DEADLOCK FALSE
