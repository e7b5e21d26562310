SPECIFICATION FairSpec
CONSTANTS
  c1 = c1
  Calls <- OneCall
  MaxAttempts = 1
  Consoles <- ChildOrUnknown
  Fallible = TRUE
INVARIANTS TypeOK OneProgram NothingOutlivesTheRun
PROPERTIES RestartsAfresh EveryEndIsHandled
CHECK_DEADLOCK FALSE
