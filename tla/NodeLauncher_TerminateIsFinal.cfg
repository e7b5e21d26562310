SPECIFICATION Spec
CONSTANTS
  c1 = c1
  Calls <- NoCall
  MaxAttempts = 1
  Consoles <- Subprocess
  Fallible = FALSE
INVARIANT TerminateIsFinal
CHECK_DEADLOCK FALSE
