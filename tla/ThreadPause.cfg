SPECIFICATION FairSpec
CONSTANTS
  MaxPauses = 3
  MaxRequests = 3
INVARIANTS
  TypeOK
  EditorAgrees
PROPERTIES
  NoPauseIsSkipped
  EveryPauseIsHandled
  RequestsAreAnswered
CHECK_DEADLOCK FALSE
