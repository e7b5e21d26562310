SPECIFICATION Spec
CONSTANTS
  NCalls = 3
  NInstalls = 3
  HasPredictor = TRUE
  PauseForSourceMap = TRUE
  Places = {p1}
  Sources = {s1, s2}
SYMMETRY SourceSymmetry
INVARIANTS
  TypeOK
  NoZombies
  ListedAreEnabled
  HandlerFollowsBreakpoints
CHECK_DEADLOCK FALSE
