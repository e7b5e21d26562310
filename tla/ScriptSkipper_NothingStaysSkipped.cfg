SPECIFICATION Spec
CONSTANTS
  bundle = bundle
  a = a
  b = b
  Scripts <- Bundle
  Files <- BothFiles
  sourceMap <- InOrder
  skipFiles <- None
  MaxToggles = 2
  Overlap = FALSE
INVARIANTS NothingStaysSkipped
CHECK_DEADLOCK FALSE
