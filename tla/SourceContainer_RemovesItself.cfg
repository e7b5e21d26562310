SPECIFICATION Spec
CONSTANTS
  self = self
  c1 = c1
  c2 = c2
  page = page
  hot = hot
  file = file
  MaxScripts = 3
  MaxSameUrl = 3
  Contexts <- OneContext
  ScriptUrls <- Page
  OriginalUrls <- None
  HmrUrls <- None
  ReloadedUrls <- Page
  MapOf <- NoMap
INVARIANTS RemovesItself
CHECK_DEADLOCK FALSE
