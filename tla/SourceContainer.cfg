SPECIFICATION FairSpec
CONSTANTS
  self = self
  c1 = c1
  c2 = c2
  page = page
  hot = hot
  file = file
  MaxScripts = 3
  MaxSameUrl = 2
  Contexts <- TwoContexts
  ScriptUrls <- PageAndHot
  OriginalUrls <- File
  HmrUrls <- Hot
  ReloadedUrls <- Page
  MapOf <- Maps
INVARIANTS TypeOK OneSourcePerFile LinksAreMutual GoneWithTheirContexts
PROPERTIES EveryMapIsReady
CHECK_DEADLOCK FALSE
