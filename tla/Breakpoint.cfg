SPECIFICATION FairSpec
CONSTANTS
  u = u
  re = re
  s1 = s1
  s2 = s2
  Urls <- MCUrls
  Regexes <- MCRegexes
  Covers <- MCCovers
  Scripts <- MCScripts
  UrlOf <- MCUrlOf
  HasSourceURL <- MCRenamed
  ByScriptId <- MCRenamed
  PathArgs <- MCPathArgs
  Positions <- OnePosition
  Refs = {r1, r2}
  Calls = {c1}
INVARIANTS
  TypeOK
  UrlBreakpointsAreTracked
  DisabledMeansRemoved
  NoDuplicateRequest
PROPERTIES
  ListedUntilCondemned
  DisableTakesEffect
CHECK_DEADLOCK FALSE
