\* Two clicks, and one question of the effect open at a time.
SPECIFICATION FairSpec
CONSTANTS
  c1 = c1
  c2 = c2
  None = None
  Clicks = {c1, c2}
  MaxLookups = 1
INVARIANTS
  SiteOK
  ShowsInstalled
PROPERTIES
  ErrorsEnd
CHECK_DEADLOCK FALSE
