\* A page that makes one call at a time, while the user changes accounts.
SPECIFICATION FairSpec
CONSTANTS
  r1 = r1
  r2 = r2
  s1 = s1
  a1 = a1
  a2 = a2
  None = None
  Requests = {r1, r2}
  Switches = {s1}
  Accounts = {a1, a2}
  MaxActive = 1
INVARIANTS
  OwnPrompt
PROPERTIES
  ActionEnds
  LoadingEnds
CHECK_DEADLOCK FALSE
