\* Does the page's call wait for the deposit?
SPECIFICATION Spec
CONSTANTS
  r1 = r1
  r2 = r2
  s1 = s1
  a1 = a1
  a2 = a2
  None = None
  Requests = {r1, r2}
  Switches = {s1}
  Accounts = {a1, a2}
  MaxActive = 1
INVARIANT DepositBeforeOriginal
CHECK_DEADLOCK FALSE
