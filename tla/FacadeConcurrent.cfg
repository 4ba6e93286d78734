\* Two calls of a page at the same time.
SPECIFICATION Spec
CONSTANTS
  r1 = r1
  r2 = r2
  s1 = s1
  a1 = a1
  a2 = a2
  None = None
  Requests = {r1, r2}
  Switches = {}
  Accounts = {a1}
  MaxActive = 2
SYMMETRY RequestSymmetry
INVARIANTS
  Consent
  DepositAnnounced
  NoLostWaiter
  NoStaleHandler
  OpenDrawerAlive
PROPERTIES
  FlowKept
CHECK_DEADLOCK FALSE
