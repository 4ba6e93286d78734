SPECIFICATION Spec
CONSTANTS
  t1 = t1
  t2 = t2
  a1 = a1
  a2 = a2
  Pages <- MCPages
  Accounts <- MCAccounts
  None = none
  Starts <- MCStarts
  MaxSockets = 2
  MaxChanges = 1
  MaxNeeds = 1
  MaxFaults = 1
  MaxBusy = 2
CHECK_DEADLOCK FALSE
INVARIANTS RightPage LastPageReached
PROPERTIES SocketOpens
