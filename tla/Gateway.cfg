SPECIFICATION Spec
CONSTANTS
  r1 = r1
  r2 = r2
  r3 = r3
  v1 = v1
  v2 = v2
  message = message
  none = none
  Requests <- MCRequests
  Workers = 3
  Providers = 2
  QuorumNumber = 2
  Values <- MCValues
  Message = message
  None = none
  Load <- MCLoad
CHECK_DEADLOCK FALSE
INVARIANTS QuorumBehind EvenlySpread
PROPERTIES EachAnswered
