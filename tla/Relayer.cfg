SPECIFICATION Spec
CONSTANTS
  u1 = u1
  u2 = u2
  deployer = deployer
  operator = operator
  market = market
  none = none
  Users <- MCUsers
  Operators <- MCOperators
  Deployer = deployer
  Market = market
  None = none
  Amounts <- MCAmounts
  PermitValue = 2
  Payments <- MCPayments
  Purse = 2
  MaxSignatures = 1
  MaxHeld <- MCMaxHeld
SYMMETRY UserSymmetry
CHECK_DEADLOCK FALSE
INVARIANTS NothingLeftBehind Recompensed OncePerSignature
PROPERTIES NoPullInSwap
