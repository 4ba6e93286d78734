SPECIFICATION Spec
CONSTANTS
  c1 = c1
  c2 = c2
  Coins <- MCCoins
  None = none
  Sells <- MCSells
  Balances <- MCBalances
  PermitValue = 2000
  TestCoin = c1
  Precision = 200
  Safe = 4000
  Exponent = 4000
CHECK_DEADLOCK FALSE
INVARIANTS Covered TakenAsAgreed
