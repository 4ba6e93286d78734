SPECIFICATION Spec
CONSTANTS
  k1 = k1
  k2 = k2
  f1 = f1
  f2 = f2
  a1 = a1
  a2 = a2
  usdc = usdc
  dai = dai
  Connects <- MCConnects
  Flows <- MCFlows
  Accounts <- MCAccounts
  Coins <- MCCoins
  Eth = eth
  home = home
  away = away
  Home = home
  Networks = {home, away}
  None = none
  MaxBusy = 2
SYMMETRY HandlerSymmetry
CHECK_DEADLOCK FALSE
INVARIANTS StoredWalletKnown TokenOfNetwork
