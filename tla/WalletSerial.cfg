SPECIFICATION PSpec
CONSTANTS
  k1 = k1
  k2 = k2
  f1 = f1
  a1 = a1
  usdc = usdc
  dai = dai
  Connects <- MCConnects
  Flows <- MCFlows
  Accounts <- MCAccounts
  Coins <- MCCoins
  Eth = eth
  Home = home
  home = home
  Networks = {home}
  None = none
  MaxBusy = 1
  Get = get
  GetLost = getlost
  MaxInbox = 2
SYMMETRY HandlerSymmetry
CHECK_DEADLOCK FALSE
INVARIANTS PopupOK OneServed QuoteInChosenCoin ShowsSelected
