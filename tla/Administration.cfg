SPECIFICATION ASpec
CONSTANTS
  o1 = o1
  o2 = o2
  keeper = keeper
  wallet = wallet
  Accounts <- MCAccounts
  Owners <- MCOwners
  Contracts <- MCNobody
  Recipients <- MCRecipients
  Values <- MCValues
  Wallet = wallet
  Required = 2
  MaxTransactions = 2
  MaxDepth = 1
  MaxReceived = 0
  Deployer = o1
  Operator = o2
  Requests <- MCRequests
  ConfirmedIndex = 1
  Tampered <- MCTampered
  MaxVersion = 1
CHECK_DEADLOCK FALSE
INVARIANTS AdministrationOK PauseNeedsQuorum Completed
PROPERTIES AdminNeedsQuorum
