SPECIFICATION Spec
CONSTANTS
  o1 = o1
  o2 = o2
  c1 = c1
  x1 = x1
  payee = payee
  wallet = wallet
  Accounts <- MCAccounts
  Owners <- MCOwners
  Contracts <- MCContracts
  Recipients <- MCRecipients
  Values <- MCValues
  Wallet = wallet
  Required = 2
  MaxTransactions = 3
  MaxDepth = 3
  MaxReceived = 2
CHECK_DEADLOCK FALSE
INVARIANTS TypeOK CountExact Quorum Once Accounted
PROPERTIES PromiseKept
