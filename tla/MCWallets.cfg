SPECIFICATION WalletSpec
CONSTANTS
  c1 = c1
  c2 = c2
  c3 = c3
  NoProvider = NoProvider
  Callers <- ThreeCallers
  Provider <- AllTokens
  Owners <- TwoOwners
  InitialBalances <- SomeBalances
  Amounts = {1}
  PageSize = 2
  MaxTransactions = 3
  MaxCalls = 3
  MaxFaults = 1
INVARIANT
  WalletPerOwner
  SumIsBalance
  ReconcilesRealBalances
