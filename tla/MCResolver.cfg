SPECIFICATION FairResolverSpec
CONSTANTS
  w1 = w1
  t1 = t1
  k1 = k1
  k2 = k2
  NoThread = NoThread
  Threads <- OneThread
  Workers <- TwoWorkers
  Requests <- AllRequests
  Wallets <- OneWallet
  OpeningBalance <- OpenAt2
  MaxAmount = 5
  MaxDeliveries = 3
  MaxFaults = 1
  MaxHolds = 1
  MaxRefAttempts = 1
INVARIANT
  ResolverTypeOK
  ReversalsSettledOnce
  SecondReversalNeedsOverwrite
  AttemptsBounded
PROPERTY
  RejectedIsFinal
  PendingResolved
