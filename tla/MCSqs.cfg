SPECIFICATION FairSqsSpec
CONSTANTS
  w1 = w1
  t1 = t1
  t2 = t2
  NoThread = NoThread
  Workers = {}
  Threads <- TwoThreads
  SqsWorkers <- OneThread
  Requests <- MixedRequests
  Malformed <- Garbage
  Wallets <- OneWallet
  OpeningBalance <- OpenAt2
  MaxAmount = 5
  MaxDeliveries = 6
  MaxFaults = 2
  MaxOutages = 1
  BatchSize = 2
  MaxReceive = 2
INVARIANT
  SqsTypeOK
  DeletedWasDecided
  InboxTellsProcessed
PROPERTY EveryMessageLeaves
