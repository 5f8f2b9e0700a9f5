SPECIFICATION Spec
CONSTANTS
  w1 = w1
  w2 = w2
  t1 = t1
  t2 = t2
  NoThread = NoThread
  Workers = {}
  Threads <- OneThread
  Requests <- RefusalRequests
  Wallets <- TwoWallets
  OpeningBalance <- Open3And0
  MaxAmount = 5
  MaxDeliveries = 4
  MaxFaults = 0
INVARIANT
  TypeOK
PROPERTY ImplementsLedger
