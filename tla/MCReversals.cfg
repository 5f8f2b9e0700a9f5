SPECIFICATION FairSpec
CONSTANTS
  w1 = w1
  w2 = w2
  t1 = t1
  t2 = t2
  NoThread = NoThread
  Workers = {}
  Threads <- TwoThreads
  Requests <- ReversalRequests
  Wallets <- OneWallet
  OpeningBalance <- OpenAt2
  MaxAmount = 5
  MaxDeliveries = 4
  MaxFaults = 1
INVARIANT
  DecisionInv
  WalletSnapshotCurrent
  LedgerExplainsBalance
  SettledExactlyOnce
  OneRowPerKey
  ReversedAtMostOnce
  EventsMirrorLedger
  AnswersAreCommitted
  RefusalsJustified
PROPERTY
  EveryRequestAnswered
  ImplementsLedger
