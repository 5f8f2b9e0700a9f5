SPECIFICATION OutboxSpec
CONSTANTS
  p1 = p1
  p2 = p2
  Events <- TwoBalances
  Publishers <- OnePublisher
  BatchLimit = 2
  MaxAttempts = 2
  MaxExpiries = 0
  MaxFaults = 0
INVARIANT EveryEventDelivered
