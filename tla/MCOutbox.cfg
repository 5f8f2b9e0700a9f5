SPECIFICATION FairOutboxSpec
CONSTANTS
  p1 = p1
  p2 = p2
  Events <- OneReversal
  Publishers <- TwoPublishers
  BatchLimit = 2
  MaxAttempts = 2
  MaxExpiries = 1
  MaxFaults = 2
INVARIANTS
  OutboxTypeOK
  NoDuplicateMessage
  PublishedWasSent
  DeliveredInOrder
PROPERTY EventuallyPublished
