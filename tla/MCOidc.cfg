SPECIFICATION OidcSpec
CONSTANTS
  t1 = t1
  t2 = t2
  NoThread = NoThread
  Threads <- TwoThreads
  Tokens <- SomeTokens
  Kids = {"a", "b"}
  Materials = {"m1", "m2"}
  FirstJwks <- OneKey
  Misconfigured = FALSE
  TTL = 3
  Cooldown = 2
  Timeout = 1
  MaxAge = 1
  MaxRequests = 3
  MaxRotations = 1
  MaxFaults = 1
INVARIANT OidcTypeOK
PROPERTY
  WithdrawnKeyBounded
  PublishedKeyAccepted
  EveryCallerAnswered
