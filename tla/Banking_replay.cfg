CONSTANTS
  p1 = p1
  p2 = p2
  n1 = n1
  k1 = k1
  k2 = k2
  Appenders <- TwoThreads
  Readers <- TwoThreads
  EventTypes <- AuditEvents
  ActorForms = {"text", "value"}
  Dialects = {"sqlite"}
  MaxSequence = 2
  Nonces <- OneNonce
  Tokens <- TwoTokens
  Skew = 1
  Ttl = 1
  REQUIRE_SIGNATURE = FALSE
  Workloads <- Replay
  Sessions <- AdminAndTeller
  MaxTime = 2
SPECIFICATION BankingSpec
PROPERTY NonceSucceedsOnce
