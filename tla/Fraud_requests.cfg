CONSTANTS
  t1 = t1
  t2 = t2
  c1 = c1
  c2 = c2
  Threads <- TwoThreads
  Accounts <- TwoAccounts
  MAX_TX_PER_MINUTE = 2
  WINDOW = 2
  ANOMALY_THRESHOLD = 85
  FREQUENT = 1
  RiskScores <- OnlyHigh
  Operated <- OneAccount
  MaxTime = 3
  MAX_WAIT = 1
SPECIFICATION Spec
SYMMETRY Symmetry
INVARIANTS
  TypeOK
  AdmittedAreBounded
  RecentEventsAreKept
  FreezeIsEarned
