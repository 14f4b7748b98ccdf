CONSTANTS
  t1 = t1
  t2 = t2
  k1 = k1
  a1 = a1
  a2 = a2
  Threads <- TwoThreads
  Clients <- OneKey
  MAX_REQUESTS = 2
  WINDOW = 2
  MAX_INVALID = 2
  DECAY = 2
  QUARANTINE = 1
  MaxTime = 1
  MaxQueue = 1
SPECIFICATION FairSpec
CHECK_DEADLOCK FALSE
PROPERTY ThresholdBlacklists
