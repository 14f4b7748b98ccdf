CONSTANTS
  master = master
  worker = worker
  single = single
  t1 = t1
  t2 = t2
  Processes <- All
  Servers <- Answering
  Master <- Parent
  Threads <- TwoThreads
  Configured = {TRUE, FALSE}
  Admitted = {TRUE, FALSE}
  MaxEvents = 2
  MaxCrashes = 1
SPECIFICATION Spec
INVARIANTS
  ServesOnOneGenesis
  PersistedInOrder
PROPERTIES
  EveryProcessServes
  QueuedIsTaken
