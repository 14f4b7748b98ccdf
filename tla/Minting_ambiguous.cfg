CONSTANTS
  a1 = a1
  w1 = w1
  w2 = w2
  d1 = d1
  d2 = d2
  Actions <- OneAction
  Workers <- TwoWorkers
  Dispatchers <- OneDispatcher
  MAX_ATTEMPTS = 2
  BatchLimit = 1
  KeyEnforcement = {FALSE}
  CanCrash = FALSE
SPECIFICATION Spec
PROPERTY AmbiguousIsNeverResubmitted
