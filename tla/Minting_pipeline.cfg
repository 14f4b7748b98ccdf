CONSTANTS
  a1 = a1
  w1 = w1
  w2 = w2
  d1 = d1
  d2 = d2
  Actions <- OneAction
  Workers <- TwoWorkers
  Dispatchers <- TwoDispatchers
  MAX_ATTEMPTS = 2
  BatchLimit = 1
  KeyEnforcement = {TRUE, FALSE}
  CanCrash = TRUE
SPECIFICATION FairSpec
INVARIANTS
  TypeOK
  AttemptsCoverSubmissions
  ConfirmedIsMinted
  FailedIsExhausted
  IntentIsPublishable
  KeyedHashIsConfirmed
PROPERTIES
  KeepsPromise
  CommittedIsPublished
