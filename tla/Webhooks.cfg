SPECIFICATION FairSpec
CONSTANTS
  Events = {x1, x2}
  Endpoints = {e1}
  MaxConsecutiveFailures = 2
  Attempts = 3
  Concurrency = 2
  MaxWebhooks = 1
  MaxFailures = 2
  MaxChanges = 2
INVARIANTS TypeOK FailingIsDeactivated AcceptedOnce RetriesEnd
PROPERTIES EveryJobSettles
CHECK_DEADLOCK FALSE
