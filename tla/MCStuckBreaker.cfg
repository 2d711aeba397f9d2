\* The shipped thresholds.
CONSTANTS
  Callers = {c1, c2}
  FailureThreshold = 5
  SuccessThreshold = 3
  MaxConcurrentRequests = 1
SPECIFICATION FairSpec
PROPERTY Recovers
