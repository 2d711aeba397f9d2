\* The shipped limit of one request in the half-open state.
CONSTANTS
  Callers = {c1, c2}
  FailureThreshold = 5
  SuccessThreshold = 3
  MaxConcurrentRequests = 1
SPECIFICATION Spec
INVARIANT FewProbes
