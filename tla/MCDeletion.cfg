\* Deletion under every failure, a lagging cache, conflicting writes and crashes.
CONSTANTS
  n1 = n1
  s1 = s1
  s2 = s2
  a1 = a1
  a2 = a2
  b1 = b1
  NoENI = NoENI
  NoNode = NoNode
  Nodes = {n1}
  Subnets = {s1, s2}
  ENIs = {a1, b1}
  NodeOf <- OneEachNodeOf
  SubnetOf <- OneEachSubnetOf
  RetrySteps = 2
  MaxConcurrentENICleanup = 3
  Facade = FALSE
  Faults = {"detach", "delete", "describe", "wait", "lock", "stale", "api", "crash", "attachLost"}
  Outside = {"attach", "write"}
CHECK_DEADLOCK FALSE
SPECIFICATION FairSpec
INVARIANTS TypeOK NoENILeftBehind
PROPERTY DeletionCompletes
