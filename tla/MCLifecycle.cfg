\* The life of a NodeENI: every request to EC2 may fail, its node comes and goes, its ENIs are touched by others.
CONSTANTS
  n1 = n1
  s1 = s1
  s2 = s2
  a1 = a1
  a2 = a2
  b1 = b1
  NoENI = NoENI
  NoNode = NoNode
  Nodes = {n1}
  Subnets = {s1, s2}
  ENIs = {a1, a2, b1}
  NodeOf <- TwoSubnetsNodeOf
  SubnetOf <- TwoSubnetsSubnetOf
  RetrySteps = 2
  MaxConcurrentENICleanup = 3
  Facade = FALSE
  Faults = {"create", "attach", "detach", "delete", "describe", "wait", "lock", "subnet"}
  Outside = {"relabel", "detach", "attach", "delete", "terminate", "survive"}
CHECK_DEADLOCK FALSE
SPECIFICATION Spec
INVARIANTS NoENILeftBehind OneENIPerSubnet
PROPERTIES SelectedNodesKeepENIs StatusKeepsAttached
