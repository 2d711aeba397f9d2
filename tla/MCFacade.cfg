\* The check of an attachment by the facade client detaches it.
CONSTANTS
  n1 = n1
  s1 = s1
  s2 = s2
  a1 = a1
  a2 = a2
  b1 = b1
  NoENI = NoENI
  NoNode = NoNode
  Nodes = {n1}
  Subnets = {s1}
  ENIs = {a1, a2}
  NodeOf <- OneSubnetNodeOf
  SubnetOf <- OneSubnetSubnetOf
  RetrySteps = 2
  MaxConcurrentENICleanup = 3
  Facade = TRUE
  Faults = {}
  Outside = {}
CHECK_DEADLOCK FALSE
SPECIFICATION Spec
PROPERTY SelectedNodesKeepENIs
