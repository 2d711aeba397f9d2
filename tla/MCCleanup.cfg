\* Pools with two workers for four ENIs; the failures that the controller makes up for.
CONSTANTS
  nodeENI = nodeENI
  a = a
  b = b
  c = c
  d = d
  node = node
  NoENI = NoENI
  NodeENIs = {nodeENI}
  MaxConcurrentENICleanup = 3
  Workers <- MCWorkers
  ENIs <- MCENIs
  ENIsOf <- MCENIsOf
  NodeOf <- MCNodeOf
  s1 = s1
  s2 = s2
  NoNode = NoNode
\* The process stops for good when it is told to.
CHECK_DEADLOCK FALSE
SPECIFICATION MCSpec
INVARIANTS TypeOK NoWorkerLeft NoLeak
PROPERTIES ImplementsContract PoolReturns GranularCompletes
