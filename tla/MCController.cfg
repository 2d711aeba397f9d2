\* Locks, and ENIs that follow the selector.
CONSTANTS
  a = a
  b = b
  c = c
  e1 = e1
  e2 = e2
  e3 = e3
  node = node
  NoOp = NoOp
  NoLock = NoLock
  Workers = {w1, w2}
  Ops <- MCOps
  Resources <- MCResources
  ResourceIDs <- MCResourceIDs
  DependsOn <- MCDependsOn
  n1 = n1
  n2 = n2
  s1 = s1
  s2 = s2
  a1 = a1
  a2 = a2
  b1 = b1
  b2 = b2
  NoENI = NoENI
  NoNode = NoNode
CHECK_DEADLOCK FALSE
SPECIFICATION MCSpec
INVARIANTS TypeOK NoOverlap NoLeakedLock
PROPERTIES ImplementsLeases UnselectedNodesLoseENIs SelectedNodesGetENIs
