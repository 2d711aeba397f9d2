\* Two cleanups of one node run at once when the first outlives its locks.
CONSTANTS
  a = a
  b = b
  c = c
  e1 = e1
  e2 = e2
  e3 = e3
  node = node
  NoOp = NoOp
  NoLock = NoLock
  Workers = {w1, w2}
  Ops <- MCOps
  Resources <- MCResources
  ResourceIDs <- MCResourceIDs
  DependsOn <- MCDependsOn
SPECIFICATION Spec
INVARIANT SerializedPerResource
