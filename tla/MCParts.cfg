CONSTANTS
  Callers = {c1, c2}
  FailureThreshold = 2
  SuccessThreshold = 2
  MaxConcurrentRequests = 1
  ENIs = {e1, e2}
  Addresses = {a1, a2}
  None = None
  GraphENIs = {e1}
  RawIDs = {x, y, z}
  MaxAdds = 3
  Devices = {d1, d2}
  MaxFailures = 3
  Subnets = {s1, s2}
  Base = 1
  MaxIndex = 7
  MaxMoves = 1
  Other = Other
SPECIFICATION Spec
INVARIANTS
  TypeOK
  AtMostOneMoreProbe
  SavedMeansDurable
  AlwaysOrdered
  OneScriptPerDevice
  UnbindIsAtomic
  RecordedWhereAttached
  NoMoreThanListed
PROPERTIES
  OnlyAfterPrerequisites
  EveryMappingIsFound
  Drains
  EveryBindReturns
  BreakerRecovers
  EverySubnetServed
