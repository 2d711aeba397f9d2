\* Overlapping passes over one NodeENI, or two NodeENIs and passes one after the other.
CONSTANTS
  n1 = n1
  n2 = n2
  NodeENIs = {n1, n2}
  Passes = {ticker, watcher}
  NoDevice = NoDevice
  ResourceName <- MCResourceName
  MaxVersion <- MCMaxVersion
  Faults = {"failed", "torn", "restarted"}
CHECK_DEADLOCK FALSE
SPECIFICATION MCSpec
INVARIANTS
  TypeOK
  MinimalAtRest
  NoPlaceholderBesideReal
PROPERTIES
  EveryPassEnds
  LiveIsPublished
  DeletedIsUnpublished
  PlainKeepsDriver
