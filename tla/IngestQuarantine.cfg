\* One message of any kind, fair processing; a drained topic stops.
SPECIFICATION FairSpec
CONSTANTS
  Message = {m1}
  Synthetic = {}
  DedupKey = {d1, d2}
  DomainSpec <- MCFullSpec
  Body <- MCBody
  DedupWindow = 2
PROPERTIES
  BadElementsAreQuarantined
CHECK_DEADLOCK FALSE
