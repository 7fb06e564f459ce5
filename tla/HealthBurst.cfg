\* A check every second tick at the latest, one failure tolerated.
SPECIFICATION Spec
CONSTANTS
  DomainList <- MCDomainList
  HasDlqTable <- MCHasDlqTable
  Window = 5
  Threshold = 2
  Period = 2
  Tolerated = 1
  MaxRows = 1
INVARIANTS
  TypeOK
  BurstIsReported
