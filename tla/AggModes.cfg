\* Four events in any bundles through eight windowings, and the four domains. An expired window stops.
SPECIFICATION FairSpec
CONSTANTS
  web = web
  app = app
  Place <- MCPlace
  None = None
  NotANumber = NotANumber
  CancellationRate = 15
  CartAbandonmentRate = 50
  Scenario3Rate = 30
  RefundSpike = 2
  Event <- MCEvent
  WindowEnd = 2
  Mode <- MCModes
  MaxPanes = 2
INVARIANTS
  TypeOK
  PanesAddUp
  JudgedOnceAsAWhole
  NothingCountedTwice
PROPERTIES
  ArrivalIsReported
CHECK_DEADLOCK FALSE
