\* An add_input that raises. An expired window stops.
SPECIFICATION Spec
CONSTANTS
  web = web
  app = app
  Place <- MCPlace
  None = None
  NotANumber = NotANumber
  CancellationRate = 15
  CartAbandonmentRate = 50
  Scenario3Rate = 30
  RefundSpike = 2
  Event <- MCEvent
  WindowEnd = 2
  Mode <- MCDefaultMode
  MaxPanes = 2
PROPERTIES
  FailedInputLeavesAccumulator
CHECK_DEADLOCK FALSE
