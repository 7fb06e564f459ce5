\* Every callback raises somewhere.
SPECIFICATION FairSpec
CONSTANTS
  Key = {k1, k2}
  Event <- MCEvent
  DetectorState <- MCDetectorState
  NoState = NoState
  InitialState = "closed"
  Reduce <- MCReduce
  Pending <- MCPending
  ReducerRaises <- MCReducerRaises
  ShouldFireRaises <- MCShouldFireRaises
  TimeoutFnRaises <- MCTimeoutFnRaises
  Timeout = 3
INVARIANTS
  TypeOK
  ArmedOnlyIfPending
  PendingIsArmed
  TimerMeasuresSilence
  SignalDisarms
PROPERTIES
  ImplementsContract
  ImplementsFairContract
  SilentKeyTimesOut
