\* Two messages and their session's timeouts through seven kinds of domain.
SPECIFICATION MCFairDomain
CONSTANTS
  opening = opening
  closing = closing
  session = session
  sound = s1
  Message = {m1, m2}
  Synthetic = {s1, s2}
  DedupKey = {opening, closing}
  DomainSpec <- MCSpecs
  Body <- MCDomainBody
  DedupWindow = 2
  Session = {session}
  SessionEvent = {"open", "close"}
  SessionOf <- MCSessionOf
  EventOf <- MCEventOf
  DetectorState = {"open", "closed"}
  NoState = NoState
  InitialState = "closed"
  Reduce <- MCReduce
  Pending = {"open"}
  Timeout = 1
INVARIANTS
  DomainTypeOK
  ExactlyOneFate
  OnlyValidEventsPass
  OneRowPerWindow
  PoisonLeavesNoTrace
  DedupLosesNothing
  FlagsPerMemory
PROPERTIES
  AbandonedSessionIsRecorded
CHECK_DEADLOCK FALSE
