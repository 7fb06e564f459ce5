\* Both domains, perfect delivery, nothing lost.
SPECIFICATION Spec
CONSTANTS
  Domain <- MCDomain
  Quote = {q1}
  NoState = NoState
  Timeout = 1
  MayGoBack = FALSE
  Ordered = TRUE
  MaxPublished = 3
  MaxRedeliveries = 0
  MaxRetries = 0
INVARIANTS
  OneSendPerAbandonment
