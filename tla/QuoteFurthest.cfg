\* One domain, perfect delivery, nothing lost; a customer who may go back.
SPECIFICATION Spec
CONSTANTS
  Domain <- MCOneDomain
  Quote = {q1}
  NoState = NoState
  Timeout = 1
  MayGoBack = TRUE
  Ordered = TRUE
  MaxPublished = 4
  MaxRedeliveries = 0
  MaxRetries = 0
INVARIANTS
  ClassifiedByFurthestReached
