\* One domain; late, repeated and reordered events; lost bundles.
SPECIFICATION FairSpec
CONSTANTS
  Domain <- MCOneDomain
  Quote = {q1}
  NoState = NoState
  Timeout = 1
  MayGoBack = TRUE
  Ordered = FALSE
  MaxPublished = 4
  MaxRedeliveries = 1
  MaxRetries = 1
INVARIANTS
  TypeOK
  BoundIsFinal
  FurthestSinceAbandonment
  SendsPerSilence
PROPERTIES
  EveryAbandonedQuoteIsFlagged
