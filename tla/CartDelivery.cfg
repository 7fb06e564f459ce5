\* One domain; several sessions; late, repeated and reordered events.
SPECIFICATION FairSpec
CONSTANTS
  Domain <- MCDomain
  Customer = {c1}
  NoState = NoState
  Timeout = 1
  Ordered = FALSE
  MaxItems = 2
  MaxPublished = 4
  MaxRedeliveries = 1
INVARIANTS
  TypeOK
  CountFollowsCart
  CountIsEarned
PROPERTIES
  FullCartIsFlaggedOnce
