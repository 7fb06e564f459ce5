\* Two threads; the three delays add up to exactly the margin.
SPECIFICATION Spec
CONSTANTS
  Thread <- MCThread
  Lifetime = 5
  Margin = 3
  ResponseDelay = 1
  StoreDelay = 1
  UseDelay = 1
  MaxTime = 10
INVARIANTS
  TypeOK
  FreshWhenSent
  CacheNeverOutlivesToken
  RefreshEndsRequests
