\* One domain set up in every way, two domains launched in every way. A process
\* that has ended stops.
SPECIFICATION Spec
CONSTANTS
  Launch <- MCLaunch
INVARIANTS
  TypeOK
  OriginalErrorSurfaces
  IncidentsAreFailures
  UpMeansComplete
CHECK_DEADLOCK FALSE
