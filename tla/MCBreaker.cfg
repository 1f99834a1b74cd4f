CONSTANTS
  Calls = {c1, c2, c3}
  MinRequests = 2
  ThresholdPct = 50
  MaxCounted = 5
SPECIFICATION BrkFairSpec
INVARIANTS
  BrkTypeOK
  CountsExact
  SingleProbe
PROPERTIES
  ImplementsContract
  HealthyUpstreamCloses
CHECK_DEADLOCK TRUE
