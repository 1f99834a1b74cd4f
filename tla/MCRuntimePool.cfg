CONSTANTS
  Callers = {c1, c2, c3}
  None = None
  MaxOutput = 1
  Providers = {"p1"}
  Cap <- MCCap
SPECIFICATION FairSpec
INVARIANTS
  PoolTypeOK
  ResourcesAccounted
  CredentialsCarried
PROPERTIES
  CallersFinish
CHECK_DEADLOCK TRUE
