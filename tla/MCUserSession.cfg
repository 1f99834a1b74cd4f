CONSTANTS
  u1 = u1
  u2 = u2
  c1 = c1
  c2 = c2
  Users = {u1, u2}
  Calls = {c1, c2}
  None = None
  Upstreams <- MCUpstreams
  RedirectsTo <- MCRedirectsTo
  MaxPrompts = 2
  MaxCallbacks = 1
  MaxTokens = 2
  MaxRestarts = 1
SYMMETRY Symmetry
SPECIFICATION Spec
INVARIANTS
  SesTypeOK
  OwnTokenOnly
  NotAskedAgain
CHECK_DEADLOCK TRUE
