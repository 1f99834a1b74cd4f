CONSTANTS
  Upstreams <- MCUpstreams
  Tools <- MCTools
  GroupNames = {"default"}
  Endpoints = {"/mcp"}
  Revisions = {1}
  SpecTools <- MCSpecTools
  DefaultGroup = "default"
  DefaultEndpoint = "/mcp"
  Configs <- MCConfigs
  Reloaders = {p1, p2}
  Broken = Broken
  MaxWrites = 3
SPECIFICATION LdrFairSpec
INVARIANTS
  NothingMissed
  SequentialReloadsConverge
PROPERTY ReloadsSettle
CHECK_DEADLOCK FALSE
