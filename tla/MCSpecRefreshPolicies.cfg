CONSTANTS
  Upstreams <- MCUpstreams
  Tools <- MCTools
  GroupNames = {"default"}
  Endpoints = {"/mcp"}
  Revisions = {1, 2}
  SpecTools <- MCSpecTools
  DefaultGroup = "default"
  DefaultEndpoint = "/mcp"
  Configs <- MCConfigs
  Reloaders = {p1}
  Refreshed = {"u1"}
  MaxRefreshFailures = 2
  OverlayKinds <- MCNoOverlay
SPECIFICATION Spec
INVARIANT PoliciesKept
