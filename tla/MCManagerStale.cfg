CONSTANTS
  Upstreams <- MCUpstreams
  Tools <- MCTools
  GroupNames = {"default", "admin"}
  Endpoints = {"/mcp", "/ro"}
  Revisions <- MCRevisions
  SpecTools <- MCSpecTools
  DefaultGroup = "default"
  DefaultEndpoint = "/mcp"
  Configs <- MCConfigs
  Reloaders = {p1}
SPECIFICATION MgrSpec
INVARIANT ServersMirrorRegistry
