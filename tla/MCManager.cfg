CONSTANTS
  Upstreams <- MCUpstreams
  Tools <- MCTools
  GroupNames = {"default", "admin"}
  Endpoints = {"/mcp", "/ro"}
  Revisions <- MCRevisions
  SpecTools <- MCSpecTools
  DefaultGroup = "default"
  DefaultEndpoint = "/mcp"
  Configs <- MCConfigs
  Reloaders = {p1, p2}
SPECIFICATION MgrSpec
INVARIANTS
  MgrTypeOK
  RegistryWellFormed
  GroupToolsServed
  RegistryReflectsState
  NoOrphans
PROPERTY MirrorPreserved
