CONSTANTS
    s1 = s1
    s2 = s2
    v1 = v1
    v2 = v2
    None = None
    Upstreams <- MCUpstreams
    Services <- MCServices
    Namespaces = {"b"}
    ProxyNamespace = "a"
    Sources <- MCSources
    Contents <- MCContents
    UpstreamSpecs <- MCUpstreamSpecs
    ServiceSpecs <- MCServiceSpecs
    ProxySpecs <- MCProxySpecs
    Webhooks = TRUE
    MaxEdits = 2
    MaxFaults = 1
SPECIFICATION Spec
INVARIANTS
    OpTypeOK
    MountedMapsExist
    QuietMeansCurrent
    StatusNotAhead
PROPERTIES
    Converges
    WritesStop
