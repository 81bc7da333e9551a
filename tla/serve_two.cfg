SPECIFICATION Spec
CONSTANTS
    Text <- MCText
    ToLower <- MCToLower
    TrimSpace <- MCTrimSpace
    URLs <- MCURLs
    MalformedURLs <- MCMalformedURLs
    DomainMap <- PlainDomainMap
    RedisEnable = TRUE
    MaxRequestBodySize = 2
    KeyConfigSize = 1
    Streams = {s1, s2}
    HeaderMaps <- HostsOrKeys
    RedisHosts = {}
    GatewayStatuses = {200, 500}
    ReplySizes = {1}
    ChunkSizes = {2}
    SideMessages = {"unknown"}
    MaxBodyBytes = 2
    MaxInbox = 1
SYMMETRY StreamSymmetry
INVARIANTS
    TrafficAccounted
    MetricsAgree
CHECK_DEADLOCK FALSE
