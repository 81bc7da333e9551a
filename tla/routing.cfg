SPECIFICATION Spec
CONSTANTS
    Text <- MCText
    ToLower <- MCToLower
    TrimSpace <- MCTrimSpace
    URLs <- MCURLs
    MalformedURLs <- MCMalformedURLs
    DomainMap <- MCDomainMap
    RedisEnable = TRUE
    MaxRequestBodySize = 2
    KeyConfigSize = 2
    Streams = {s1}
    HeaderMaps <- AllHosts
    RedisHosts = {"a.test", "b.test"}
    GatewayStatuses = {200}
    ReplySizes = {1}
    ChunkSizes = {1}
    SideMessages = {}
    MaxBodyBytes = 1
    MaxInbox = 1
INVARIANTS
    RoutedByHost
    RoutedAsConfigured
CHECK_DEADLOCK FALSE
