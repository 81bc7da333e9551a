SPECIFICATION Spec
CONSTANTS
    Text <- MCText
    ToLower <- MCToLower
    TrimSpace <- MCTrimSpace
    URLs <- MCURLs
    MalformedURLs <- MCMalformedURLs
    DomainMap <- PlainDomainMap
    RedisEnable = FALSE
    RedisHosts = {}
    MaxRequestBodySize = 2
    KeyConfigSize = 2
    Streams = {s1}
    GatewayStatuses = {200}
    ReplySizes = {1}
    MaxInbox = 2
    HeaderMaps <- AllHeaders
    ChunkSizes = {1}
    MaxBodyBytes = 1
    SideMessages = {}
INVARIANT StatusPreserved
CHECK_DEADLOCK FALSE
