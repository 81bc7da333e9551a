SPECIFICATION FairSpec
CONSTANTS
    Text <- MCText
    ToLower <- MCToLower
    TrimSpace <- MCTrimSpace
    URLs <- MCURLs
    MalformedURLs <- MCMalformedURLs
    DomainMap <- PlainDomainMap
    RedisEnable = TRUE
    MaxRequestBodySize = 2
    KeyConfigSize = 2
    Streams = {s1}
    HeaderMaps <- AllHeaders
    RedisHosts = {}
    GatewayStatuses = {200, 204, 500}
    ReplySizes = {0, 1}
    ChunkSizes = {0, 1, 2}
    SideMessages = {"trailers", "responseSide", "unknown"}
    MaxBodyBytes = 4
    MaxInbox = 3
INVARIANTS
    TypeOK
    BodyBounded
    AtMostOnceDelivery
    BadForwardsFollowTheirError
    ClientAnswerSound
    UnansweredIsUntouched
PROPERTIES
    ImplementsRelaySpec
    EventuallyAnswered
    StreamReleased
CHECK_DEADLOCK FALSE
