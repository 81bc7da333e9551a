SPECIFICATION Spec
CONSTANTS
    Calls = {"c1", "c2"}
    Hosts = {"a.test"}
    Host <- MCHost
    BytesIn <- MCBytesIn
    BytesOut <- MCBytesOut
    TTL = 3
    WindowLength = 1
    MaxDelay = 1
    MaxRetries = 1
    MaxTime = 4
INVARIANTS
    TypeOK
    CountersExact
    NothingAckedIsLost
    OnlyCutPipelinesLeaveNoTTL
    AckedBucketsLive
PROPERTIES
    BucketsLiveOnce
CHECK_DEADLOCK FALSE
