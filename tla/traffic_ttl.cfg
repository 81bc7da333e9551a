SPECIFICATION Spec
CONSTANTS
    Calls = {"c1", "c2"}
    Hosts = {"a.test"}
    Host <- MCHost
    BytesIn <- MCBytesIn
    BytesOut <- MCBytesOut
    TTL = 3
    WindowLength = 1
    MaxDelay = 1
    MaxRetries = 0
    MaxTime = 4
PROPERTY TTLSetOnce
CHECK_DEADLOCK FALSE
