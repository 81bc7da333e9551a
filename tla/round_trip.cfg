SPECIFICATION FairSpec
CONSTANTS
    Clients = {c1}
    MaxKeys = 2
    MaxStarts = 2
    ConfigBytes = 1
INVARIANTS
    TypeOK
    TornFilesRefused
    PairsMatchUnlessTorn
    SealsWithWholeKeys
    PassedMeansRoundTrip
PROPERTY StoppedGatewayEnds
CHECK_DEADLOCK FALSE
