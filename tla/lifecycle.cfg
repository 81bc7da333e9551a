SPECIFICATION FairSpec
CONSTANTS
    RedisEnable = TRUE
    RPCs = {r1}
INVARIANTS
    TypeOK
    ServedToTheEnd
    ExitCodeHonest
    PortsReleased
PROPERTIES FailTogether HealthWithdrawn
CHECK_DEADLOCK FALSE
