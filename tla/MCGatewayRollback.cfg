SPECIFICATION Spec
CONSTANTS
    r1 = r1
    r2 = r2
    NoRequest = NoRequest
    Requests <- TwoRequests
    Shapes <- PlainShape
    UpstreamCodes <- MCUpstreamCodes
    MaxInFlight = 1
    HardCap = 1
    EnrichCap = 2
    Failures = 1
    Window = 0
    RecoveryCfg = 1
    DefaultRecovery = 15
    TicksPerSecond = 1
    MaxTime = 3
PROPERTIES
    RollbackIsNoOutcome
