SPECIFICATION Spec
CONSTANTS
    r1 = r1
    r2 = r2
    r3 = r3
    NoRequest = NoRequest
    StatusCodes <- MCStatusCodes
    TicksPerSecond = 2
    Requests <- TwoRequests
    Failures = 1
    Window = 0
    RecoveryCfg = 2
    DefaultRecovery = 15
    MaxTime = 5
PROPERTY
    OnlyProbeResolves
