SPECIFICATION FairSpec
CONSTANTS
    r1 = r1
    r2 = r2
    NoRequest = NoRequest
    Requests <- TwoRequests
    Shapes <- AllShapes
    UpstreamCodes <- MCUpstreamCodes
    MaxInFlight = 1
    HardCap = 1
    EnrichCap = 2
    Failures = 1
    Window = 0
    RecoveryCfg = 1
    DefaultRecovery = 15
    TicksPerSecond = 1
    MaxTime = 2
INVARIANTS
    SlotAccounting
    ProbeSlotHeld
    GaugeBalanced
    CapRespected
    BreakerHearsOutcome
PROPERTIES
    FuseSpec
    EveryRequestServed
    HalfOpenResolves
