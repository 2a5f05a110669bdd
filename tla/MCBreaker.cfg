SPECIFICATION Spec
CONSTANTS
    r1 = r1
    r2 = r2
    r3 = r3
    NoRequest = NoRequest
    Requests <- MCRequests
    StatusCodes <- MCStatusCodes
    Failures = 3
    Window = 4
    RecoveryCfg = 0
    DefaultRecovery = 3
    TicksPerSecond = 2
    MaxTime = 12
SYMMETRY RequestSymmetry
INVARIANTS
    ProbeSlotHeld
    OpenSinceLastFailure
    CountIsRun
    NoStaleFailureTime
    AdviceBounded
PROPERTY
    FuseSpec
