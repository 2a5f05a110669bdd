SPECIFICATION FairSpec
CONSTANTS
    e1 = e1
    e2 = e2
    e3 = e3
    Exchanges <- ThreeExchanges
INVARIANTS
    StreamsCounted
    RecordedOnce
    CleanExitKeepsAll
    UnwoundInReverse
PROPERTY
    ProcessExits
CHECK_DEADLOCK FALSE
