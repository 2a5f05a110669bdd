SPECIFICATION FairSpec
CONSTANTS
    MaxGen = 2
    KeyOf <- MCKeyOf
    loadAtomicMaxAttempts = 2
INVARIANTS
    ServesAnIssuedPair
    UnchangedMeansCurrent
PROPERTY
    CatchesUp
CHECK_DEADLOCK FALSE
