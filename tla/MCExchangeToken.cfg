SPECIFICATION Spec
CONSTANTS
    maxEventBytes = 10
    maxEnrichmentBodyBytes = 3
    Doc <- AllDoc
    Models <- AllModels
    Byte <- AllBytes
    Calls <- AllCalls
INVARIANT
    FirstTokenIsContent
CHECK_DEADLOCK FALSE
