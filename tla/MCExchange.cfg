SPECIFICATION Spec
CONSTANTS
    maxEventBytes = 10
    maxEnrichmentBodyBytes = 3
    Doc <- AllDoc
    Models <- AllModels
    Byte <- AllBytes
    Calls <- AllCalls
INVARIANTS
    ChunkingInvisible
    BufferBounded
    AgreesWithEventSource
    RecordedAsReported
    CallbacksOnce
    CapturedOnlyWhenAsked
CHECK_DEADLOCK FALSE
