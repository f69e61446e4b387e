SPECIFICATION Spec
CONSTANTS
    MinChunk = 2
    MaxChunk = 4
    MaxChunks = 2
    Chunk = 2
    Sizes <- MCSizes
    Routes <- MCRoutes
    Window = 4
    Retries = 2
    MaxAttempts = 3
INVARIANTS
    TypeOK
    PostIsWhole
    ReturnsLivePost
PROPERTY
    TransferEnds
    ImplementsCall
CHECK_DEADLOCK FALSE
