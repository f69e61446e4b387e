SPECIFICATION Spec
CONSTANTS
    a1 = a1
    a2 = a2
    j1 = j1
    j2 = j2
    Assets = {a1}
    Jobs <- OneJob
    AssetOf <- MCAssetOf
    PlatformOf <- MCPlatformOf
    Workers = {w1, w2}
    Serves <- EveryQueue
    Handlers = {h1, h2}
    MaxAttempts = 2
    MaxPolls = 2
    MaxRetries = 1
    Faults = {"worker", "api", "transport"}
    NoJob = NoJob
SYMMETRY Symmetry
INVARIANTS
    TypeOK
    NoOrphan
    BacklogInert
    PollHasExternalId
    PostPerDispatch
CHECK_DEADLOCK FALSE
