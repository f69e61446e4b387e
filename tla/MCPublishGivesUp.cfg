SPECIFICATION FairSpec
CONSTANTS
    a1 = a1
    a2 = a2
    j1 = j1
    j2 = j2
    Assets = {a1}
    Jobs <- OneJob
    AssetOf <- MCAssetOf
    PlatformOf <- MCPlatformOf
    Workers = {w1}
    Serves <- EveryQueue
    Handlers = {h1}
    MaxAttempts = 2
    MaxPolls = 1
    MaxRetries = 0
    Faults = {"transport"}
    NoJob = NoJob
PROPERTY
    GivesUp
CHECK_DEADLOCK FALSE
