SPECIFICATION CalmSpec
CONSTANTS
    a1 = a1
    a2 = a2
    j1 = j1
    j2 = j2
    Assets = {a1, a2}
    Jobs <- TwoJobs
    AssetOf <- ApartOf
    PlatformOf <- MCPlatformOf
    Workers = {w1, w2}
    Serves <- EveryQueue
    Handlers = {h1, h2}
    MaxAttempts = 2
    MaxPolls = 1
    MaxRetries = 1
    Faults = {"worker", "api", "transport"}
    NoJob = NoJob
INVARIANTS
    OneCarrier
    SettledIsQuiet
    AttemptBudget
PROPERTIES
    Settles
    ImplementsLedger
CHECK_DEADLOCK FALSE
