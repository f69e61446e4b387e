SPECIFICATION FairSpec
CONSTANTS
    Callers = {v, w}
    Lifetime = 2
    Margin = 2
    Refreshing = 1
    Using = 1
    MaxPairs = 3
    MaxCalls = 3
    MaxTime = 3
INVARIANTS
    TypeOK
    SpentOnce
    TokenOutlivesRequest
PROPERTY
    CallsEnd
CHECK_DEADLOCK FALSE
