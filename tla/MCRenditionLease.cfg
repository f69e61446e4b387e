SPECIFICATION Spec
CONSTANTS
    Workers = {w1, w2, w3}
    Tokens = {t1, t2, t3}
    NoToken = NoToken
    Lease = 2
    MaxTime = 3
    Faults = {"crash", "storage", "database", "late"}
SYMMETRY Symmetry
INVARIANTS
    TypeOK
    ReadyHasObject
    LeaseExclusive
    NoLitter
PROPERTY
    RowIsFenced
    ImplementsCell
CHECK_DEADLOCK FALSE
