SPECIFICATION Spec
CONSTANTS
    Objects = {o1, o2}
    Last = 3
    MaxRequests = 4
    Platforms = {tiktok}
    Handlers = {a, b}
SYMMETRY Symmetric
PROPERTY
    TypedHooksStay
CHECK_DEADLOCK FALSE
