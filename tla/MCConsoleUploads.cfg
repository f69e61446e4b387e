SPECIFICATION Spec
CONSTANTS
    part1 = part1
    part2 = part2
    b1 = b1
    b2 = b2
    c1 = c1
    c2 = c2
    Batches = {b1, b2}
    Flows = {c1, c2}
    Episodes = {part1, part2}
    Clips = {clip}
    NumberOf <- MCNumberOf
    MaxKeys = 3
SYMMETRY Symmetry
INVARIANTS
    TypeOK
    HolesAreFailures
    TwiceOnlyUnanswered
PROPERTY
    SourceStays
CHECK_DEADLOCK FALSE
