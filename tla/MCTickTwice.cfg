SPECIFICATION Spec
CONSTANTS
    s1 = s1
    s2 = s2
    p1 = p1
    p2 = p2
    x = x
    Assets = {p1, p2, x}
    NoSeries = NoSeries
    SeriesOf <- MCSeriesOf
    IndexOf <- MCIndexOf
    Slots = {s1, s2}
    Plans <- TwoPlans
    DayLength = 3
    Grace = 1
    Handlers = {h1, h2}
    MaxTime = 1
    MaxEdits = 0
INVARIANT
    OncePerDay
CHECK_DEADLOCK FALSE
