SPECIFICATION ApartSpec
CONSTANTS
    s1 = s1
    s2 = s2
    p1 = p1
    p2 = p2
    x = x
    Assets = {p1, p2, x}
    NoSeries = NoSeries
    SeriesOf <- MCSeriesOf
    IndexOf <- MCIndexOf
    Slots = {s1, s2}
    Plans <- TwoPlans
    DayLength = 3
    Grace = 1
    Handlers = {h1, h2}
    MaxTime = 3
    MaxEdits = 1
SYMMETRY Symmetry
INVARIANTS
    TypeOK
    OncePerDay
    SeriesInOrder
    SeriesTogether
PROPERTIES
    SlotNotWasted
    SavedSlotsStayArmed
CHECK_DEADLOCK FALSE
