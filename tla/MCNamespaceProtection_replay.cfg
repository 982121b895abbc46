CONSTANTS
    Roots = {r1, r2}
    Empty = empty
    Names = {}
    Scenarios <- ShortRetention
    SegmentAfter = 9
    ReuseNames = FALSE
    EmptyElsewhere = TRUE
    MaxIndex = 3
SPECIFICATION Spec
INVARIANT ReplayReproducesState
CHECK_DEADLOCK FALSE
