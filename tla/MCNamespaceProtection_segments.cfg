CONSTANTS
    Roots = {r1, r2}
    Empty = empty
    Names = {}
    Scenarios <- LongRetention
    SegmentAfter = 1
    ReuseNames = FALSE
    EmptyElsewhere = TRUE
    MaxIndex = 3
SPECIFICATION Spec
INVARIANT ProtectedRootsCovered
CHECK_DEADLOCK FALSE
