SPECIFICATION CheckpointSpec
CONSTANTS
    Producers = {p1, p2}
    MaxOffset = 3
    MaxSpan = 1
    Scenarios <- FailedAppend
INVARIANT AcknowledgedSurvives
\* every bounded disturbance used up and every offset assigned is an end
CHECK_DEADLOCK FALSE
