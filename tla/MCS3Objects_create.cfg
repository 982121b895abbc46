SPECIFICATION Spec
CONSTANTS
    g1 = g1
    g2 = g2
    KeyCount = 2
    Gateways = {g1, g2}
    Requests <- TwoCreates
    Scenarios <- Together
    MaxChanges = 1
    MaxStops = 0
INVARIANT CreatedOnce
CHECK_DEADLOCK FALSE
