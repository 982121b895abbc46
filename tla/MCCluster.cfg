SPECIFICATION ClusterSpec
CONSTANTS
    Roots = {r1, r2}
    Empty = empty
    MaxIndex = 3
    Lanes = {"control", "raft", "bulk", "data"}
    Handle <- EndpointOf
    Bulk = {"bulk", "data"}
    Exempt = {"raft"}
    Calls = {1, 2, 3}
    RateLimit = 2
    ReplayCapacity = 2
    Slots = 1
    Scenarios <- LinkScenarios
SYMMETRY Contents
INVARIANTS
    PartsTypeOK
    ProtectionSound
    NetworkSound
    DirectorySound
    ErasureSound
\* each part's bounds are used up in the end
CHECK_DEADLOCK FALSE
