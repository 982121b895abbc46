SPECIFICATION ServicesSpec
CONSTANTS
    d1 = d1
    d2 = d2
    g1 = g1
    g2 = g2
    Calls <- DispatchCalls
    ClassLimit <- Limits
    FairCycle <- Cycle
    WorkerCount = 2
    KeySlots = 2
    Remappers = {r1}
    QueueDepth = 2
    ActivePerWorker = 2
    KeyLimit = 3
    GlobalLimit = 2
    MaxRemaps = 1
    MaxFaults = 1
    Cids = {x, y}
    SegmentSlots = 2
    MaxGeneration = 4
    MaxPuts = 3
    MaxDeletes = 2
    Threads = {t1, t2}
    NormalLimit = 1
    MaxCalls = 5
    KeyCount = 2
    MaxChanges = 2
    MaxStops = 1
    Requests <- UploadRequests
    Scenarios <- UploadScenarios
    PartNumbers = {1, 2, 3}
    MaxStaged = 2
    MaxCancels = 1
    MaxCuts = 2
    s1 = s1
    s2 = s2
    adm = adm
    Lease = 2
    Wait = 1
    MaxWaiters = 1
    MaxAttempts = 2
    LeaseTime = 2
    ExceptionTime = 2
    RenewalWindow = 1
    MaxGroup = 2
    DeadMin = 1
    MaxCopies = 1
INVARIANTS
    PartsTypeOK
    JobsInOrder
    StoredBlocksKept
    ObjectsAndBucketsSound
    MultipartSafe
    SqliteSound
    RepairSound
    PacksSound
    ComputeSound
CHECK_DEADLOCK FALSE
