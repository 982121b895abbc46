SPECIFICATION KafkaSpec
CONSTANTS
    Nodes = {1, 2, 3}
    Partitions <- BothPartitions
    MaxEpoch = 2
    MaxLength = 3
    c1 = c1
    c2 = c2
    Clients = {c1, c2}
    Subscribed = {1, 2}
    Supports <- OfferedProtocols
    MaxGeneration = 3
    MaxMembers = 3
    MaxCommits = 1
    MaxRestarts = 1
    Producers = {p1, p2, p3}
    MaxOffset = 3
    MaxSpan = 2
    Scenarios <- Disturbed
    Names = {"t"}
    Admins = {a1}
    ReplicationFactor = 3
    MinISR = 2
    MaxRevision = 4
    MaxRecords = 2
    t1 = t1
    t2 = t2
    ProducerIds = {t1, t2}
    Requests = {h1, h2}
    MaxProducerEpoch = 1
    MaxTxns = 2
    MaxLog = 2
    MaxBrokerRestarts = 1
    Workloads <- TransactionWorkloads
SYMMETRY RequestSymmetry
INVARIANTS TypeOK NoSecondWriter WatermarkSound ReplicasAgreeOnCommitted
    GroupsTypeOK GroupsSound CheckpointSound
    PartsTypeOK ControlSound
    ExactlyOnceInOrder CommittedShown GroupOffsetsExact
PROPERTIES ImplementsCommittedLog FormerOwnerFenced
\* each part's bounds are used up in the end
CHECK_DEADLOCK FALSE
