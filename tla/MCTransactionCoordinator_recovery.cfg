SPECIFICATION TransactionsSpec
CONSTANTS
    p1 = p1
    p2 = p2
    ProducerIds = {p1, p2}
    Requests = {h1, h2}
    MaxProducerEpoch = 1
    MaxTxns = 2
    MaxLog = 2
    MaxBrokerRestarts = 1
    Workloads <- OnlyAlone
SYMMETRY RequestSymmetry
INVARIANTS CommittedNeverAborted
\* every bounded transaction, record and restart used up is an end
CHECK_DEADLOCK FALSE
