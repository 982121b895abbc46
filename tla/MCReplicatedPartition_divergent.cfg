SPECIFICATION Spec
CONSTANTS
    Nodes = {1, 2, 3}
    Partitions <- DefaultPartition
    MaxEpoch = 3
    MaxLength = 2
INVARIANT CommittedPrefixPreserved
CHECK_DEADLOCK FALSE
