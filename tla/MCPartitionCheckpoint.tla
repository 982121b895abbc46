----------------------- MODULE MCPartitionCheckpoint -----------------------
(* Scenarios for PartitionCheckpoint.                                      *)
EXTENDS PartitionCheckpoint

Partition(single, shortages, failures, seals, retentions, controls, crashes) ==
    [single |-> single, shortages |-> shortages, failures |-> failures, seals |-> seals, retentions |-> retentions,
     controls |-> controls, crashes |-> crashes]

Overlap == Partition(TRUE, 0, 1, 0, 0, 0, 2)
Coalesced == Partition(FALSE, 1, 0, 1, 1, 0, 1)
Elected == Partition(FALSE, 1, 0, 0, 0, 1, 1)

Disturbed == {Overlap, Coalesced, Elected}
FailedAppend == {Partition(TRUE, 0, 1, 1, 1, 0, 1)}
=============================================================================
