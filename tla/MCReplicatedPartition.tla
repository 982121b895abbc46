----------------------- MODULE MCReplicatedPartition -----------------------
(* Three nodes: a partition created on two of them that commits what its     *)
(* leader stored, and one created on all with the default minimum ISR of 2.  *)
EXTENDS ReplicatedPartition

TwoReplicas == [replicas |-> {1, 2}, leader |-> 1, minISR |-> 1]
ThreeReplicas == [replicas |-> {1, 2, 3}, leader |-> 1, minISR |-> 2]

BothPartitions == {TwoReplicas, ThreeReplicas}
DefaultPartition == {ThreeReplicas}
=============================================================================
