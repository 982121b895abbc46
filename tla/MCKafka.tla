------------------------------ MODULE MCKafka ------------------------------
(***************************************************************************)
(* Model checking of the Kafka broker's parts, each by itself: partition   *)
(* replication, consumer groups, checkpoints, transactions, the control    *)
(* plane.  The initial states choose which of them runs.  The variables    *)
(* v1, v2, ... are the control plane's.                                    *)
(***************************************************************************)
EXTENDS MCReplicatedPartition, ConsumerGroups, MCPartitionCheckpoint, TransactionCoordinator, TLC

CONSTANTS c1, c2,
          Names, Admins, ReplicationFactor, MinISR, MaxRevision, MaxRecords,
          t1, t2

VARIABLES v1, v2, v3, v4, v5, v6, v7, v8, v9, v10, v11, v12, v13,   \* the state of the control plane
          component

\* c2 alone knows protocol 1: a group it created is closed to c1.
OfferedProtocols == (c1 :> {2}) @@ (c2 :> {1, 2})

\* An outage and a crash, two crashes without an outage.
ControlScenarios == {[outages |-> 1, crashes |-> 1, electOffline |-> FALSE],
                     [outages |-> 0, crashes |-> 2, electOffline |-> FALSE]}
Control == INSTANCE KafkaControl WITH Brokers <- Nodes, Scenarios <- ControlScenarios,
             controller <- v1, file <- v2, tmp <- v3, handle <- v4, parts <- v5, runtime <- v6,
             log <- v7, op <- v8, up <- v9, acked <- v10, ackedRevision <- v11, scenario <- v12, undone <- v13

\* One producer through two epochs and two transactions, with a crash; two producers with one
\* transaction each, interleaved in the log.
Work(e, t, r) == [epochs |-> e, txns |-> t, restarts |-> r]
Alone == (t1 :> Work(2, 2, 1)) @@ (t2 :> Work(0, 0, 0))
Interleaved == (t1 :> Work(1, 1, 0)) @@ (t2 :> Work(1, 1, 0))
TransactionWorkloads == {Alone, Interleaved}
RequestSymmetry == Permutations(Requests)

controlPlane == <<v1, v2, v3, v4, v5, v6, v7, v8, v9, v10, v11, v12, v13>>

NoControlPlane ==
    /\ v1 = 0 /\ v2 = 0 /\ v3 = 0 /\ v4 = 0 /\ v5 = 0 /\ v6 = 0
    /\ v7 = 0 /\ v8 = 0 /\ v9 = 0 /\ v10 = 0 /\ v11 = 0 /\ v12 = 0 /\ v13 = 0

KafkaInit ==
    /\ Init /\ GroupsInit /\ CheckpointInit /\ TransactionsInit
    /\ component \in {"partition", "groups", "checkpoint", "transactions", "control"}
    /\ component # "partition" => minISR = 1
    /\ component # "checkpoint" => scenario = Overlap
    /\ component # "transactions" => workload = Interleaved
    /\ IF component = "control" THEN Control!Init ELSE NoControlPlane

KafkaNext ==
    /\ component' = component
    /\ \/ /\ component = "partition" /\ Next
          /\ UNCHANGED <<groupsVars, checkpointVars, transactionsVars, controlPlane>>
       \/ /\ component = "groups" /\ GroupsNext
          /\ UNCHANGED <<vars, checkpointVars, transactionsVars, controlPlane>>
       \/ /\ component = "checkpoint" /\ CheckpointNext
          /\ UNCHANGED <<vars, groupsVars, transactionsVars, controlPlane>>
       \/ /\ component = "transactions" /\ TransactionsNext
          /\ UNCHANGED <<vars, groupsVars, checkpointVars, controlPlane>>
       \/ /\ component = "control" /\ Control!Next
          /\ UNCHANGED <<vars, groupsVars, checkpointVars, transactionsVars>>

KafkaSpec == KafkaInit /\ [][KafkaNext]_<<vars, groupsVars, checkpointVars, transactionsVars, controlPlane, component>>

(* The state of each part has its type.                                    *)
PartsTypeOK ==
    /\ CheckpointTypeOK
    /\ TransactionsTypeOK
    /\ component = "control" => Control!TypeOK

(* The control plane (see KafkaControl): answered operations are in        *)
(* controller.json; acknowledged records are served; no partition is left  *)
(* fenced for ever.                                                        *)
ControlSound ==
    component = "control" => Control!AckedControlDurable /\ Control!AckedRecordsServed /\ Control!ControlNotWedged
=============================================================================
