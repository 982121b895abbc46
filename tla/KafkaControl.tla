---------------------------- MODULE KafkaControl ----------------------------
(***************************************************************************)
(* The control plane of the Kafka broker: the controller's state machine   *)
(* (controller.rs), its file controller.json, the partitions' runtime      *)
(* objects and the operations of lib.rs that change several of them in     *)
(* turn: create_topic, delete_topic, alter_topic_configs, elect_leader,    *)
(* reassign_partition, set_replica_online, open.                           *)
(*                                                                         *)
(* A topic has one partition.  A replica's log is the sequence of its      *)
(* committed records; a produce that finds too few replicas, and the       *)
(* checkpoint files, are the subject of ReplicatedPartition and            *)
(* PartitionCheckpoint.                                                    *)
(***************************************************************************)
EXTENDS Naturals, Sequences, FiniteSets, SequencesExt

CONSTANTS
    Names,              \* topic names
    Brokers,            \* the registered brokers: naturals
    Admins,             \* concurrent callers of the control operations
    ReplicationFactor, MinISR,
    Scenarios,          \* how many outages and crashes happen, and whether an election
                        \* meets a replica that is offline
    MaxRevision, MaxRecords     \* bounds

VARIABLES
    controller,     \* ControllerState in memory: revision and topics
    file,           \* controller.json
    tmp,            \* controller.tmp
    handle,         \* per admin: where the file it created now is
    parts,          \* KafkaCluster.partitions: the topic id a name leads to
    runtime,        \* PartitionRuntime objects, by topic id
    log,            \* on disk, by topic id and broker
    op,             \* per admin: the operation under way
    up,             \* "open", "crashed", or "refused": open() returned an error
    acked,          \* history: acknowledged records by topic id
    ackedRevision,  \* history: newest revision an Ok answer stands for
    undone,         \* history: the topics whose promotion a crash has undone
    scenario        \* the disturbances that may still happen

files == <<file, tmp, handle>>
cluster == <<parts, runtime, log>>
history == <<acked, ackedRevision, undone>>
vars == <<controller, files, cluster, op, up, history, scenario>>

Ids == Names \X (1 .. MaxRevision)
NoTopic == [id |-> 0]
NoRuntime == [leader |-> 0]
NoOp == [pc |-> "idle"]

\* What a file holds: one whole state, nothing, or a mixture of two.
Content(state) == <<state>>
Empty == <<>>
Garbled == <<"part", "part">>
Absent == <<"no", "such", "file">>

Exists(n) == controller.topics[n] # NoTopic
Records == 1 .. MaxRecords
Assigned(s) == UNION {{acked[i][k] : k \in DOMAIN acked[i]} : i \in s}

TypeOK ==
    /\ controller.revision \in 0 .. MaxRevision
    /\ \A n \in Names : Exists(n) =>
         /\ controller.topics[n].leader \in controller.topics[n].replicas
         /\ Cardinality(controller.topics[n].replicas) >= MinISR
         /\ controller.topics[n].assignmentEpoch <= controller.revision
    /\ handle \in [Admins -> {"none", "tmp", "file", "lost"}]
    /\ parts \in [Names -> 0 .. MaxRevision]
    /\ \A n \in Names : parts[n] # 0 => runtime[<<n, parts[n]>>] # NoRuntime
    /\ log \in [Ids -> [Brokers -> Seq(Records)]]
    /\ up \in {"open", "crashed", "refused"}
    /\ undone \subseteq Ids

\* open() on an empty directory: brokers registered, controller.json written.
Init ==
    /\ controller = [revision |-> 0, topics |-> [n \in Names |-> NoTopic]]
    /\ file = Content(controller) /\ tmp = Absent
    /\ handle = [a \in Admins |-> "none"]
    /\ parts = [n \in Names |-> 0]
    /\ runtime = [i \in Ids |-> NoRuntime]
    /\ log = [i \in Ids |-> [b \in Brokers |-> <<>>]]
    /\ op = [a \in Admins |-> NoOp]
    /\ up = "open" /\ acked = [i \in Ids |-> <<>>] /\ ackedRevision = 0 /\ undone = {}
    /\ scenario \in Scenarios

-----------------------------------------------------------------------------
(* ControllerMachine::apply: what each command leaves, if it is accepted *)

NextRevision(state) == state.revision + 1
RoomFor(state) == state.revision < MaxRevision

\* Replicas are taken from the brokers in ascending order; partition 0.
FirstBrokers == {b \in Brokers : Cardinality({c \in Brokers : c < b}) < ReplicationFactor}
LeastOf(s) == CHOOSE b \in s : \A c \in s : b <= c

Created(state, n) ==
    [revision |-> NextRevision(state),
     topics |-> [state.topics EXCEPT ![n] =
        [id |-> NextRevision(state), epoch |-> NextRevision(state), assignmentEpoch |-> NextRevision(state),
         leader |-> LeastOf(FirstBrokers), leaderEpoch |-> 1, replicas |-> FirstBrokers]]]

Deleted(state, n) == [revision |-> NextRevision(state), topics |-> [state.topics EXCEPT ![n] = NoTopic]]

Altered(state, n) == [revision |-> NextRevision(state), topics |-> [state.topics EXCEPT ![n].epoch = NextRevision(state)]]

ElectAccepted(state, n, b, expected) ==
    state.topics[n] # NoTopic /\ state.topics[n].assignmentEpoch = expected /\ b \in state.topics[n].replicas

Led(state, n, b) ==
    [revision |-> NextRevision(state),
     topics |-> [state.topics EXCEPT ![n].leader = b, ![n].leaderEpoch = @ + 1,
                    ![n].assignmentEpoch = NextRevision(state), ![n].epoch = NextRevision(state)]]

ReassignAccepted(state, n, target, expected) ==
    /\ state.topics[n] # NoTopic /\ state.topics[n].assignmentEpoch = expected
    /\ Cardinality(target) >= MinISR /\ state.topics[n].leader \in target

Moved(state, n, target) ==
    [revision |-> NextRevision(state),
     topics |-> [state.topics EXCEPT ![n].replicas = target, ![n].leaderEpoch = @ + 1,
                    ![n].assignmentEpoch = NextRevision(state), ![n].epoch = NextRevision(state)]]

-----------------------------------------------------------------------------
(* open_partition() and ReplicatedPartition *)

\* Every replica counts as online and in sync; the watermark is the leader's.
Opened(record) ==
    [leader |-> record.leader, epoch |-> record.leaderEpoch, controllerEpoch |-> record.assignmentEpoch,
     stores |-> record.replicas, assignment |-> record.replicas, online |-> record.replicas,
     descriptor |-> record]

LogOf(i, b) == log[i][b]
Leader(i) == runtime[i].leader
Watermark(i) == Len(LogOf(i, Leader(i)))

\* The replicas whose log continues where the leader's ends.
Following(i) == {b \in runtime[i].online : LogOf(i, b) = LogOf(i, Leader(i))}

\* append() checks the claim of the descriptor against the partition.
Produce(n) ==
    /\ up = "open" /\ parts[n] # 0
    /\ LET i == <<n, parts[n]>>
           r == Cardinality(Assigned(Ids)) + 1
           d == runtime[i].descriptor
       IN /\ r \in Records
          /\ d.leader = Leader(i) /\ d.leaderEpoch = runtime[i].epoch /\ Leader(i) \in runtime[i].online
          /\ Cardinality(Following(i)) >= MinISR
          /\ log' = [log EXCEPT ![i] = [b \in Brokers |-> IF b \in Following(i) THEN Append(@[b], r) ELSE @[b]]]
          /\ acked' = [acked EXCEPT ![i] = Append(@, r)]
    /\ UNCHANGED <<controller, files, parts, runtime, op, up, ackedRevision, undone, scenario>>

\* The longest log of the voters up to the watermark, unless the candidate is
\* past it already.
Longest(i, voters) == CHOOSE b \in voters : \A c \in voters : Len(LogOf(i, c)) <= Len(LogOf(i, b))
AsItIs(i, voters, b) == LogOf(i, b)             \* nothing is copied

CaughtUp(i, voters, b) ==
    IF Len(LogOf(i, b)) >= Watermark(i) THEN LogOf(i, b)
    ELSE LogOf(i, b) \o SubSeq(LogOf(i, Longest(i, voters)), Len(LogOf(i, b)) + 1, Watermark(i))

\* Every replica of the descriptor is a voter and must be online.
MayElect(i, record, b) ==
    /\ record.leaderEpoch > runtime[i].epoch /\ record.assignmentEpoch >= runtime[i].controllerEpoch
    /\ record.replicas \subseteq runtime[i].assignment \cap runtime[i].online
    /\ Len(LogOf(i, b)) <= Watermark(i)

MayReconfigure(i, record) ==
    /\ Cardinality(record.replicas) >= MinISR /\ Leader(i) \in record.replicas
    /\ record.replicas \subseteq runtime[i].stores
    /\ record.leaderEpoch > runtime[i].epoch /\ record.assignmentEpoch > runtime[i].controllerEpoch
    /\ \A b \in record.replicas \ runtime[i].assignment : Len(LogOf(i, b)) <= Watermark(i)

\* set_replica_online(): online again means caught up from the leader.
SetOffline(n, b) ==
    /\ up = "open" /\ parts[n] # 0 /\ scenario.outages > 0
    /\ b \in runtime[<<n, parts[n]>>].assignment \cap runtime[<<n, parts[n]>>].online
    /\ scenario.electOffline \/ \A a \in Admins : op[a].pc \notin {"elect", "promote"}
    /\ scenario' = [scenario EXCEPT !.outages = @ - 1]
    /\ runtime' = [runtime EXCEPT ![<<n, parts[n]>>].online = @ \ {b}]
    /\ UNCHANGED <<controller, files, parts, log, op, up, history>>

SetOnline(n, b) ==
    /\ up = "open" /\ parts[n] # 0
    /\ LET i == <<n, parts[n]>>
       IN /\ b \in runtime[i].assignment \ runtime[i].online
          /\ runtime' = [runtime EXCEPT ![i].online = @ \cup {b}]
          /\ log' = [log EXCEPT ![i][b] = CaughtUp(i, {Leader(i)}, b)]
    /\ UNCHANGED <<controller, files, parts, op, up, history, scenario>>

-----------------------------------------------------------------------------
(* Control operations: each await between two of their effects is a step *)

Idle(a) == up = "open" /\ op[a] = NoOp
At(a, pc) == up = "open" /\ op[a].pc = pc
Goes(a, next) == op' = [op EXCEPT ![a] = next]
Fails(a) == Goes(a, NoOp)               \* an error is answered; what was done stays
Apply(state) == controller' = state
ToPersist(revision) == [pc |-> "encode", revision |-> revision]

\* create_topic(): apply, then open the partition, then persist.
BeginCreate(a, n) ==
    /\ Idle(a) /\ ~Exists(n) /\ RoomFor(controller)
    /\ Apply(Created(controller, n))
    /\ Goes(a, [pc |-> "open", name |-> n, record |-> controller'.topics[n]])
    /\ UNCHANGED <<files, cluster, up, history, scenario>>

OpenCreated(a) ==
    /\ At(a, "open")
    /\ LET r == op[a].record
       IN /\ runtime' = [runtime EXCEPT ![<<op[a].name, r.id>>] = Opened(r)]
          /\ parts' = [parts EXCEPT ![op[a].name] = r.id]
          /\ Goes(a, ToPersist(r.id))
    /\ UNCHANGED <<controller, files, log, up, history, scenario>>

\* delete_topic(): the epoch is read first, the command is fenced with it.
BeginDelete(a, n) ==
    /\ Idle(a) /\ Exists(n)
    /\ Goes(a, [pc |-> "delete", name |-> n, epoch |-> controller.topics[n].epoch])
    /\ UNCHANGED <<controller, files, cluster, up, history, scenario>>

ApplyDelete(a) ==
    /\ At(a, "delete")
    /\ IF Exists(op[a].name) /\ controller.topics[op[a].name].epoch = op[a].epoch /\ RoomFor(controller)
       THEN /\ Apply(Deleted(controller, op[a].name))
            /\ Goes(a, [pc |-> "unmap", name |-> op[a].name, revision |-> controller'.revision])
       ELSE Fails(a) /\ UNCHANGED controller
    /\ UNCHANGED <<files, cluster, up, history, scenario>>

Unmap(a) ==
    /\ At(a, "unmap")
    /\ parts' = [parts EXCEPT ![op[a].name] = 0]
    /\ Goes(a, ToPersist(op[a].revision))
    /\ UNCHANGED <<controller, files, runtime, log, up, history, scenario>>

\* alter_topic_configs()
Alter(a, n) ==
    /\ Idle(a) /\ Exists(n) /\ RoomFor(controller)
    /\ Apply(Altered(controller, n)) /\ Goes(a, ToPersist(controller'.revision))
    /\ UNCHANGED <<files, cluster, up, history, scenario>>

\* elect_leader(): the runtime and its descriptor are read first.
BeginElect(a, n, b) ==
    /\ Idle(a) /\ parts[n] # 0
    /\ LET i == <<n, parts[n]>>
       IN /\ scenario.electOffline \/ runtime[i].online = runtime[i].assignment
          /\ Goes(a, [pc |-> "elect", name |-> n, id |-> i, broker |-> b,
                      expected |-> runtime[i].descriptor.assignmentEpoch])
    /\ UNCHANGED <<controller, files, cluster, up, history, scenario>>

ApplyElect(a) ==
    /\ At(a, "elect")
    /\ IF ElectAccepted(controller, op[a].name, op[a].broker, op[a].expected) /\ RoomFor(controller)
       THEN /\ Apply(Led(controller, op[a].name, op[a].broker))
            /\ Goes(a, [pc |-> "promote", id |-> op[a].id, broker |-> op[a].broker,
                        record |-> controller'.topics[op[a].name]])
       ELSE Fails(a) /\ UNCHANGED controller
    /\ UNCHANGED <<files, cluster, up, history, scenario>>

DescriptorAfter(i, record) == record

\* replication.elect() may refuse what the controller has already recorded.
Promote(a) ==
    /\ At(a, "promote")
    /\ LET i == op[a].id
           r == op[a].record
       IN IF MayElect(i, r, op[a].broker)
          THEN /\ runtime' = [runtime EXCEPT ![i].leader = op[a].broker, ![i].epoch = r.leaderEpoch,
                                             ![i].controllerEpoch = r.assignmentEpoch, ![i].descriptor = DescriptorAfter(i, r)]
               /\ log' = [log EXCEPT ![i][op[a].broker] = CaughtUp(i, r.replicas, op[a].broker)]
               /\ Goes(a, ToPersist(r.assignmentEpoch))
          ELSE Fails(a) /\ UNCHANGED <<runtime, log>>
    /\ UNCHANGED <<controller, files, parts, up, history, scenario>>

\* reassign_partition(): previewed on a copy of the state.
BeginReassign(a, n, target) ==
    /\ Idle(a) /\ parts[n] # 0 /\ RoomFor(controller)
    /\ LET i == <<n, parts[n]>>
           expected == runtime[i].descriptor.assignmentEpoch
       IN /\ ReassignAccepted(controller, n, target, expected)
          /\ Goes(a, [pc |-> "reconfigure", name |-> n, id |-> i, target |-> target, expected |-> expected,
                      record |-> Moved(controller, n, target).topics[n]])
    /\ UNCHANGED <<controller, files, cluster, up, history, scenario>>

Reconfigure(a) ==
    /\ At(a, "reconfigure")
    /\ LET i == op[a].id
           r == op[a].record
           joining == r.replicas \ runtime[i].assignment
       IN IF MayReconfigure(i, r)
          THEN /\ runtime' = [runtime EXCEPT ![i].epoch = r.leaderEpoch, ![i].controllerEpoch = r.assignmentEpoch,
                                ![i].online = (@ \cup joining) \cap r.replicas, ![i].assignment = r.replicas]
               /\ log' = [log EXCEPT ![i] = [b \in Brokers |->
                            IF b \in joining THEN CaughtUp(i, {Leader(i)}, b) ELSE @[b]]]
               /\ Goes(a, [op[a] EXCEPT !.pc = "reassign"])
          ELSE Fails(a) /\ UNCHANGED <<runtime, log>>
    /\ UNCHANGED <<controller, files, parts, up, history, scenario>>

ApplyReassign(a) ==
    /\ At(a, "reassign")
    /\ IF ReassignAccepted(controller, op[a].name, op[a].target, op[a].expected) /\ RoomFor(controller)
       THEN /\ Apply(Moved(controller, op[a].name, op[a].target))
            /\ runtime' = [runtime EXCEPT ![op[a].id].descriptor =
                            DescriptorAfter(op[a].id, controller'.topics[op[a].name])]
            /\ Goes(a, ToPersist(controller'.revision))
       ELSE Fails(a) /\ UNCHANGED <<controller, runtime>>
    /\ UNCHANGED <<files, parts, log, up, history, scenario>>

-----------------------------------------------------------------------------
(* persist_controller(): every caller writes through one controller.tmp *)

Encode(a) ==
    /\ At(a, "encode")
    /\ Goes(a, [pc |-> "create", revision |-> op[a].revision, state |-> controller])
    /\ UNCHANGED <<controller, files, cluster, up, history, scenario>>

CreateTmp(a) ==
    /\ At(a, "create")
    /\ tmp' = Empty /\ handle' = [handle EXCEPT ![a] = "tmp"]
    /\ Goes(a, [op[a] EXCEPT !.pc = "write"])
    /\ UNCHANGED <<controller, file, cluster, up, history, scenario>>

\* A write over another writer's bytes may leave the longer one's tail.
WrittenOver(content, state) == IF content \in {Empty, Content(state)} THEN {Content(state)} ELSE {Content(state), Garbled}

WriteTmp(a) ==
    /\ At(a, "write")
    /\ CASE handle[a] = "tmp" -> tmp' \in WrittenOver(tmp, op[a].state) /\ UNCHANGED file
         [] handle[a] = "file" -> file' \in WrittenOver(file, op[a].state) /\ UNCHANGED tmp
         [] handle[a] = "lost" -> UNCHANGED <<tmp, file>>
    /\ Goes(a, [op[a] EXCEPT !.pc = "rename"])
    /\ UNCHANGED <<controller, handle, cluster, up, history, scenario>>

\* Another writer may have renamed the temporary file away.
Rename(a) ==
    /\ At(a, "rename")
    /\ IF tmp = Absent
       THEN Fails(a) /\ UNCHANGED <<file, tmp, ackedRevision>> /\ handle' = [handle EXCEPT ![a] = "none"]
       ELSE /\ file' = tmp /\ tmp' = Absent
            /\ handle' = [h \in Admins |-> IF h = a THEN "none" ELSE
                            CASE handle[h] = "tmp" -> "file" [] handle[h] = "file" -> "lost" [] OTHER -> handle[h]]
            /\ ackedRevision' = IF op[a].revision > ackedRevision THEN op[a].revision ELSE ackedRevision
            /\ Goes(a, NoOp)
    /\ UNCHANGED <<controller, cluster, up, acked, undone, scenario>>

-----------------------------------------------------------------------------
(* Crash and open() *)

Readable == Len(file) = 1

\* A promotion is not in controller.json yet, and the leader the file names is
\* offline: it misses what the promoted one has acknowledged since.
PromotionUndone(n) ==
    /\ Readable /\ parts[n] # 0 /\ file[1].topics[n] # NoTopic
    /\ LET former == file[1].topics[n].leader
       IN former # Leader(<<n, parts[n]>>) /\ former \notin runtime[<<n, parts[n]>>].online

Crash ==
    /\ up = "open" /\ scenario.crashes > 0
    /\ undone' = undone \cup {<<n, parts[n]>> : n \in {m \in Names : PromotionUndone(m)}}
    /\ scenario' = [scenario EXCEPT !.crashes = @ - 1] /\ up' = "crashed"
    /\ op' = [a \in Admins |-> NoOp] /\ handle' = [a \in Admins |-> "none"]
    /\ UNCHANGED <<controller, file, tmp, cluster, acked, ackedRevision>>

Open ==
    /\ up = "crashed"
    /\ IF Readable
       THEN /\ up' = "open" /\ controller' = file[1]
            /\ parts' = [n \in Names |-> file[1].topics[n].id]
            /\ runtime' = [i \in Ids |-> IF file[1].topics[i[1]].id = i[2] THEN Opened(file[1].topics[i[1]]) ELSE NoRuntime]
       ELSE up' = "refused" /\ UNCHANGED <<controller, parts, runtime>>
    /\ UNCHANGED <<files, log, op, history, scenario>>

OpStep(a) ==
    \/ OpenCreated(a) \/ ApplyDelete(a) \/ Unmap(a) \/ ApplyElect(a) \/ Promote(a)
    \/ Reconfigure(a) \/ ApplyReassign(a)
    \/ Encode(a) \/ CreateTmp(a) \/ WriteTmp(a) \/ Rename(a)

Next ==
    \/ \E a \in Admins : OpStep(a)
    \/ \E a \in Admins, n \in Names :
        \/ BeginCreate(a, n) \/ BeginDelete(a, n) \/ Alter(a, n)
        \/ \E b \in Brokers : BeginElect(a, n, b)
        \/ \E target \in SUBSET Brokers : BeginReassign(a, n, target)
    \/ \E n \in Names : Produce(n) \/ \E b \in Brokers : SetOffline(n, b) \/ SetOnline(n, b)
    \/ Crash \/ Open

Spec == Init /\ [][Next]_vars

-----------------------------------------------------------------------------
(* A control operation that was answered Ok survives a restart:            *)
(* controller.json can be read and holds its effect or a later state.      *)
AckedControlDurable == Readable /\ file[1].revision >= ackedRevision

(* Acknowledged records stay readable in their topic, through elections,   *)
(* reassignments, outages, deletion and re-creation of the name, and       *)
(* restarts at any step of them.  One case is excepted, in which they are  *)
(* lost: elect_leader() promotes a replica before persist_controller(), so *)
(* a crash in between brings the former leader back, and if that one was   *)
(* offline it lacks what the promoted one acknowledged.                    *)
AckedRecordsServed == up = "open" => \A n \in Names : parts[n] # 0 =>
    LET i == <<n, parts[n]>> IN i \in undone \/ IsPrefix(acked[i], LogOf(i, Leader(i)))

(* No operation leaves a partition whose descriptor the controller has     *)
(* moved past: its later elections and reassignments would all be fenced.  *)
(* (Where a crash has undone a promotion an election does leave one: the   *)
(* candidate's log is longer than the former leader's, and is refused.)    *)
ControlNotWedged == up = "open" /\ (\A a \in Admins : op[a] = NoOp) => \A n \in Names :
    Exists(n) /\ <<n, parts[n]>> \notin undone =>
                 /\ parts[n] = controller.topics[n].id
                 /\ runtime[<<n, parts[n]>>].descriptor.assignmentEpoch = controller.topics[n].assignmentEpoch
                 /\ runtime[<<n, parts[n]>>].leader = controller.topics[n].leader
=============================================================================
