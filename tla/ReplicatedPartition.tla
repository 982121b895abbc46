------------------------ MODULE ReplicatedPartition ------------------------
(***************************************************************************)
(* ReplicatedPartition of pepper-ordered-log: a leader appends directly to *)
(* the logs of its followers, fenced by the epoch every replica promised.  *)
(* The control state (assignment, ISR, online set, leader, epochs, high    *)
(* watermark) is one structure behind a lock; each method is one action,   *)
(* with the partial effects its early returns leave behind.                *)
(*                                                                         *)
(* A record is identified by the epoch of the leader that appended it: a   *)
(* leader appends at most one record per offset in its epoch, so the epoch *)
(* at an offset tells different records apart.  Batches hold one record.   *)
(* Segments, compaction and retention are left out.                        *)
(***************************************************************************)
EXTENDS Integers, Sequences, FiniteSets, SequencesExt, FiniteSetsExt

CONSTANTS
    Nodes,          \* NodeIds; BTreeSets iterate them in ascending order
    Partitions,     \* what ReplicatedPartition::new is called with: records
                    \* of the replicas, the leader and minimum_isr
    MaxEpoch,       \* bound on the epochs handed out by the controller
    MaxLength       \* bound on the length of a log

ASSUME PartitionAssumption ==
    /\ Nodes \subseteq Nat /\ IsFiniteSet(Nodes)
    /\ \A p \in Partitions :
        /\ p.replicas \subseteq Nodes /\ p.leader \in p.replicas
        /\ p.minISR \in 1 .. Cardinality(p.replicas)
    /\ MaxEpoch \in Nat \ {0} /\ MaxLength \in Nat

VARIABLES
    log,            \* per replica: the epochs of its records, by offset
    hw,             \* per replica: high_watermark
    promised,       \* per replica: promised_epoch
    ctl,            \* per replica: controller_epoch
    active,         \* per replica: leader_epoch, 0 for None
    replicas, assignment, isr, online,
    minISR,         \* minimum_isr, fixed when the partition is created
    leader, epoch, controllerEpoch, highWatermark,
    committed       \* history: the records committed, by offset

logs == <<log, hw, promised, ctl, active>>
members == <<replicas, assignment, isr, online, minISR>>
lead == <<leader, epoch, controllerEpoch, highWatermark>>
vars == <<logs, members, lead, committed>>

Epochs == 1 .. MaxEpoch

TypeOK ==
    /\ log \in [Nodes -> Seq(Epochs)]
    /\ hw \in [Nodes -> Nat]
    /\ \A n \in Nodes : hw[n] <= Len(log[n]) /\ Len(log[n]) <= MaxLength
    /\ promised \in [Nodes -> 0 .. MaxEpoch]
    /\ ctl \in [Nodes -> 0 .. MaxEpoch]
    /\ active \in [Nodes -> 0 .. MaxEpoch]
    /\ isr \subseteq assignment /\ online \subseteq replicas
    /\ assignment \subseteq replicas /\ replicas \subseteq Nodes
    /\ leader \in assignment /\ minISR \in Nat \ {0}
    /\ epoch \in Epochs /\ controllerEpoch \in Epochs
    /\ highWatermark \in 0 .. MaxLength
    /\ committed \in Seq(Epochs)

\* ReplicatedPartition::new over empty logs, epoch 1, controller epoch 1.
Init == \E p \in Partitions :
    /\ log = [n \in Nodes |-> <<>>]
    /\ hw = [n \in Nodes |-> 0]
    /\ promised = [n \in Nodes |-> IF n \in p.replicas THEN 1 ELSE 0]
    /\ ctl = [n \in Nodes |-> IF n \in p.replicas THEN 1 ELSE 0]
    /\ active = [n \in Nodes |-> IF n = p.leader THEN 1 ELSE 0]
    /\ replicas = p.replicas /\ assignment = p.replicas
    /\ isr = p.replicas /\ online = p.replicas /\ minISR = p.minISR
    /\ leader = p.leader /\ epoch = 1 /\ controllerEpoch = 1
    /\ highWatermark = 0 /\ committed = <<>>

-----------------------------------------------------------------------------
(* OrderedLog *)

\* promise_epoch refuses a controller or leader epoch it is already past.
MayPromise(n, ce, e) == ce >= ctl[n] /\ e > promised[n]

\* A `for node in set { promise_epoch(..)? }` loop promises the nodes before
\* the first one that refuses.
Refusing(S, ce, e) == {n \in S : ~MayPromise(n, ce, e)}
PromisedBy(S, ce, e) == {n \in S : \A b \in Refusing(S, ce, e) : n < b}

Promise(S, ce, e) ==
    /\ promised' = [n \in Nodes |-> IF n \in PromisedBy(S, ce, e) THEN e ELSE promised[n]]
    /\ ctl' = [n \in Nodes |-> IF n \in PromisedBy(S, ce, e) THEN ce ELSE ctl[n]]

\* promise_epoch clears leader_epoch; activate_leader sets it on one node.
Deactivated(S, ce, e) == [n \in Nodes |-> IF n \in PromisedBy(S, ce, e) THEN 0 ELSE active[n]]

-----------------------------------------------------------------------------
(* catch_up(source, target, through, epoch) *)

MissingFromLogStart(s, t, through) ==      \* fetched from offset 0
    SubSeq(log[s], 1, Min({through, Len(log[s])}) - Len(log[t]))

\* The records below `through` that the target does not have yet.
Missing(s, t, through) ==
    SubSeq(log[s], Len(log[t]) + 1, Min({through, Len(log[s])}))

CatchUpLog(s, t, through) ==
    IF s = t \/ Len(log[t]) > through THEN log[t]
                                      ELSE log[t] \o Missing(s, t, through)

TrustingCatchUp(s, t, through) ==           \* no MissingCommittedPrefix check
    s = t \/ (Len(log[t]) <= through /\ through \in hw[t] .. Len(CatchUpLog(s, t, through)))

CatchUpSucceeds(s, t, through) ==
    IF s = t THEN Len(log[t]) >= through
    ELSE /\ Len(log[t]) <= through                            \* else DivergentReplica
         /\ through \in hw[t] .. Len(CatchUpLog(s, t, through)) \* else InvalidCommit

\* A replica whose promise is not `e` rejects replication and commit alike.
CatchUpUnfenced(s, t, e, pr) == s = t \/ pr[t] = e

-----------------------------------------------------------------------------
(* ReplicatedPartition *)

\* Followers to which append() replicates: in sync and online, with the log
\* end and the promise the record needs.
Reachable == {n \in isr \ {leader} : n \in online}
Accepting == {n \in Reachable : promised[n] = epoch /\ Len(log[n]) = Len(log[leader])}

CommitEligible(durable) == Cardinality(durable) >= minISR

\* append(): the leader's log first, then each follower; a follower whose
\* store fails is simply not durable.  The record is committed on the durable
\* replicas once there are minimum_isr of them.
AppendRecord ==
    /\ leader \in online
    /\ active[leader] = epoch /\ promised[leader] = epoch
    /\ Len(log[leader]) < MaxLength
    /\ \E followers \in SUBSET Accepting :
        LET durable == followers \cup {leader}
            end == Len(log[leader]) + 1
            commit == CommitEligible(durable)
        IN  /\ log' = [n \in Nodes |-> IF n \in durable THEN Append(log[n], epoch) ELSE log[n]]
            /\ hw' = [n \in Nodes |-> IF commit /\ n \in durable THEN end ELSE hw[n]]
            /\ highWatermark' = IF commit THEN end ELSE highWatermark
            /\ committed' = IF commit
                            THEN committed \o SubSeq(log'[leader], Len(committed) + 1, end)
                            ELSE committed
    /\ UNCHANGED <<promised, ctl, active, members, leader, epoch, controllerEpoch>>

Quorum(S) == Cardinality(S) >= Cardinality(assignment) \div 2 + 1

\* The voter with the longest log; max_by_key returns the last of equals.
LongestLog(n, S) ==
    \A m \in S :
        Len(log[m]) < Len(log[n]) \/ (Len(log[m]) = Len(log[n]) /\ m <= n)

\* activate_leader runs only after the catch-up.
EagerActivation(candidate, e, ce, voters, elected) ==
    [Deactivated(voters, ce, e) EXCEPT ![candidate] = e]

ActiveAfterElection(candidate, e, ce, voters, elected) ==
    IF elected THEN [Deactivated(voters, ce, e) EXCEPT ![candidate] = e]
               ELSE Deactivated(voters, ce, e)

\* elect(candidate, epoch, controller epoch, voters)
Elect(candidate, e, ce, voters) ==
  /\ e > epoch /\ ce >= controllerEpoch
  /\ candidate \in voters /\ voters \subseteq assignment \cap online
  /\ Quorum(voters)
  /\ \E source \in voters :
    LET promisedAll == Refusing(voters, ce, e) = {}
        elected == promisedAll /\ CatchUpSucceeds(source, candidate, highWatermark)
    IN  /\ LongestLog(source, voters)
        /\ Promise(voters, ce, e)
        /\ active' = ActiveAfterElection(candidate, e, ce, voters, elected)
        /\ log' = IF promisedAll
                  THEN [log EXCEPT ![candidate] = CatchUpLog(source, candidate, highWatermark)]
                  ELSE log
        /\ hw' = IF elected /\ source # candidate
                 THEN [hw EXCEPT ![candidate] = highWatermark] ELSE hw
        /\ IF elected
           THEN /\ leader' = candidate /\ epoch' = e /\ controllerEpoch' = ce
                /\ isr' = voters
           ELSE UNCHANGED <<leader, epoch, controllerEpoch, isr>>
        /\ UNCHANGED <<replicas, assignment, online, minISR, highWatermark, committed>>

\* set_online(node, online)
SetOnline(n) ==
    /\ n \in assignment
    /\ online' \in {online \cup {n}, online \ {n}}
    /\ UNCHANGED <<logs, replicas, assignment, isr, minISR, lead, committed>>

\* Copies the committed records to one replica from the leader.
Recovering(n, pr) ==
    CatchUpUnfenced(leader, n, epoch, pr) /\ CatchUpSucceeds(leader, n, highWatermark)

ApplyCatchUp(n, pr) ==
    /\ log' = IF CatchUpUnfenced(leader, n, epoch, pr)
              THEN [log EXCEPT ![n] = CatchUpLog(leader, n, highWatermark)] ELSE log
    /\ hw' = IF Recovering(n, pr) /\ n # leader THEN [hw EXCEPT ![n] = highWatermark] ELSE hw

\* recover_replica(node): online even when the catch-up fails.
RecoverReplica(n) ==
    /\ n \in assignment
    /\ online' = online \cup {n}
    /\ ApplyCatchUp(n, promised)
    /\ isr' = IF Recovering(n, promised) THEN isr \cup {n} ELSE isr
    /\ UNCHANGED <<promised, ctl, active, replicas, assignment, minISR, lead, committed>>

\* add_replica(node, log): promised first, member before the catch-up.
AddReplica(n) ==
    /\ n \in Nodes \ replicas
    /\ MayPromise(n, controllerEpoch, epoch)
    /\ Promise({n}, controllerEpoch, epoch)
    /\ replicas' = replicas \cup {n}
    /\ assignment' = assignment \cup {n}
    /\ online' = online \cup {n}
    /\ ApplyCatchUp(n, promised')
    /\ isr' = IF Recovering(n, promised') THEN isr \cup {n} ELSE isr
    /\ UNCHANGED <<active, minISR, lead, committed>>

RemoveAnyReplica(n) ==                      \* the leader may be removed
    /\ n \in assignment
    /\ Cardinality(isr \ {n}) >= minISR
    /\ isr' = isr \ {n}
    /\ assignment' = assignment \ {n}
    /\ online' = online \ {n}
    /\ UNCHANGED <<logs, replicas, minISR, lead, committed>>

\* remove_replica(node): its log stays in `replicas`.
RemoveReplica(n) ==
    /\ n \in assignment \ {leader}
    /\ Cardinality(isr \ {n}) >= minISR
    /\ isr' = isr \ {n}
    /\ assignment' = assignment \ {n}
    /\ online' = online \ {n}
    /\ UNCHANGED <<logs, replicas, minISR, lead, committed>>

\* reconfigure(assignment, epoch, controller epoch): joining nodes catch up in
\* ascending order under the old epoch, up to the first that fails; then every
\* member promises the new epoch, up to the first that refuses.
Reconfigure(target, e, ce) ==
    LET joining == target \ assignment
        failing == {n \in joining : ~Recovering(n, promised)}
        tried == {n \in joining : \A f \in failing : n <= f}
        caughtUp == tried \ failing
        \* the node whose catch-up failed may still have copied records
        copied == {n \in tried : CatchUpUnfenced(leader, n, epoch, promised)}
        promisedAll == Refusing(target, ce, e) = {}
        done == failing = {} /\ promisedAll
    IN  /\ Cardinality(target) >= minISR
        /\ leader \in target /\ target \subseteq replicas
        /\ e > epoch /\ ce > controllerEpoch
        /\ log' = [n \in Nodes |-> IF n \in copied
                                   THEN CatchUpLog(leader, n, highWatermark) ELSE log[n]]
        /\ hw' = [n \in Nodes |-> IF n \in caughtUp THEN highWatermark ELSE hw[n]]
        /\ IF failing = {}
           THEN /\ Promise(target, ce, e)
                /\ active' = IF promisedAll
                             THEN [Deactivated(target, ce, e) EXCEPT ![leader] = e]
                             ELSE Deactivated(target, ce, e)
           ELSE UNCHANGED <<promised, ctl, active>>
        /\ IF done
           THEN /\ assignment' = target
                /\ online' = (online \cup tried) \cap target
                /\ isr' = online'
                /\ epoch' = e /\ controllerEpoch' = ce
           ELSE /\ online' = online \cup tried
                /\ UNCHANGED <<assignment, isr, epoch, controllerEpoch>>
        /\ UNCHANGED <<replicas, minISR, leader, highWatermark, committed>>

Next ==
    \/ AppendRecord
    \/ \E n \in Nodes : SetOnline(n) \/ RecoverReplica(n) \/ AddReplica(n) \/ RemoveReplica(n)
    \/ \E n \in Nodes, e, ce \in Epochs, voters \in SUBSET Nodes : Elect(n, e, ce, voters)
    \/ \E e, ce \in Epochs, target \in SUBSET Nodes : Reconfigure(target, e, ce)

Spec == Init /\ [][Next]_vars

-----------------------------------------------------------------------------
(* The only log that accepts appends under the partition's epoch or a newer *)
(* one is the leader's, whatever elections and reassignments failed half    *)
(* way through their promises.                                              *)
NoSecondWriter == \A n \in Nodes : active[n] >= epoch => n = leader

(* elect(), reconfigure() and recover_replica() never leave the partition   *)
(* with a leader that lacks an offset below the high watermark, and no      *)
(* replica reports a watermark past the partition's.                        *)
WatermarkSound ==
    /\ Len(log[leader]) >= highWatermark
    /\ \A n \in Nodes : hw[n] <= highWatermark

(* The leader serves, below the high watermark, exactly the records that    *)
(* were committed there.                                                    *)
CommittedPrefixPreserved == IsPrefix(committed, log[leader])

(* With minimum_isr = 1, where no record stays uncommitted, what a replica   *)
(* reports as committed is what the partition committed.  With a larger      *)
(* minimum_isr a replica may keep an uncommitted record that catch_up()      *)
(* later counts as committed: CommittedPrefixPreserved fails there.          *)
ReplicasAgreeOnCommitted ==
    minISR = 1 => \A n \in Nodes : IsPrefix(SubSeq(log[n], 1, hw[n]), committed)

\* The partition, seen through its leader, is one growing committed log; with
\* a larger minimum_isr the log promises nothing (see above) and shows nothing.
Visible ==
    IF minISR = 1 THEN SubSeq(log[leader], 1, Min({highWatermark, Len(log[leader])}))
                  ELSE <<>>
Consumers == INSTANCE CommittedLog WITH prefix <- Visible

(* With minimum_isr = 1 every method of ReplicatedPartition leaves the       *)
(* leader's committed records alone or extends them.                         *)
ImplementsCommittedLog == Consumers!Spec
=============================================================================
