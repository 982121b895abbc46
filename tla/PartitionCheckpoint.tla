------------------------ MODULE PartitionCheckpoint ------------------------
(***************************************************************************)
(* How KafkaCluster makes a produce durable: the record batch is appended  *)
(* to the partition log, the high watermark advances in memory, and a      *)
(* checkpoint file records that watermark before the producer is answered. *)
(* On restart the log is cut back to the checkpoint.                       *)
(*                                                                         *)
(* Several producers coalesce their checkpoint writes.  A single-replica   *)
(* partition overlaps the checkpoint with the append (K-overlap) and so    *)
(* writes a watermark it only predicts, with a floor that tells recovery   *)
(* how much of it was durable; a replicated one writes it afterwards (K2). *)
(* Retention and leader elections write the same file.                     *)
(*                                                                         *)
(* The model follows the leader replica: one log, one checkpoint file.  A  *)
(* record is its offset; a batch is appended atomically and is durable     *)
(* when append() returns.  Below minimum_isr the watermark stays behind    *)
(* the log, and the next leader may lack what is above it.  That two       *)
(* replicas have checkpoint files that differ is KafkaControl's matter.    *)
(***************************************************************************)
EXTENDS Naturals, FiniteSets, FiniteSetsExt

CONSTANTS
    Producers,      \* concurrent produce() calls
    MaxOffset,      \* bound on the offsets assigned
    MaxSpan,        \* largest record batch
    Scenarios       \* kinds of partition, and how often each disturbance may happen

Scenario == [single : BOOLEAN, shortages : Nat, failures : Nat, seals : Nat, retentions : Nat, controls : Nat,
             crashes : Nat]

ASSUME CheckpointAssumption ==
    /\ MaxOffset \in Nat /\ MaxSpan \in Nat
    /\ Scenarios \subseteq Scenario
    /\ "nobody" \notin Producers

VARIABLES
    records,        \* disk: offsets in the log
    bases,          \* disk: first offsets of its batches
    sealed,         \* disk: end offsets of the sealed segments
    ckpt,           \* disk: recovery.ckpt
    up,             \* "open", "crashed", or "refused": open() returned an error
    watermark,      \* OrderedLog.high_watermark
    logStart,       \* OrderedLog.log_start_offset
    nextOffset,     \* OrderedLog.next_offset
    persisted,      \* checkpoint_persisted
    requested,      \* checkpoint_requested
    replication,    \* holder of the replication mutex
    checkpointLock, \* holder of checkpoint_lock
    prod,           \* produce(): [pc, base, end, target, start, hw]
    task,           \* the producer's overlapped checkpoint task
    control,        \* an elect_leader / reassign_partition call: [pc, hw, start]
    answered,       \* history: the offsets acknowledged as committed
    reclaimed,      \* history: end of the offsets reclaimed
    overwritten,    \* history: a rewrite put the checkpoint below checkpoint_persisted
    scenario        \* kind of partition, and how often each disturbance may still happen

disk == <<records, bases, sealed, ckpt>>
mem == <<watermark, logStart, nextOffset, persisted, requested>>
locks == <<replication, checkpointLock>>
procs == <<prod, task, control>>
history == <<answered, reclaimed, overwritten, scenario>>
others == <<answered, reclaimed, overwritten>>
checkpointVars == <<disk, up, mem, locks, procs, history>>

SingleReplica == scenario.single

Nobody == "nobody"
Offsets == 0 .. MaxOffset
Assigned == {o \in Nat : o < MaxOffset}      \* the offsets of records
CheckpointFile == [hw : Offsets, start : Offsets, floor : Offsets]

NoProduce == [pc |-> "idle", base |-> 0, end |-> 0, target |-> 0, start |-> 0, hw |-> 0]
NoTask == [pc |-> "none", base |-> 0, end |-> 0, start |-> 0]
NoControl == [pc |-> "idle", hw |-> 0, start |-> 0]

ProduceCall == [pc : {"idle", "append", "checkpoint", "write", "retention", "retain", "reclaim", "answer"},
                base : Offsets, end : Offsets, target : Offsets, start : Offsets, hw : Offsets]

CheckpointTypeOK ==
    /\ records \subseteq Assigned /\ bases \subseteq records /\ sealed \subseteq Offsets
    /\ ckpt \in CheckpointFile
    /\ up \in {"open", "crashed", "refused"}
    /\ watermark \in Offsets /\ logStart \in Offsets /\ nextOffset \in Offsets
    /\ persisted \in Offsets /\ requested \in Offsets
    /\ replication \in Producers \cup {Nobody}
    /\ checkpointLock \in Producers \cup {Nobody}
    /\ prod \in [Producers -> ProduceCall]
    /\ task \in [Producers -> [pc : {"none", "spawned", "write", "done"},
                               base : Offsets, end : Offsets, start : Offsets]]
    /\ control \in [pc : {"idle", "elected", "write"}, hw : Offsets, start : Offsets]
    /\ answered \subseteq Assigned /\ reclaimed \in Offsets /\ overwritten \in BOOLEAN
    /\ scenario \in Scenario

\* A new partition: no checkpoint file reads as zeros.
CheckpointInit ==
    /\ scenario \in Scenarios
    /\ records = {} /\ bases = {} /\ sealed = {} /\ ckpt = [hw |-> 0, start |-> 0, floor |-> 0]
    /\ up = "open" /\ watermark = 0 /\ logStart = 0 /\ nextOffset = 0
    /\ persisted = 0 /\ requested = 0
    /\ replication = Nobody /\ checkpointLock = Nobody
    /\ prod = [p \in Producers |-> NoProduce] /\ task = [p \in Producers |-> NoTask]
    /\ control = NoControl
    /\ answered = {} /\ reclaimed = 0 /\ overwritten = FALSE

\* The end of the newest sealed segment.
SealedEnd == Max(sealed \cup {0})

\* One of the disturbances the scenario allows.
Use(what) == scenario[what] > 0 /\ scenario' = [scenario EXCEPT ![what] = @ - 1]

-----------------------------------------------------------------------------
(* produce() *)

\* The overlapped checkpoint task a single-replica produce spawns: it raises
\* checkpoint_requested to the end it predicts.
Spawn(p, end) ==
    IF SingleReplica
    THEN /\ requested' = Max({requested, end})
         /\ task' = [task EXCEPT ![p] =
              [pc |-> "spawned", base |-> nextOffset, end |-> end, start |-> logStart]]
    ELSE UNCHANGED <<requested, task>>

\* Take the replication lock, read the log end, spawn the checkpoint task.
ProduceBegin(p) ==
    /\ up = "open" /\ prod[p].pc = "idle" /\ task[p].pc = "none" /\ replication = Nobody
    /\ \E span \in 1 .. MaxSpan :
        /\ nextOffset + span <= MaxOffset
        /\ Spawn(p, nextOffset + span)
        /\ prod' = [prod EXCEPT ![p] =
              [pc |-> "append", base |-> nextOffset, end |-> nextOffset + span, target |-> 0, start |-> 0, hw |-> 0]]
    /\ replication' = p
    /\ UNCHANGED <<disk, up, watermark, logStart, nextOffset, persisted, checkpointLock, control, history>>

\* A full active segment is sealed before the batch is written.
Rotates == (\E o \in records : o >= SealedEnd) /\ watermark = nextOffset /\ scenario.seals > 0

\* replication.append(): the batch is durable, and the watermark advances if
\* minimum_isr replicas have it.  checkpoint_durable() is asked for the watermark.
Appended(p, hw) ==
    /\ up = "open" /\ prod[p].pc = "append"
    /\ records' = records \cup prod[p].base .. prod[p].end - 1 /\ bases' = bases \cup {prod[p].base}
    /\ nextOffset' = prod[p].end /\ watermark' = hw
    /\ prod' = [prod EXCEPT ![p].pc = "checkpoint", ![p].target = hw]
    /\ replication' = Nobody
    /\ UNCHANGED <<ckpt, up, logStart, persisted, requested, checkpointLock, task, control, others>>

AppendBatch(p) ==
    /\ Appended(p, prod[p].end)
    /\ \/ UNCHANGED <<sealed, scenario>>
       \/ Rotates /\ sealed' = sealed \cup {nextOffset} /\ Use("seals")

\* Fewer than minimum_isr replicas have the batch.
AppendShort(p) ==
    /\ ~SingleReplica /\ scenario.shortages > 0
    /\ Appended(p, watermark)
    /\ \/ UNCHANGED sealed /\ Use("shortages")
       \/ /\ Rotates /\ sealed' = sealed \cup {nextOffset}
          /\ scenario' = [scenario EXCEPT !.shortages = @ - 1, !.seals = @ - 1]

\* append() fails, perhaps after the rotation: produce() returns the error,
\* the task keeps running.
AppendFails(p) ==
    /\ up = "open" /\ prod[p].pc = "append" /\ scenario.failures > 0
    /\ \/ UNCHANGED sealed /\ Use("failures")
       \/ /\ Rotates /\ sealed' = sealed \cup {nextOffset}
          /\ scenario' = [scenario EXCEPT !.failures = @ - 1, !.seals = @ - 1]
    /\ prod' = [prod EXCEPT ![p] = NoProduce]
    /\ replication' = Nobody
    /\ UNCHANGED <<records, bases, ckpt, up, mem, checkpointLock, task, control, others>>

-----------------------------------------------------------------------------
(* The overlapped checkpoint task *)

TaskLock(p) ==
    /\ up = "open" /\ task[p].pc = "spawned" /\ checkpointLock = Nobody
    /\ IF persisted >= task[p].end
       THEN /\ task' = [task EXCEPT ![p].pc = "done"]
            /\ UNCHANGED checkpointLock
       ELSE /\ task' = [task EXCEPT ![p].pc = "write"]
            /\ checkpointLock' = p
    /\ UNCHANGED <<disk, up, mem, replication, prod, control, history>>

\* The log was durable up to the batch's base when the task was spawned.
SafeFloor(p) == task[p].base

TaskWrite(p) ==
    LET target == Max({requested, task[p].end})
    IN  /\ up = "open" /\ task[p].pc = "write"
        /\ ckpt' = [hw |-> target, start |-> task[p].start, floor |-> SafeFloor(p)]
        /\ persisted' = Max({persisted, target})
        /\ checkpointLock' = Nobody
        /\ task' = [task EXCEPT ![p].pc = "done"]
        /\ UNCHANGED <<records, bases, sealed, up, watermark, logStart, nextOffset, requested, replication, prod, control, history>>

\* A task nobody awaits (its append failed) just ends.
TaskEnds(p) ==
    /\ task[p].pc = "done" /\ prod[p].pc = "idle"
    /\ task' = [task EXCEPT ![p] = NoTask]
    /\ UNCHANGED <<disk, up, mem, locks, prod, control, history>>

-----------------------------------------------------------------------------
(* The producer's own checkpoint, then retention, then the answer *)

OverlapDone(p) ==
    /\ up = "open" /\ SingleReplica /\ prod[p].pc = "checkpoint" /\ task[p].pc = "done"
    /\ task' = [task EXCEPT ![p] = NoTask]
    /\ prod' = [prod EXCEPT ![p].pc = "retention"]
    /\ UNCHANGED <<disk, up, mem, locks, control, history>>

BaseCovered(p) == persisted >= prod[p].base     \* compares the wrong end

\* checkpoint_durable(): covered by another producer's write already.
CheckpointCovered(p) == persisted >= prod[p].target

CheckpointSkip(p) ==
    /\ up = "open" /\ ~SingleReplica /\ prod[p].pc = "checkpoint"
    /\ CheckpointCovered(p)
    /\ prod' = [prod EXCEPT ![p].pc = "retention"]
    /\ UNCHANGED <<disk, up, mem, locks, task, control, history>>

\* Lock, recheck, and read the progress that persist_partition will write.
CheckpointRead(p) ==
    /\ up = "open" /\ ~SingleReplica /\ prod[p].pc = "checkpoint"
    /\ checkpointLock = Nobody /\ ~CheckpointCovered(p)
    /\ checkpointLock' = p
    /\ prod' = [prod EXCEPT ![p].pc = "write", ![p].hw = watermark, ![p].start = logStart]
    /\ UNCHANGED <<disk, up, mem, replication, task, control, history>>

\* persist_partition's checkpoint: the watermark is its own floor.
Persisted(h, s) == [hw |-> h, start |-> s, floor |-> h]

CheckpointWrite(p) ==
    /\ up = "open" /\ prod[p].pc = "write"
    /\ ckpt' = Persisted(prod[p].hw, prod[p].start)
    /\ persisted' = prod[p].hw
    /\ checkpointLock' = Nobody
    /\ prod' = [prod EXCEPT ![p].pc = "retention"]
    /\ UNCHANGED <<records, bases, sealed, up, watermark, logStart, nextOffset, requested, replication, task, control, history>>

\* The batch was below the watermark when append() returned.
Committed(p) == prod[p].end <= prod[p].target

\* apply_retention() is done or finds nothing to reclaim: produce() answers.  To
\* acks 0 and 1 it answers success below minimum_isr, too, which promises no more
\* than the leader's log; to acks -1 it answers NotEnoughReplicasAfterAppend.
Acknowledge(p) ==
    /\ up = "open" /\ prod[p].pc \in {"retention", "answer"}
    /\ answered' = IF Committed(p) THEN answered \cup prod[p].base .. prod[p].end - 1 ELSE answered
    /\ prod' = [prod EXCEPT ![p] = NoProduce]
    /\ UNCHANGED <<disk, up, mem, locks, task, control, reclaimed, overwritten, scenario>>

\* apply_retention(): under the replication lock (not checkpoint_lock) the
\* log start moves to the end of a sealed segment, ...
RetentionAdvance(p) ==
    /\ up = "open" /\ prod[p].pc = "retention"
    /\ replication = Nobody
    /\ \E o \in {e \in sealed : e >= logStart} :
        /\ logStart' = o
        /\ prod' = [prod EXCEPT ![p].pc = "retain", ![p].hw = watermark, ![p].start = o]
    /\ replication' = p /\ Use("retentions")
    /\ UNCHANGED <<disk, up, watermark, nextOffset, persisted, requested, checkpointLock, task, control, others>>

Retained == {o \in records : o >= logStart}

\* The checkpoint file is rewritten without checkpoint_lock, and
\* checkpoint_persisted is left alone.
Rewrite(h, s) ==
    /\ ckpt' = Persisted(h, s)
    /\ overwritten' = (overwritten \/ h < persisted)

\* ... the checkpoint is rewritten, ...
RetentionPersist(p) ==
    /\ up = "open" /\ prod[p].pc = "retain"
    /\ Rewrite(prod[p].hw, prod[p].start)
    /\ prod' = [prod EXCEPT ![p].pc = "reclaim"]
    /\ UNCHANGED <<records, bases, sealed, up, mem, locks, task, control, answered, reclaimed, scenario>>

\* ... and the sealed segments below the log start are reclaimed.
RetentionReclaim(p) ==
    /\ up = "open" /\ prod[p].pc = "reclaim"
    /\ records' = Retained /\ bases' = bases \cap Retained
    /\ sealed' = {e \in sealed : e > logStart}
    /\ reclaimed' = logStart
    /\ replication' = Nobody
    /\ prod' = [prod EXCEPT ![p].pc = "answer"]
    /\ UNCHANGED <<ckpt, up, mem, checkpointLock, task, control, answered, overwritten, scenario>>

-----------------------------------------------------------------------------
(* elect_leader() and reassign_partition() end with persist_partition(), *)
(* after they released the replication lock.                             *)

\* elect() under the replication lock: the new leader has the longest log, or
\* catch_up() has given it what is below the watermark and no more.  reconfigure()
\* keeps the leader.
ElectLeader ==
    /\ up = "open" /\ control.pc = "idle" /\ replication = Nobody
    /\ \E end \in {watermark, nextOffset} :
        /\ records' = {o \in records : o < end} /\ bases' = {o \in bases : o < end}
        /\ nextOffset' = end
    /\ control' = [NoControl EXCEPT !.pc = "elected"]
    /\ Use("controls")
    /\ UNCHANGED <<sealed, ckpt, up, watermark, logStart, persisted, requested, locks, prod, task, others>>

ControlRead ==
    /\ up = "open" /\ control.pc = "elected"
    /\ control' = [pc |-> "write", hw |-> watermark, start |-> logStart]
    /\ UNCHANGED <<disk, up, mem, locks, prod, task, history>>

ControlWrite ==
    /\ up = "open" /\ control.pc = "write"
    /\ Rewrite(control.hw, control.start)
    /\ control' = NoControl
    /\ UNCHANGED <<records, bases, sealed, up, mem, locks, prod, task, answered, reclaimed, scenario>>

-----------------------------------------------------------------------------
(* Crash and recovery *)

Crash ==
    /\ up = "open"
    /\ up' = "crashed" /\ Use("crashes")
    /\ replication' = Nobody /\ checkpointLock' = Nobody
    /\ prod' = [p \in Producers |-> NoProduce] /\ task' = [p \in Producers |-> NoTask]
    /\ control' = NoControl
    /\ UNCHANGED <<disk, mem, others>>

\* OrderedLog::open: the log end; an empty log ends at the checkpoint.
LogEnd == IF records = {} THEN ckpt.hw ELSE Max(records) + 1

\* The watermark recovery accepts: the checkpoint's, or the log end when the
\* checkpoint overhangs a log that still reaches the floor.
RecoveredWatermark == IF ckpt.hw > LogEnd THEN LogEnd ELSE ckpt.hw

\* Else open() fails with InvalidRecoveryPoint, ...
RecoveryPointValid ==
    IF ckpt.hw > LogEnd THEN ckpt.floor <= LogEnd ELSE ckpt.start <= ckpt.hw

\* ... with UncommittedSealedSegment, or with InvalidTruncateOffset: the
\* watermark is no boundary of the active segment's batches.
OpenSucceeds ==
    /\ RecoveryPointValid
    /\ SealedEnd <= RecoveredWatermark
    /\ RecoveredWatermark \in bases \cup {LogEnd}

\* open_partition(): records past the watermark are truncated.
Recover ==
    /\ up = "crashed"
    /\ IF OpenSucceeds
       THEN /\ up' = "open"
            /\ watermark' = RecoveredWatermark /\ nextOffset' = RecoveredWatermark
            /\ logStart' = Min({ckpt.start, RecoveredWatermark})
            /\ records' = {o \in records : o < RecoveredWatermark}
            /\ bases' = {o \in bases : o < RecoveredWatermark}
            /\ persisted' = RecoveredWatermark /\ requested' = RecoveredWatermark
       ELSE /\ up' = "refused"
            /\ UNCHANGED <<mem, records, bases>>
    /\ UNCHANGED <<sealed, ckpt, locks, procs, history>>

CheckpointNext ==
    \/ \E p \in Producers :
        \/ ProduceBegin(p) \/ AppendBatch(p) \/ AppendShort(p) \/ AppendFails(p)
        \/ TaskLock(p) \/ TaskWrite(p) \/ TaskEnds(p)
        \/ OverlapDone(p) \/ CheckpointSkip(p) \/ CheckpointRead(p) \/ CheckpointWrite(p)
        \/ Acknowledge(p) \/ RetentionAdvance(p) \/ RetentionPersist(p) \/ RetentionReclaim(p)
    \/ ElectLeader \/ ControlRead \/ ControlWrite
    \/ Crash \/ Recover

CheckpointSpec == CheckpointInit /\ [][CheckpointNext]_checkpointVars

-----------------------------------------------------------------------------
(* Recovery never discards an acknowledged record: while the partition is   *)
(* open every offset acknowledged as committed is below the watermark, and  *)
(* in the log unless retention reclaimed it.  An answer to acks 0 or 1 that *)
(* was given below minimum_isr is not counted: the checkpoint does not      *)
(* cover its records, and recovery or an election does discard them.        *)
AcknowledgedSurvives ==
    up = "open" => \A o \in answered : o < watermark /\ (o >= reclaimed => o \in records)

(* The same, as long as no election, reassignment or retention wrote a      *)
(* watermark to the checkpoint that is older than checkpoint_persisted.     *)
AcknowledgedUnlessOverwritten == overwritten \/ AcknowledgedSurvives

(* Recovery reports log loss only when the log lost records, and the model  *)
(* loses none: the overlap window is never mistaken for it.                 *)
NoFalseLogLoss == up = "refused" => RecoveryPointValid

(* Every offset the consumers of a replicated partition are offered, from   *)
(* the log start (or where retention reclaimed to) to the high watermark,   *)
(* is in the log.                                                           *)
VisibleIsBacked ==
    up = "open" /\ ~SingleReplica => Max({logStart, reclaimed}) .. watermark - 1 \subseteq records

(* A checkpoint is worth what produce() and open_partition() rely on:       *)
(* acknowledged records survive crashes unless the file was overwritten     *)
(* with an older watermark, recovery does not take the overlap window for   *)
(* log loss, and what consumers are offered is in the log.                  *)
CheckpointSound == AcknowledgedUnlessOverwritten /\ NoFalseLogLoss /\ VisibleIsBacked
=============================================================================
