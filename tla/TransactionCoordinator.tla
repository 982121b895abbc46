----------------------- MODULE TransactionCoordinator -----------------------
(***************************************************************************)
(* Idempotent and transactional producers of the Kafka front end: the      *)
(* coordinator's shards and their snapshot files, the produce path that    *)
(* brackets a partition append with prepare_append / complete_append, the  *)
(* end of a transaction and the consumer-group offsets it commits, expiry, *)
(* retention, and recovery from snapshots and the partition log.           *)
(*                                                                         *)
(* One partition; a record batch holds one record and an offset is its     *)
(* place in the log, from 1.  Every producer has its own transactional id  *)
(* and its own shard.  Sequence state changes in memory only; everything   *)
(* else is written to the shard's file before the call returns.            *)
(* offsets_applied is not kept: it is set exactly when pending_offsets is  *)
(* cleared.  Deadlines are abstracted: a transaction may expire any time.  *)
(***************************************************************************)
EXTENDS Integers, FiniteSets, FiniteSetsExt, Sequences

CONSTANTS
    ProducerIds,        \* transactional ids
    Requests,           \* slots for concurrent end_txn() calls
    MaxProducerEpoch,   \* bound on producer epochs (below i16::MAX)
    MaxTxns,            \* bound on the transactions of a producer
    Workloads,          \* how far each producer goes: [ProducerIds -> [epochs, txns, restarts]]
    MaxLog,             \* bound on the log's length
    MaxBrokerRestarts   \* bound on crashes

ASSUME TransactionsAssumption ==
    /\ MaxProducerEpoch \in Nat /\ MaxTxns \in Nat /\ MaxLog \in Nat /\ MaxBrokerRestarts \in Nat
    /\ Workloads \subseteq [ProducerIds -> [epochs : 0 .. MaxProducerEpoch + 1, txns : 0 .. MaxTxns,
                                            restarts : 0 .. MaxBrokerRestarts]]

VARIABLES
    shards,             \* memory: [ProducerIds -> [producer, aborted]]
    file,               \* disk: shard-N.json
    dirty,              \* shards whose memory is ahead of the file
    flushTaken,         \* shards the periodic flush_dirty() took and has not written
    batches,            \* disk: the partition's log, of batches [pid, epoch, seq, txn]
    trimmed,            \* disk: how many of them retention reclaimed
    stable,             \* disk: the checkpointed high watermark
    call,               \* the produce() that holds the replication lock
    handlers,           \* end_txn() calls that have offsets to apply
    groupOffset,        \* disk: the group coordinator's offset for each producer
    phase,              \* "serving", or "recovering" after a restart
    recovered,          \* shards recover_partition() has been through
    txns,               \* history: transactions begun
    outcome,            \* history: the coordinator's latest decision on each
    leaked,             \* history: transactions with records unaccounted for
    skipped,            \* history: shards retention took for clean during a flush
    lost,               \* history: shards a crash caught in that flush
    owed,               \* history: offsets of committed transactions not yet applied
    brokerRestarts,     \* history: crashes so far
    workload            \* which of the Workloads this is

partitionDisk == <<batches, trimmed, stable>>
brokerState == <<flushTaken, phase, recovered>>
otherHistory == <<skipped, lost, brokerRestarts, workload>>
transactionHistory == <<txns, outcome, leaked, owed, otherHistory>>
transactionsVars == <<shards, file, dirty, partitionDisk, call, handlers, groupOffset, brokerState, transactionHistory>>

None == -1
NoCall == [stage |-> "none"]
NoHandler == [step |-> "idle"]
ProducerEpochs == 0 .. MaxProducerEpoch
LogOffsets == 0 .. MaxLog

\* ProducerState and its SequenceState for the partition.  first = 0 is "no
\* transactional offset"; next_sequence is last + 1; txn is a history field,
\* offsets names the transaction that staged pending_offsets.
Fresh(epoch) ==
    [epoch |-> epoch, status |-> "Ready", last |-> None, off |-> 0, first |-> 0,
     pend |-> None, txn |-> 0, offsets |-> {}]

Transactions == 1 .. MaxTxns
ProducerState ==
    [epoch : ProducerEpochs \cup {None}, status : {"Ready", "Ongoing", "Committed", "Aborted"},
     last : LogOffsets \cup {None}, off : LogOffsets, first : LogOffsets,
     pend : LogOffsets \cup {None}, txn : 0 .. MaxTxns, offsets : SUBSET Transactions]
TransactionShard == [producer : ProducerState, aborted : SUBSET [first : 1 .. MaxLog, last : LogOffsets]]
Batch == [pid : ProducerIds, epoch : ProducerEpochs, seq : LogOffsets, txn : Transactions]
Call == [stage : {"prepared", "appended"}, pid : ProducerIds, epoch : ProducerEpochs,
         seq : LogOffsets, txn : Transactions]
Handler == [step : {"apply", "mark"}, pid : ProducerIds, epoch : ProducerEpochs,
            offsets : SUBSET Transactions]

TransactionsTypeOK ==
    /\ shards \in [ProducerIds -> TransactionShard] /\ file \in [ProducerIds -> TransactionShard]
    /\ dirty \subseteq ProducerIds /\ flushTaken \subseteq ProducerIds
    /\ batches \in Seq(Batch) /\ Len(batches) <= MaxLog
    /\ trimmed \in 0 .. Len(batches) /\ stable \in trimmed .. Len(batches)
    /\ call \in {NoCall} \cup Call
    /\ handlers \in [Requests -> {NoHandler} \cup Handler]
    /\ groupOffset \in [ProducerIds -> 0 .. MaxTxns]
    /\ phase \in {"serving", "recovering"} /\ recovered \subseteq ProducerIds
    /\ txns \in [ProducerIds -> 0 .. MaxTxns]
    /\ outcome \in [ProducerIds -> [Transactions -> {"none", "open", "committed", "aborted", "abandoned"}]]
    /\ leaked \subseteq ProducerIds \X (0 .. MaxTxns) /\ owed \subseteq ProducerIds \X Transactions
    /\ skipped \subseteq ProducerIds /\ lost \subseteq ProducerIds
    /\ brokerRestarts \in Nat /\ workload \in Workloads

TransactionsInit ==
    /\ shards = [p \in ProducerIds |-> [producer |-> Fresh(None), aborted |-> {}]]
    /\ file = shards /\ dirty = {} /\ flushTaken = {}
    /\ batches = <<>> /\ trimmed = 0 /\ stable = 0
    /\ call = NoCall /\ handlers = [h \in Requests |-> NoHandler]
    /\ groupOffset = [p \in ProducerIds |-> 0]
    /\ phase = "serving" /\ recovered = {}
    /\ txns = [p \in ProducerIds |-> 0]
    /\ outcome = [p \in ProducerIds |-> [n \in Transactions |-> "none"]]
    /\ leaked = {} /\ skipped = {} /\ lost = {} /\ owed = {} /\ brokerRestarts = 0
    /\ workload \in Workloads

-----------------------------------------------------------------------------
(* Shards *)

Producer(p) == shards[p].producer

\* producer_mut(): the producer is known and the epoch is its current one.
Known(p, epoch) == Producer(p).epoch = epoch

\* The shard of p after its producer became np, in memory only.
Remember(p, np) ==
    /\ shards' = [shards EXCEPT ![p].producer = np]
    /\ dirty' = dirty \cup {p}
    /\ UNCHANGED file

\* The shard of p after a change written by persist_shard().
Persist(p, shard) ==
    /\ shards' = [shards EXCEPT ![p] = shard]
    /\ file' = [file EXCEPT ![p] = shard]
    /\ UNCHANGED dirty

PersistProducer(p, np) == Persist(p, [shards[p] EXCEPT !.producer = np])

-----------------------------------------------------------------------------
(* Producer requests *)

\* init_producer(): a new epoch replaces everything known of the old one, an
\* open transaction and offsets not applied yet included.
InitProducer(p) ==
    LET old == Producer(p) IN
    /\ phase = "serving" /\ old.epoch + 1 < workload[p].epochs
    /\ PersistProducer(p, Fresh(old.epoch + 1))
    /\ IF old.status = "Ongoing"
       THEN /\ leaked' = leaked \cup {<<p, old.txn>>}
            /\ outcome' = [outcome EXCEPT ![p][old.txn] = "abandoned"]
       ELSE UNCHANGED <<leaked, outcome>>
    /\ owed' = {o \in owed : o[1] # p}
    /\ UNCHANGED <<partitionDisk, call, handlers, groupOffset, brokerState, txns, otherHistory>>

\* An append that ended after its transaction did leaves its offset behind, and
\* after a crash that may be beyond the log.
FirstBeyondLog(np) == np.first > Len(batches)

\* add_partitions(): begins a transaction unless one is open.
AddPartitions(p, epoch) ==
    LET old == Producer(p)
        n == IF old.status = "Ongoing" THEN old.txn ELSE txns[p] + 1
    IN
    /\ phase = "serving" /\ Known(p, epoch) /\ n <= workload[p].txns
    /\ PersistProducer(p, [old EXCEPT !.status = "Ongoing", !.txn = n])
    /\ txns' = [txns EXCEPT ![p] = n]
    /\ outcome' = [outcome EXCEPT ![p][n] = "open"]
    /\ leaked' = IF FirstBeyondLog(old) THEN leaked \cup {<<p, n>>} ELSE leaked
    /\ UNCHANGED <<partitionDisk, call, handlers, groupOffset, brokerState, owed, otherHistory>>

\* stage_offsets(): replaces what was pending.
StageOffsets(p, epoch) ==
    LET old == Producer(p) IN
    /\ phase = "serving" /\ Known(p, epoch) /\ old.status = "Ongoing"
    /\ PersistProducer(p, [old EXCEPT !.offsets = {old.txn}])
    /\ owed' = {o \in owed : o[1] # p}
    /\ UNCHANGED <<partitionDisk, call, handlers, groupOffset, brokerState, txns, outcome, leaked, otherHistory>>

-----------------------------------------------------------------------------
(* produce(): prepare, append and complete under the replication lock *)

\* A batch that is neither a duplicate of the last one nor out of order.
NextInSequence(np, seq) == seq # np.last /\ seq = np.last + 1 /\ np.pend = None

\* A batch of p is between prepare_append() and complete_append().
InFlight(p) == call # NoCall /\ call.pid = p

\* prepare_append() answers Append.
PrepareAppend(p, epoch, seq) ==
    LET np == Producer(p) IN
    /\ phase = "serving" /\ call = NoCall /\ Len(batches) < MaxLog
    /\ Known(p, epoch) /\ np.status = "Ongoing" /\ NextInSequence(np, seq)
    /\ Remember(p, [np EXCEPT !.pend = seq])
    /\ call' = [stage |-> "prepared", pid |-> p, epoch |-> epoch, seq |-> seq, txn |-> np.txn]
    /\ UNCHANGED <<partitionDisk, handlers, groupOffset, brokerState, transactionHistory>>

\* replication.append(): the batch is in the log and below the watermark.
AppendToLog ==
    /\ call # NoCall /\ call.stage = "prepared"
    /\ batches' = Append(batches, [pid |-> call.pid, epoch |-> call.epoch, seq |-> call.seq,
                           txn |-> call.txn])
    /\ call' = [call EXCEPT !.stage = "appended"]
    /\ UNCHANGED <<shards, file, dirty, trimmed, stable, handlers, groupOffset, brokerState, transactionHistory>>

\* cancel_append() withdraws the pending mark, if it is still there.
CancelAppend(p, epoch, seq) ==
    LET np == Producer(p) IN
    IF Known(p, epoch) /\ np.pend = seq
    THEN Remember(p, [np EXCEPT !.pend = None])
    ELSE UNCHANGED <<shards, file, dirty>>

\* replication.append() fails.
AppendToLogFails ==
    /\ call # NoCall /\ call.stage = "prepared"
    /\ CancelAppend(call.pid, call.epoch, call.seq)
    /\ call' = NoCall
    /\ UNCHANGED <<partitionDisk, handlers, groupOffset, brokerState, transactionHistory>>

SequencedLatest(np, seq, offset) ==        \* insert, not get_or_insert
    [np EXCEPT !.pend = None, !.last = seq, !.off = offset, !.first = offset]

\* The sequence state once the batch seq at offset is known to be in the log.
Sequenced(np, seq, offset) ==
    [np EXCEPT !.pend = None, !.last = seq, !.off = offset, !.first = IF @ = 0 THEN offset ELSE @]

\* complete_append(); a producer fenced meanwhile gets an error, and its batch
\* stays in the log.
CompleteAppend ==
    LET p == call.pid
        np == Producer(p)
    IN
    /\ call # NoCall /\ call.stage = "appended"
    /\ IF Known(p, call.epoch) /\ np.pend = call.seq
       THEN Remember(p, Sequenced(np, call.seq, Len(batches)))
       ELSE UNCHANGED <<shards, file, dirty>>
    /\ call' = NoCall
    /\ UNCHANGED <<partitionDisk, handlers, groupOffset, brokerState, transactionHistory>>

\* The producer's checkpoint, after the lock: the watermark becomes durable.
Checkpoint ==
    /\ phase = "serving" /\ stable < Len(batches)
    /\ stable' = Len(batches)
    /\ UNCHANGED <<shards, file, dirty, batches, trimmed, call, handlers, groupOffset, brokerState, transactionHistory>>

-----------------------------------------------------------------------------
(* The end of a transaction *)

EveryRange(np) == {[first |-> np.first, last |-> np.off]}   \* empty ones included

\* The ranges an abort adds for the partition.
AbortedRanges(np) == IF np.first = 0 THEN {} ELSE {[first |-> np.first, last |-> np.off]}

EndedForgetful(shard, commit) ==           \* pending offsets cleared either way
    [producer |-> [shard.producer EXCEPT !.status = IF commit THEN "Committed" ELSE "Aborted",
                                         !.first = 0, !.offsets = {}],
     aborted |-> IF commit THEN shard.aborted
                 ELSE shard.aborted \cup AbortedRanges(shard.producer)]

\* The shard after end_transaction() closed the open transaction.
Ended(shard, commit) ==
    LET np == shard.producer IN
    IF commit
    THEN [shard EXCEPT !.producer.status = "Committed", !.producer.first = 0]
    ELSE [producer |-> [np EXCEPT !.status = "Aborted", !.first = 0, !.offsets = {}],
          aborted |-> shard.aborted \cup AbortedRanges(np)]

\* An abort cannot name a record whose append is under way, nor one the log
\* scan has not been through yet.
Unaccounted(p) ==
    \/ phase = "recovering" /\ p \notin recovered
    \/ InFlight(p)

\* end_transaction() on an open transaction.
EndOpen(p, commit) ==
    LET np == Producer(p) IN
    /\ np.status = "Ongoing"
    /\ Persist(p, Ended(shards[p], commit))
    /\ outcome' = [outcome EXCEPT ![p][np.txn] = IF commit THEN "committed" ELSE "aborted"]
    /\ leaked' = IF ~commit /\ Unaccounted(p) THEN leaked \cup {<<p, np.txn>>} ELSE leaked
    /\ owed' = IF commit THEN owed \cup {<<p, n>> : n \in np.offsets}
               ELSE {o \in owed : o[1] # p}

\* end_txn() takes a slot for the offsets it has to apply, if there are any.
Handle(p, epoch, offsets) ==
    IF offsets = {} THEN UNCHANGED handlers
    ELSE \E h \in Requests :
            /\ handlers[h] = NoHandler
            /\ handlers' = [handlers EXCEPT ![h] =
                  [step |-> "apply", pid |-> p, epoch |-> epoch, offsets |-> offsets]]

\* A client commits when its batches have been answered; it may abort, or its
\* request may be repeated, at any time.
EndTxn(p, epoch, commit) ==
    /\ phase = "serving" /\ Known(p, epoch)
    /\ commit => ~InFlight(p)
    /\ \/ EndOpen(p, commit)
       \/ /\ commit /\ Producer(p).status = "Committed" /\ Producer(p).offsets # {}
          /\ UNCHANGED <<shards, file, dirty, outcome, leaked, owed>>
    /\ IF commit THEN Handle(p, epoch, Producer(p).offsets) ELSE UNCHANGED handlers
    /\ UNCHANGED <<partitionDisk, call, groupOffset, brokerState, txns, otherHistory>>

\* CommitTransactionalOffsets in the group coordinator, applied and saved.
ApplyOffsets(h) ==
    LET r == handlers[h] IN
    /\ r # NoHandler /\ r.step = "apply"
    /\ groupOffset' = [groupOffset EXCEPT ![r.pid] = Max(r.offsets)]
    /\ owed' = owed \ {<<r.pid, n>> : n \in r.offsets}
    /\ handlers' = [handlers EXCEPT ![h].step = "mark"]
    /\ UNCHANGED <<shards, file, dirty, partitionDisk, call, brokerState, txns, outcome, leaked, otherHistory>>

\* The group coordinator fails: end_txn() answers with an error.
ApplyFails(h) ==
    /\ phase = "serving" /\ handlers[h] # NoHandler /\ handlers[h].step = "apply"
    /\ handlers' = [handlers EXCEPT ![h] = NoHandler]
    /\ UNCHANGED <<shards, file, dirty, partitionDisk, call, groupOffset, brokerState, transactionHistory>>

\* mark_offsets_applied(): clears whatever is pending in a committed producer.
MarkApplied(h) ==
    LET r == handlers[h]
        np == Producer(r.pid)
    IN
    /\ r # NoHandler /\ r.step = "mark"
    /\ IF Known(r.pid, r.epoch) /\ np.status = "Committed"
       THEN /\ PersistProducer(r.pid, [np EXCEPT !.offsets = {}])
            /\ owed' = {o \in owed : o[1] # r.pid}
       ELSE UNCHANGED <<shards, file, dirty, owed>>
    /\ handlers' = [handlers EXCEPT ![h] = NoHandler]
    /\ UNCHANGED <<partitionDisk, call, groupOffset, brokerState, txns, outcome, leaked, otherHistory>>

\* expire(), from the maintenance task, which runs during recovery as well.
ExpireTransaction(p) ==
    /\ EndOpen(p, FALSE)
    /\ UNCHANGED <<partitionDisk, call, handlers, groupOffset, brokerState, txns, otherHistory>>

-----------------------------------------------------------------------------
(* Snapshots and retention *)

\* flush_dirty() of the maintenance task takes the mark, then waits for the
\* shard's lock and writes.
FlushTake(p) ==
    /\ flushTaken = {} /\ p \in dirty
    /\ dirty' = dirty \ {p} /\ flushTaken' = {p}
    /\ UNCHANGED <<shards, file, partitionDisk, call, handlers, groupOffset, phase, recovered, transactionHistory>>

FlushWrite(p) ==
    /\ p \in flushTaken
    /\ file' = [file EXCEPT ![p] = shards[p]]
    /\ flushTaken' = {} /\ skipped' = skipped \ {p}
    /\ UNCHANGED <<shards, dirty, partitionDisk, call, handlers, groupOffset, phase, recovered, txns, outcome,
                   leaked, owed, lost, brokerRestarts, workload>>

Unflushed == file                          \* retention without the barrier

\* The files after the flush_dirty() of a retention pass.
Flushed == [p \in ProducerIds |-> IF p \in dirty THEN shards[p] ELSE file[p]]

\* apply_retention() flushes, checkpoints and reclaims a prefix under the
\* replication lock.
Retain(start) ==
    /\ phase = "serving" /\ call = NoCall /\ start \in trimmed + 1 .. Len(batches)
    /\ file' = Flushed /\ dirty' = {}
    /\ skipped' = skipped \cup (flushTaken \ dirty)
    /\ trimmed' = start /\ stable' = Len(batches)
    /\ UNCHANGED <<shards, batches, call, handlers, groupOffset, brokerState, txns, outcome, leaked, owed,
                   lost, brokerRestarts, workload>>

-----------------------------------------------------------------------------
(* Restart *)

\* Snapshots that know of a batch beyond the n the log still has.
Ahead(n) == {p \in ProducerIds : file[p].producer.off > n \/ file[p].producer.first > n}

\* What the log keeps beyond the checkpointed watermark is not certain.
BrokerCrash ==
    /\ \E p \in ProducerIds : brokerRestarts < workload[p].restarts
    /\ brokerRestarts' = brokerRestarts + 1
    /\ \E n \in stable .. Len(batches) :
        /\ batches' = SubSeq(batches, 1, n) /\ stable' = n
        /\ leaked' = leaked \cup {<<p, file[p].producer.txn>> : p \in Ahead(n)}
    /\ shards' = file /\ dirty' = {} /\ flushTaken' = {}
    /\ call' = NoCall /\ handlers' = [h \in Requests |-> NoHandler]
    /\ phase' = "recovering" /\ recovered' = {}
    /\ lost' = lost \cup skipped /\ skipped' = {}
    /\ UNCHANGED <<file, trimmed, groupOffset, txns, outcome, owed, workload>>

\* The offsets of the batches that recover_transaction_state() finds in the log
\* and recover_partition() takes for p: those of its current epoch.
Scanned(p) ==
    {i \in trimmed + 1 .. Len(batches) : batches[i].pid = p /\ batches[i].epoch = Producer(p).epoch}

\* Of these, in the order of the log, the ones that neither the snapshot nor a
\* batch before them is past.
Replayed(p) ==
    {i \in Scanned(p) : /\ batches[i].seq >= Producer(p).last
                        /\ \A j \in Scanned(p) : j < i => batches[j].seq <= batches[i].seq}

\* What the replay makes of a snapshot, without the pending mark it may have
\* caught.  The first batch replayed opens the transaction, the last one is the
\* last known.
Recovered(np, replayed) ==
    IF replayed = {} THEN [np EXCEPT !.pend = None]
    ELSE [np EXCEPT !.pend = None, !.last = batches[Max(replayed)].seq, !.off = Max(replayed),
                    !.first = IF np.status = "Ongoing" /\ @ = 0 THEN Min(replayed) ELSE @]

\* recover_partition() for the shard of p.
RecoverShard(p) ==
    /\ phase = "recovering" /\ p \notin recovered
    /\ PersistProducer(p, Recovered(Producer(p), Replayed(p)))
    /\ recovered' = recovered \cup {p}
    /\ UNCHANGED <<partitionDisk, call, handlers, groupOffset, flushTaken, phase, transactionHistory>>

\* recover_transactional_offsets() applies what a committed producer still owes.
RecoverOffsets(p) ==
    LET np == Producer(p) IN
    /\ phase = "recovering" /\ recovered = ProducerIds
    /\ \A h \in Requests : handlers[h] = NoHandler
    /\ np.status = "Committed" /\ np.offsets # {}
    /\ Handle(p, np.epoch, np.offsets)
    /\ UNCHANGED <<shards, file, dirty, partitionDisk, call, groupOffset, brokerState, transactionHistory>>

\* open() returns.
Serve ==
    /\ phase = "recovering" /\ recovered = ProducerIds
    /\ \A h \in Requests : handlers[h] = NoHandler
    /\ \A p \in ProducerIds : Producer(p).status = "Committed" => Producer(p).offsets = {}
    /\ phase' = "serving"
    /\ UNCHANGED <<shards, file, dirty, partitionDisk, call, handlers, groupOffset, flushTaken, recovered, transactionHistory>>

-----------------------------------------------------------------------------
TransactionsNext ==
    \/ \E p \in ProducerIds : InitProducer(p) \/ ExpireTransaction(p) \/ FlushTake(p) \/ FlushWrite(p)
    \/ \E p \in ProducerIds, e \in ProducerEpochs : AddPartitions(p, e) \/ StageOffsets(p, e)
    \/ \E p \in ProducerIds, e \in ProducerEpochs, s \in 0 .. MaxLog : PrepareAppend(p, e, s)
    \/ \E p \in ProducerIds, e \in ProducerEpochs, c \in BOOLEAN : EndTxn(p, e, c)
    \/ AppendToLog \/ AppendToLogFails \/ CompleteAppend \/ Checkpoint
    \/ \E h \in Requests : ApplyOffsets(h) \/ ApplyFails(h) \/ MarkApplied(h)
    \/ \E n \in 1 .. MaxLog : Retain(n)
    \/ BrokerCrash \/ Serve
    \/ \E p \in ProducerIds : RecoverShard(p) \/ RecoverOffsets(p)

TransactionsSpec == TransactionsInit /\ [][TransactionsNext]_transactionsVars

-----------------------------------------------------------------------------
(* What a read-committed fetch returns *)

\* last_stable_offset(): the first record of an open transaction, or the end.
LastStableOffset ==
    Min({Producer(p).first : p \in {q \in ProducerIds : Producer(q).status = "Ongoing"
                                                    /\ Producer(q).first # 0}}
        \cup {Len(batches) + 1})

\* aborted_ranges() lists the record for its producer.
Aborted(i) == \E r \in shards[batches[i].pid].aborted : r.first <= i /\ i <= r.last

\* A consumer gets the record and takes it for committed.
Fetched(i) == trimmed < i /\ i < LastStableOffset /\ ~Aborted(i)

-----------------------------------------------------------------------------
(* Properties *)

Decision(i) == outcome[batches[i].pid][batches[i].txn]

\* A batch enters the log at most once and in order: a producer's batches have
\* increasing epochs, and increasing sequences within an epoch, whatever is
\* retried, fenced, lost in a crash or reclaimed.  The exception is a crash
\* after retention reclaimed batches of a producer whose snapshot it believed
\* written, while the periodic flush_dirty() had only taken its mark.
ExactlyOnceInOrder ==
    \A i, j \in 1 .. Len(batches) :
        /\ i < j /\ batches[i].pid = batches[j].pid /\ batches[i].pid \notin lost
        => \/ batches[i].epoch < batches[j].epoch
           \/ batches[i].epoch = batches[j].epoch /\ batches[i].seq < batches[j].seq

\* A read-committed consumer only gets records of committed transactions,
\* through expiry, crashes and recovery.  The exceptions are the record between
\* replication.append() and complete_append(), and the transactions that
\* init_producer() abandoned, that were aborted during an append, that expired
\* before the log scan reached them, or whose snapshot was ahead of the log, the
\* offset of an append that outlived its transaction included.
ReadCommittedShowsCommitted ==
    phase = "serving" =>
        \A i \in 1 .. Len(batches) :
            Fetched(i) => \/ Decision(i) = "committed"
                          \/ <<batches[i].pid, batches[i].txn>> \in leaked
                          \/ i = Len(batches) /\ call # NoCall /\ call.stage = "appended"

\* No producer is left with a pending batch that no produce() will complete or
\* cancel: it would answer OutOfOrderSequence to every later batch.
PendingHasAppend ==
    phase = "serving" =>
        \A p \in ProducerIds : Producer(p).pend # None => InFlight(p)

\* Readers of committed records get the records of committed transactions, but
\* for the listed gaps, and no append stays pending.
CommittedShown == ReadCommittedShowsCommitted /\ PendingHasAppend

\* The offsets of a committed transaction are applied, about to be applied or
\* stored for recovery, unless the producer went on (a new epoch, new offsets,
\* an abort, a late mark) before they were.
CommittedOffsetsKept ==
    \A o \in owed : \/ o[2] \in Producer(o[1]).offsets
                    \/ \E h \in Requests : /\ handlers[h] # NoHandler /\ handlers[h].step = "apply"
                                           /\ handlers[h].pid = o[1] /\ o[2] \in handlers[h].offsets

\* The group never gets the offsets of a transaction that did not commit.
OffsetsOnlyFromCommitted ==
    \A p \in ProducerIds : groupOffset[p] # 0 => outcome[p][groupOffset[p]] = "committed"

\* The group's offsets are exactly those of committed transactions: none is lost
\* on the way to the group, none of an aborted transaction gets there.
GroupOffsetsExact == CommittedOffsetsKept /\ OffsetsOnlyFromCommitted

\* The record of a committed transaction is never listed as aborted: "recovery
\* reproduces this exact state from the log scan" (complete_append()).
CommittedNeverAborted ==
    \A i \in trimmed + 1 .. Len(batches) : Decision(i) = "committed" => ~Aborted(i)
=============================================================================
