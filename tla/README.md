# Pepper in TLA+

Specifications of the parts of Pepper (`src/crates/`) in which several tasks,
replicas or files must agree and in which a crash, a retry, a late answer or an
unlucky interleaving decides whether data survives.  Every definition is
translated from the Rust source; `PROJECT.json` (`map`) gives the lines of each.
Nine of the components are also proved correct with TLAPS for every number of
clients, nodes and messages.

## 1. The system

Pepper is a content-addressed storage mesh.  A node agent stores immutable
blocks and serves several products over them: versioned namespaces (key-value,
buckets and S3, filesystems, SQLite), a Kafka-compatible broker, and Firecracker
compute.  Namespaces are replicated with Raft (OpenRaft); Kafka partitions are
replicated by their own leader/follower protocol over append extents.

| Part | State it keeps | Operations | How it meets the others |
|---|---|---|---|
| **Read gate** (`pepper-rsm`) | arrival and covered tickets, a FIFO mutex | `ensure` | called by readers of a consensus group, calls its read-index proof |
| **Lazy batcher** (`pepper-rsm`) | queue of jobs, `running` flag, a drain task | `submit`, `drain` | namespace proposals and Kafka coordinators apply through it |
| **RSM host** (`pepper-rsm`) | hosted machine, registry, read lease | apply, register, read | hosts controller, groups, namespaces |
| **Ordered log** (`pepper-ordered-log`) | per replica: segments, high watermark, promised and active epochs; per partition: assignment, ISR, online set, leader, epoch | append, replicate, commit, promise, elect, recover, add/remove replica, reconfigure, open, retain, compact | owned by the broker's partition runtime, behind its `replication` lock |
| **Broker partition** (`pepper-kafka/lib.rs`) | replicated log, descriptor, checkpoint file and `checkpoint_persisted` | produce, fetch, checkpoint, retention, elect, reassign, open | writes the checkpoint from producers, retention and control operations |
| **Transactions** (`pepper-kafka/transactions.rs`) | sharded producer state, dirty marks, snapshot files | init producer, add partitions, stage offsets, prepare/complete/cancel append, end, expire, flush, recover | brackets every produce; `end_txn` writes group offsets |
| **Consumer groups** (`pepper-kafka/groups.rs`) | members, generation, assignment, offsets | join, sync, heartbeat, leave, commit, expire, migrate | sharded hosts, persisted after apply |
| **Controller** (`pepper-kafka/controller.rs`) | topics, assignments, epochs | create/delete, elect, reassign | applied first, then the partition |
| **Namespace machine** (`pepper-namespace`) | revisions, snapshots, request table, retention | put/delete transaction, snapshot, unsnapshot | answers each command with pin intents |
| **Consensus runtime** (`pepper-consensus`) | Raft log, votes, applied state, intents (redb) | append, truncate, apply, build/install snapshot | emits intents, replays after restart |
| **Publication and commit engine** (`pepper-publication`, `pepper-commit`) | staging leases, prepared artifacts | stage, propose, finalize, recover an ambiguous result, expire leases | between products and the consensus log |
| **Pins and collection** (`pepper-agent`) | pins, barriers | reconcile, apply intents, retire, collect | protects what the namespaces retain |
| **Keyed runtime** (`pepper-keyed-runtime`) | slot mapping, budgets, worker queues | dispatch, drain and remap, shutdown | runs per-key work of all products |
| **Block store, extents, durability** (`pepper-storage`, `-extent`, `-durability`, `-buffer`) | files, index, group-commit queue | put, get, delete, append, sync | under everything |
| **Repair and placement** (`pepper-agent/repair.rs`, `pepper-placement`) | repair queue, leases, rendezvous ranks | scan, repair, place | over network and store |
| **Products** (S3, buckets, filesystem, SQLite, datasets) | descriptors, uploads, sessions | HTTP handlers, VFS | over publication |
| **Network, compute, configuration, CLI, observability** | connections, VMs, settings | – | – |

What is hard here, and what correctness means:

* **Read gate**: proofs are shared by readers that arrived before they began; a
  ticket read a moment too late makes a read stale.  Every reader must return.
* **Lazy batcher**: the drain task ends when the queue is empty while a submitter
  decides that somebody else will drain.  Every submitter must get its answer.
* **Durability scheduler**: one barrier answers many requests on several devices,
  some of which fail, expire or are cancelled.  A receipt means durable data.
* **Ordered log**: elections and reassignments stop half way; replicas keep
  records that were never committed.  One writer per epoch; what was committed
  stays.
* **Broker partition**: a producer is answered only when the checkpoint covers
  its record, but three kinds of writers share that file and one of them predicts
  what it writes.  An answered record survives a crash.
* **Consumer groups**: a command is applied in memory, then written, then
  answered; clients retry, and act on what a crash takes back.  Two members never
  own a partition in one generation; an old generation cannot commit.
* **Controller**: an operation changes the controller, its file and the
  partitions' objects in turn.  What was answered is in the file.
* **Transactions**: three stores (log, snapshot files, group offsets) change in
  separate steps, and a crash may fall between any two.  Batches are in the log
  once, consumers see committed records only, offsets follow the decision.
* **Namespaces**: the state, its pin intents and the pins are separate
  transactions, the state is written every 32 entries, leases run out, and
  collection runs meanwhile.  Nothing the namespace retains may be collected, and
  a replay must end where the group is.  Reads are served by leases, proofs and
  forwarded answers, and must show every write answered before them; members come
  and go, and answered entries stay.
* **Stores**: payload, index and metadata become durable at different moments and
  are compacted and collected meanwhile.  An answered block can be read.
* **Products**: an S3, SQLite or compute handler is a chain of reads and
  transactions with other requests, lost answers and restarts in between.
* **Network and placement**: connections die late, requests arrive twice, records
  about who holds a block are old; repair must not collect what is needed.

The code-level hazards behind these sentences are listed, with line numbers and
the properties that catch them, under `hazards` in `PROJECT.json`.

## 2. Modules

| Module | Models | Checked in run | Proved |
|---|---|---|---|
| `ReadGate` | `LinearizableReadGate` | `runtime_primitives` | `Runtime_proofs` |
| `LazyBatcher` | `LazyBatcher` | `runtime_primitives` | `Runtime_proofs` |
| `DurabilityScheduler` | the scheduler thread of `pepper-durability` | `runtime_primitives` | `Runtime_proofs` |
| `CommittedLog` | what a partition promises its consumers (abstract) | refined by the next | |
| `ReplicatedPartition` | `ReplicatedPartition` and the epoch side of `OrderedLog` | `kafka_parts`, `partition_divergent_leader` | `ReplicatedPartition_proofs` |
| `PartitionCheckpoint` | produce, checkpoint, retention, election and recovery of a broker partition | `kafka_parts`, `checkpoint_failed_append` | `PartitionCheckpoint_proofs` |
| `ConsumerGroups` | the group coordinator with its shard file | `kafka_parts` | `ConsumerGroups_proofs` |
| `KafkaControl` | controller, `controller.json`, control operations | `kafka_parts` | |
| `TransactionCoordinator` | coordinator, produce path, `end_txn`, expiry, retention, recovery | `kafka_parts`, `kafka_transaction_recovery` | `TransactionCoordinator_proofs` |
| `NamespaceProtection` | namespace machine, replica storage, publication, pins and collection, composed | `cluster`, `namespace_segmented_checkpoint`, `namespace_replay_divergence` | |
| `NetworkTransport` | connection pools, dials, replay window | `cluster` | `NetworkTransport_proofs` |
| `NetworkDirectory` | provider records, lookups, fetches | `cluster` | |
| `ErasureStripes` | erasure-coded objects | `cluster` | |
| `NamespaceRouting` | how reads and writes find a group's leader | `namespaces` | |
| `NamespaceGroups` | creation, recovery, membership of a group | `namespaces` | |
| `KeyedRuntime` | keyed execution runtime | `services` | `KeyedRuntime_proofs` |
| `NativeEngine`, `BlockStore` | native block engine; block store over three kinds of payload | `services`, `block_store_duplicate_put` | |
| `S3Objects`, `S3Buckets` | objects and repartitioning; buckets | `services`, `s3_create_once` | |
| `S3Multipart` | multipart uploads: parts, Complete, Abort, the lifecycle pass | `services` | `S3Multipart_proofs` |
| `WriterCoordinator`, `SqliteSessions` | SQLite writer lock (operators); sessions, agent and leader | `services` | |
| `PlacementRepair` | repair of placed blocks, placement exceptions | `services` | |
| `SmallObjectPacks` | packing of small objects | `services` | |
| `ComputeJobs` | compute jobs | `services` | |

`MC...` modules hold the instances.  `MCRuntime`, `MCKafka`, `MCCluster`,
`MCServices` and `MCNamespaces` bundle components that share no state: the
initial states choose a `component`, and only its actions are taken, so that a
run explores each by itself.  The modules with proofs are extended, so that run
and theorem speak of the same definitions; the others are instantiated over
shared variables `v1, v2, ...`.  The component specifications do not know of the
bundles.

An operator no specification uses (for instance `LateCoverTarget` before
`CoverTarget`) is a mutated form of the definition that follows it; `mutants` in
`PROJECT.json` says which property each of them breaks.

Many components have a variable `scenario`, chosen initially from the constant
`Scenarios`: which requests are sent, and how often each disturbance (crash,
loss, failure, election, tick of the clock) may happen.

### Primitives
**ReadGate**: `pc` is where a reader is in `ensure`; `waiters` is the FIFO queue
of the tokio mutex, its head the holder; `arrivals` and `covered` are the two
atomics.  `Arrive` draws the ticket and queues in one step; `BeginJoin`,
`LoadCover`, `StartProof`, `ProofSucceeds` and `ProofFails` are the holder's steps
between awaits.  `Cancel` drops a future at any await.  `Commit` is the rest of
the group; the proof attests the commit index it saw when it began.

**LazyBatcher**: every acquisition of the queue mutex is one step: `Submit`
(push, and take the `running` flag if it was down), `Take` (drain up to the item
and byte limits), `Recheck` (lower the flag only if the queue is still empty).  A
ticket stands for a job and for the processor's output for it, so that a mixed-up
answer is visible.

**DurabilityScheduler**: `call` is where each `submit` is, `channel` the bounded
channel, `batch`, `deferred` and `worker` the scheduler thread's locals.  Threads
write before they submit (`written`); a barrier makes durable what was written to
its device before it began (`durable`), or fails.  `Gather`, `StopGathering`,
`Execute`, `BarrierDone`, `BarrierFails` and `ReplyNext` are the thread's steps.

### Kafka
**ReplicatedPartition**: all methods run under one lock, so each is one action,
but with the effects its early returns leave behind: `Promise` promises the nodes
before the first that refuses, a failed catch-up may have copied records,
`recover_replica` sets the node online first.  A record is the epoch of the leader
that appended it.  The partition is created as one of the records in `Partitions`.
`committed` is a history variable: what was below the high watermark when it
advanced.

**PartitionCheckpoint** follows the leader replica: `records` is its log, `bases`
the first offsets of its batches, `sealed` the ends of sealed segments, `ckpt` the
file with its `floor`, `watermark` the high watermark in memory.  A single-replica
partition overlaps the checkpoint task with the append and predicts the end; a
replicated one writes it afterwards and shares writes between producers.
`AppendBatch` advances the watermark; `AppendShort`, with fewer than `minimum_isr`
replicas, leaves it behind the log, and the checkpoint is asked for the watermark
(`target`).  Retention (`RetentionAdvance`, `RetentionPersist`, `RetentionReclaim`)
and elections (`ElectLeader`, which may give the lead to a log that ends at the watermark;
`ControlRead`, `ControlWrite`) write the same file without `checkpoint_lock`.
`Recover` is `open_partition` with its three refusals.
History: `answered` (what was acknowledged as committed), `reclaimed`, and
`overwritten`, raised when one of those writes puts the file below
`checkpoint_persisted`.

**ConsumerGroups**: `shard` and `shardFile` are the state in memory and on disk,
`session` what each client believes, `request` what it waits for.  A command is
applied (`Join`, `SyncAsLeader`, `CommitOffsets`, `Leave`, ...); a later step
writes the shard under its lock and answers the client (`PersistAndAnswer`);
`PersistFails`, `AnswerLost`, `Expire` and `Restart` disturb.  Clients are external.

**KafkaControl**: `controller`, `file` and `tmp` (the rename), the partitions'
`runtime` objects and logs; `op` is the operation in progress, one step per
await.  `undone` is history: the topics whose promotion a crash took back.
**TransactionCoordinator**: each producer has a shard and its snapshot
file; `batches` is the log of one partition, `trimmed` what retention has taken of
it.  The produce path is four steps with the failing append; `end_txn` is the decision, the group command and `mark_offsets_applied`,
run by several handlers; `FlushTake` and `FlushWrite` are the halves of
`flush_dirty`; recovery works through snapshots, log scan and committed offsets
while the maintenance task already runs.  `Scanned`, `Replayed` and `Recovered` say
in closed form what the loop over the scanned batches leaves of a snapshot (TLC
compared them with the fold of that loop over every state of an instance).

### Namespaces
**NamespaceProtection** composes the namespace machine (`Exec`,
`DiffPinIntents`), one replica's log, durable intents and lagging state record,
checkpoints and their DAG links, publication under a lease, the reconciler and
collection.  `truth` is the state of the group.  **NamespaceRouting**: `log`,
`applied` and `view` are the external Raft library, `metrics` what the manager
sees of it, `heard` and `lastKnown` the ages behind a lease, `ops` the operations
in progress.  `Announce` delivers the first of a node's records in the order of
their announcers, and the receiver refuses it when another node announced it.
**NamespaceGroups**: per node what is stored, running and applied, the replacement
and recovery tasks, and the epoch that messages carry.  A recovery takes its members
in the order of the request, initializes the first as soon as it is prepared, and
writes at each member in three steps (`RecoverClear`, `RecoverState`,
`RecoverRecord`) between which the member may crash, or go on although the request
has ended.  Raft is external in all three.

### Stores, products, network
Every handler is a program counter and its locals; a step reaches to the next
await or lock.  The header comment of each module says what its state stands for
and which data is abstracted.  Reed-Solomon, TLS, redb's transactions, QUIC and
the virtual machines are external and taken at their contracts.

**NetworkTransport**: `pool` has one connection per lane, `dial` the coalesced
dial tasks, `call` each request with its retries; `inc` is the peer's incarnation,
`digest` the one the client was told; `seen`, `slots` and `dispatched` are the
peer's replay window, its service slots and how often it ran each request.

**BlockStore**: `payload` is what the file system shows, `disk` what a power loss
leaves; `Restart` adopts the first, `PowerLoss` the second, and opening syncs
nothing.  `unbarred` is history: files in place whose barrier failed or was cut off.

**S3Objects**: a put commits (`Apply`); its gateway refreshes the cached head and
invalidates the cached value in later steps (`Refresh`, `Invalidate`), so other
requests of the gateway see the old head in between.

**SqliteSessions**: a request reads the head and the clock (`Read`), waits for the
coordinator's mutex and then acts with what it has read.  A request or its answer
may be lost, and is sent again or given up (`LoseRequest`; `LoseRenewal` for the
heartbeat, which gives its ticket up).  A commit that failed leaves the batch open
(`file.batch`), and with it the lock, until it is committed again or rolled back.

**PlacementRepair**: leases are read and written in two steps, both by acquisition
and by renewal (`AcquireRead`, `AcquireWrite`, `RenewRead`, `RenewWrite`); a pass reads the map for its
cursor and for the owners apart (`SyncStart`, `SyncRoute`); an administrator's
exception copies the block first and is committed later, and may name any node.

**ComputeJobs**: a cancel of a delegated job is two handlers; when the client or the
submitting node goes away, the one at the executing node goes on (`CancelDropped`,
`Restart`).

**KeyedRuntime**: `dispatch` is where each caller is in `dispatch()`, which takes a
step for every atomic; `mapping`, `inflight` and `usage` are those atomics.
`channel` is each worker's receiver and `worker` the locals of its loop, which
starts all it may (`Start`) and answers barriers (`Notify`) before it waits for a
message or a completion (`Waiting`).  `remap` is where each `drain_and_remap()` is;
`jobs` is history: the phase of each job and the jobs accepted before its call.

## 3. Runs

The passing runs explore their instances completely.

| Run | Parts | Shows |
|---|---|---|
| `runtime_primitives` | read gate, batcher, scheduler | a coalesced proof never serves a stale index; one owner of the batcher's queue, own answers, limits and order; a receipt stands for data durable on every target; and every `ensure` and `submit` returns |
| `kafka_parts` | partition, groups, checkpoints, control plane, transactions | one writer, a sound watermark, and with minimum ISR 1 agreement and refinement of `CommittedLog`; one owner per partition and generation, durable commits, fenced former owners; answered records survive; answered control operations are in the file; batches once and in order, committed records shown, offsets exact |
| `cluster` | namespace protection, transport, directory, erasure coding | what the namespace retains is out of reach of collection and a replay ends in the group's state; a request runs at most once and a restarted peer is reached again; lookups return what owners told; a stripe stays readable |
| `services` | keyed runtime, stores, S3, SQLite, repair, packs, compute | jobs of a key in order; answered blocks kept; acknowledged writes found where the map routes; uploads published once, buckets usable; no lost SQLite update; needed copies not collected; small objects reachable; jobs neither lost nor run after an answered cancel |
| `namespaces` | routing, groups | a read shows every write answered before it began, also while a new leader writes and the old one has its lease, and an undisturbed operation succeeds; answered entries outlive changes of the leader, replacements, crashes and recoveries |

Seven runs are expected to be violated.  Each states something the repository says
of itself (quoted under `findings`) that the code does not do:

| Run | What TLC finds |
|---|---|
| `partition_divergent_leader` | `catch_up` compares log ends only.  With minimum ISR 2, a leader's uncommitted record survives an election, another record is committed at its offset, and the first node is elected again: it serves its own record. |
| `checkpoint_failed_append` | After a failed append `checkpoint_persisted` stays ahead of what retention rewrites; the next produce skips its checkpoint. |
| `kafka_transaction_recovery` | The log scan replays the snapshot's last batch and counts it to the open transaction, though it belongs to the committed one before: an abort hides a committed record. |
| `namespace_segmented_checkpoint` | A checkpoint in segments links to no root: a replica that installs one does not protect them. |
| `namespace_replay_divergence` | With retention shorter than the persist cadence a collection removes the tree a replay starts from; the replica skips the command and leaves the group's state. |
| `block_store_duplicate_put` | Two overlapping puts of a native block: the second removes the first's metadata as stale; both are answered and the block cannot be read. |
| `s3_create_once` | Two `If-None-Match: *` puts through two gateways are both acknowledged. |

### What the passing properties except
Some states the code does reach are left out of a passing run or named as an
exception of its property; each is a hazard in `PROJECT.json` or a condition at
the definition:

* *Partition*: agreement and the refinement are stated for minimum ISR 1 (the
  first finding).
* *Checkpoint*: `AcknowledgedUnlessOverwritten` excepts a file that an election,
  a reassignment or retention put below `checkpoint_persisted`.  It speaks of
  records that `minimum_isr` replicas had: a produce with acks 0 or 1 is answered
  with success below that as well, the checkpoint does not cover its record, and
  recovery or an election does discard it.  `VisibleIsBacked` is about replicated
  partitions, because the overlap window of a single replica
  can leave a watermark over an empty log.
* *Transactions*: a record between `append` and `complete_append`, transactions
  abandoned by `init_producer`, aborted during an append, expired before the scan,
  or with a snapshot ahead of the log (`Ahead`, `FirstBeyondLog`); a flush that only
  took its mark before retention; offsets cleared by another call.  A late handler
  that lowers a group's offset is not covered.  *Groups*: transactional offset
  commits are `TransactionCoordinator`'s, and not fenced by `FormerOwnerFenced`.
* *Control plane*: one administrator (two race for `controller.json`), no
  election of an offline leader.  Topics whose promotion a crash has undone
  (`undone`): `elect_leader` promotes before the controller is persisted, so a crash
  in between brings back the former leader, and if that one was offline it lacks
  what the promoted one acknowledged.
* *Namespace protection*: replay with retention shorter than the cadence, reuse
  of released pins and of snapshot names, snapshots together with disturbances.
* *Routing*: pauses of a whole process during a leased read.
* *Groups of namespaces*: learners that replay a log from its start count its
  epochs on top of the leader's (`apart`); members recovered from another epoch or
  new to the group, and entries that cross a recovery, which appends may
  (`mixed`).  That voters of equal logs whose applied memberships differ refuse each
  other's votes, and whether a learner is promoted before it has caught up, are
  questions of availability and not stated.
* *Keyed runtime*: slots whose keys have more than one default worker
  (`OneDefault`; possible when the number of workers does not divide `key_slots`).
  *Native engine*: a failed barrier
  together with a crash; a crash within the unlinking of a compaction.  *Block
  store*: overlapping native puts of a block; late corruption marks; a block whose
  file was left by a put without its barrier (`unbarred`): the next put answers
  without one, and a power loss takes it.
* *S3*: two gateways that repartition, cached read routes during a change,
  concurrent creates, overlapping initialisation and deletion of a bucket.  Nothing
  is said of when a conditional put is refused: a cached head that is behind refuses
  puts although the object has not changed.  *SQLite*: a head that has changed
  between its read and its use, overlapping re-reads of `FinishCommit`.
* *Repair*: stale bases (`stale`), exceptions renewed during a collection (`race`),
  blocks of two objects; a copy lost between the collection's question to its node
  and the deletion (`raced`), where the last copy does go.  The payload cache of the
  destinations is not modelled.  *Packs*: puts over another object than the one
  read, clearing that overlaps requests.  *Compute*: a failure between a cancel's
  last look and its record, overlapping submits of one job.
* *Directory*: a clean-up that overlaps a renewal, older copies of a record over
  newer ones, clocks that disagree.

### Bounds
* Primitives: three readers or callers that may call again, so that a late proof
  or batch meets a newer call; requests that fill a batch, overflow it, need two
  devices, or none.
* Partition: three nodes are the smallest set with a quorum that misses a member.
  `MaxEpoch = 2` and `MaxLength = 3` allow one election or reassignment; more are
  covered by the theorems.  The divergent run has two elections, which its
  counterexample needs.
* Groups: two clients, of which one knows a protocol the other does not; three
  generations, one restart.
* Checkpoints: three producers, batches of one and two records, and three
  scenarios: a failed append and two crashes of a single replica; rotation,
  retention, a short append and a crash; an election, a short append and a crash.
* Control plane: an outage and a crash, so that a crash can fall between a
  promotion and its record; two crashes.
* Transactions: two transactions per producer and one crash, because recovery
  errors need a committed transaction before the open one.
* Namespaces: three log entries, more than the persist cadence of two, which
  stands for the code's 32, and one disturbance.  Routing has an election while the
  deposed leader reads by its lease, with as many ticks as the lease is long.
  Membership has elections within a replacement and on both sides of a recovery.
* Stores and repair: a failed barrier, a restart and a power loss in one scenario;
  two lost copies and a collection in one scenario.
* Compute: two jobs with one slot (the limit binds) and with two (their VMs meet).
* The other parts: two or three nodes, requests chosen so that any two of them
  conflict, and one or two of each disturbance, spread over the scenarios listed
  in the MC modules with the reason for each.

Runs say `CHECK_DEADLOCK FALSE` because a behaviour that used up its bounds ends
there.  Symmetry is used for contents and request handlers, which no definition
orders, and only in runs without liveness properties.

### Fairness
Only the primitives state liveness.  Weak fairness is on the steps of a task or
thread that is running: a reader's next step (`Progress`, which includes the end
of its proof: OpenRaft's `ensure_linearizable` asks each voter once and fails when
a quorum does not confirm, the one assumption made of the library), the batcher's
drain task and its spawning, the scheduler's loop and a sender that finds room in
the channel.  tokio polls every woken task and its mutex is FIFO; the scheduler is
an operating system thread.  No fairness is assumed for arrivals, commits,
failures or cancellations.

## 4. Proofs

TLAPS proves for every value of the constants:

| Module | Theorems |
|---|---|
| `Runtime_proofs` | `GateTypeCorrect`, `GateLinearizable`, `BatcherTypeCorrect`, `BatcherIsCorrect`, `SchedulerTypeCorrect`, `SchedulerIsSound` |
| `ReplicatedPartition_proofs` | `PartitionTypeCorrect`, `PartitionSingleWriter`, `PartitionWatermarkSound`, `PartitionReplicasAgree`, `PartitionImplementsCommittedLog` |
| `PartitionCheckpoint_proofs` | `CheckpointTypeCorrect`, `CheckpointIsSound` |
| `ConsumerGroups_proofs` | `GroupsTypeCorrect`, `GroupsAreSound`, `GroupsFenceFormerOwners` (an action property) |
| `TransactionCoordinator_proofs` | `TransactionsTypeCorrect`, `TransactionsExactlyOnce`, `TransactionsCommittedShown`, `TransactionsGroupOffsets` |
| `NetworkTransport_proofs` | `NetworkTypeCorrect`, `NetworkIsSound` |
| `KeyedRuntime_proofs` | `KeyedTypeCorrect`, `KeyedJobsInOrder` |
| `S3Multipart_proofs` | `MultipartTypeCorrect`, `MultipartIsSafe` |

Each has the same shape: an inductive invariant (`...Inv`), one lemma per action
that it is kept, the theorem that it holds, and the properties from it.  TLC
checked each invariant on an instance before it was proved.

**ReadGate.**  `LinearizableReads` is not inductive: that a covered reader was
served well depends on when the proof behind `covered` began.  The strengthening
says that `covered` is backed by a finished proof (`CoveredIsProved`), that a
running proof covers every ticket up to the value its holder loaded before it
began (`ProofCoversTickets`), and that tickets and attested indexes never run
ahead of their counters (`TicketsBounded`).

**LazyBatcher.**  `OneOwner` counts; `Ownership` says the same without counting:
nobody owns the queue while `running` is down, then the queue is empty, and one
drain task or one leading caller while it is up.  `TicketOrder` keeps tickets
increasing along the batch and the queue, `Limits` bounds the batch a task holds,
and `NoEarlyAnswer` with `OwnAnswer` ties answers to tickets.  `BatchSizeFits`
finds the largest prefix that keeps the limits with a least-counterexample
argument (`WFMin`), because the prover cannot do induction over data.

**DurabilityScheduler.**  A receipt is honest only if three facts meet: the data
was written before the call (`DataWritten`), an outcome other than failure means
that every request of the batch on that device is durable (`OutcomesSound`), and
when the answers begin every group of a live request has an outcome.  Order
(`BatchesInOrder`) needs that a request is put off only as the gathering ends
(`GatheringDefersNothing`).

**ReplicatedPartition.**  `ActiveBounded`: no log was activated under an epoch
newer than the partition's, so a new leader's epoch outranks all others and failed
elections only deactivate.  `NothingUncommitted`: with minimum ISR 1 the leader's
log *is* the committed log and every replica's log is a start of it, so that
comparing lengths, all that `catch_up` does, compares contents.  The same fact
fails for a larger minimum ISR, which is the finding above.  `CopyStep` (a step
that only copies with `catch_up` and leaves a leader with every committed offset
keeps the logs sound) covers every method but `append`, and `FenceStep` (a step
that deactivates logs, and activates one under an adopted newer epoch, leaves one
writer) covers elections and reassignments.  The refinement maps every step to an
append of `CommittedLog` or a stutter.

**PartitionCheckpoint.**  The proof covers every mix of failed appends, rotations,
retention passes, short appends, elections and crashes, which TLC only sees apart.
`LogSound`: the log has no gap below its end, so its end, all that `open` looks at,
says which records it has, and the watermark is never beyond it.  `FileSound`: the file's floor is in the log although its
watermark may be a prediction.  `ProducerSound` and `TaskSound` say what a call
knows at each of its steps: a producer past its checkpoint has its `target` below
`checkpoint_persisted`, and if its batch was below the watermark when it was
appended (`Committed`) its records are `Kept` (below the watermark and in the log,
or reclaimed with everything left above them), which is why an election that cuts
the log at the watermark takes none of them.  `AnsweredSound`: unless the file was overwritten it
is at least `checkpoint_persisted`, and every answered offset is below it.
`CrashSound` says that no call outlives a crash.  Writing this invariant showed
that retention overwrites the file as an election does, and that recovery refuses
a watermark inside a batch; both are in the model since.

**ConsumerGroups.**  Ownership is in the heads of clients, so `SessionsSound`
speaks of every session a client has *or is about to be given* (`Told`): a session
is well formed, no newer than the memory, and once given no newer than the file;
sessions of one generation have the same members.  `FileBehind` and `HandedBehind`
order memory, file and what was handed out, which is why a restart cannot bring
back a generation somebody acted on.  `OffsetsSound` does the same for commits.
That a generation's members divide the partitions among themselves rests on
`RanksDiffer` and `RanksCover`, which show that ranks of members are a bijection.

**TransactionCoordinator.**  Three stores change at different times: the log, the
shards in memory and their files.  `FileInv`: memory and file differ in the
sequence state only, and only for a shard that is dirty or taken by the flush.
`SequenceInv`: what a shard knows covers the log.  In memory that is every batch
but the one being appended (`MemoryCovers`), in the file every batch that retention
took (`FileCovers`), which is why the scan of what is left of the log restores the
rest; the append under way is ahead of every batch (`CallOrdered`), and a pending
mark belongs to it (`PendingSound`).  From this `ExactlyOnceInOrder` follows for any
number of crashes.  `DecisionInv` ties the coordinator's status to the outcome of
each transaction and gives each batch of the open one its epoch.  `ListedInv` is
about the ranges: a batch of the open transaction that the shard has seen lies
between its first and last offset, in memory *and* in the file (`OpenListed`), and a
batch of an aborted one is in a listed range (`AbortedListed`); with the last stable
offset this gives `CommittedShown`.  `OffsetsInv`: staged offsets and those of a
handler are of one transaction, committed or still open.  A step that changes one
shard needs only `SequencesKept`, `ListedPersisted` and `OffsetsInv` for that shard.
`ListedInv` did not hold at first: an append that completes after its transaction
was aborted leaves `first_transaction_offset` behind; when a crash then cuts the log
below it, the next transaction starts with a first offset beyond its own records,
and they are visible while it is open or after its abort.  It takes two producers,
two transactions and a crash; the model now counts it among the excepted gaps
(`FirstBeyondLog`).

**NetworkTransport.**  `AtMostOnce` needs `Executed`: a request that ran and could
arrive again is still in the replay window or too old to be accepted.  `Dialed`
gives the dial lock of a lane one owner without counting; `InService` says that a
slot belongs to a call on a living connection.

**KeyedRuntime.**  That jobs of a key keep their order is a fact about where they
are, so the invariant first says that: a job is where its phase says, somewhere,
and in one place only (`PlaceInv`, `FoundInv`, `UniqueInv`).  `OrderInv`: a job
accepted before another's call is not behind it, in a worker's queue, in its
channel, or in one while the other is in the other.  Both are at the same worker
because all there is of a key is at its owner, calls that have loaded the mapping
included (`OwnerInv`).  Only a remap changes the owner, and it may because of
`RemapInv`: it has its slot to itself; from the moment `dispatch_inflight` was zero
with the DRAINING bit up no call of the slot is on its way; and once its barrier was
answered nothing of the slot is left at the old worker.  The last needs
`BarrierInv`: jobs of the slot are in front of the barrier in its channel.
`CountInv` bounds the counters from one side only, because a cancelled dispatch
leaves `dispatch_inflight` raised and a panic leaves its class counted.  `ReadyInv`
says for every class that a key stands once in a ready queue, exactly when
`take_ready` may take it from there.  The proof fails at `FinishRemap` for a slot
whose keys have different default workers, because `drain_and_remap` drains the
owner of the one key it was given: hence the exception `OneDefault`.

**S3Multipart.**  Every request acts on an upload record that it read some awaits
ago.  `SeenSound` says what that record is worth: while the upload is live it is
the record of now if its generation is, and if it said "completing" then the list
is fixed for good, because a completing or deleted record never opens again
(`Decided`).  `DecidedFor`: a Complete past its decision publishes the list of the
record, so two of them publish the same thing under the same request id, and the
idempotency record lets one through.  `PartSound` and `CompleteSound` carry a check
made on the staged parts to the write that relies on it: as long as the generation
stands, nobody stored a part in between.  `Unpublishable`: after an answered Abort
no request is at or before a publication that could still succeed.  `RecordStep`,
`RecordDeleted` and `MovesOn` say once, for all actions, what a write of the
record, its deletion, or a step of one request leaves of what the others know.

Assumptions are on constants only, and TLC evaluates them on every run:
`ReadGateAssumption`, `BatcherAssumption`, `SchedulerAssumption`,
`GroupsAssumption`, `CheckpointAssumption`, `TransactionsAssumption` and
`LimitsAssumption` (bounds and limits are numbers, the
limits that the code requires to be positive are; requests, scenarios and
workloads have their types), `PartitionAssumption` (nodes are a finite set of numbers; the leader is a
replica; `minimum_isr` between one and the number of replicas, which
`ReplicatedPartition::new` requires), `NetworkAssumption` (finitely many calls;
scenarios give lanes to calls), `CallsAssumption` and `CycleAssumption` (finitely
many dispatch calls, of classes that occur in `FAIR_CYCLE`, which is not empty) and
`MultipartAssumption` (finitely many part
numbers, numeric bounds, and a part request stores one of those parts).

Only model-checked:

* liveness (`EnsureReturns`, `EverySubmitAnswered`, `EverySubmitReturns`), which
  is outside the prover's reach together with `ENABLED`;
* what folds and other recursively defined operators compute for every input (for
  instance that the scheduler's `batchBytes` is the sum over its batch), which
  needs induction over data;
* `KafkaControl`, the namespaces, the stores, the products but for multipart
  uploads, directory, erasure coding and repair.  No module declares a RECURSIVE
  operator, so all of them can be proved about.

## 5. What is not modelled

`components` in `PROJECT.json` lists every part with the reason.  In short:
OpenRaft, QUIC and Firecracker are other people's or the operating system's;
HTTP handlers, wire formats, configuration, metrics and the CLI hold no state
that several actors race for; the Merkle map and DAG traversal are data
structures of which only "which blocks does a root reach" matters here.  The map
covers about 20 % of the lines under `crates/*/src`.

Within the modelled parts: file writes succeed or the process crashes, where the
module does not say otherwise; one partition, one group, one namespace, one
stripe; batches of one record in the transaction and replication models;
namespace retention by count but not by age; commit blocks follow their roots;
collection in `NamespaceProtection` is one step; legacy import of transaction
state and idempotent producers without a transaction.

## 6. Plan

1. Prove the next components: the answered puts of `NativeEngine`, the leases of
   `NamespaceRouting`.
2. `PartitionCheckpoint` and `TransactionCoordinator` composed: a duplicate
   answered before the first attempt's checkpoint.
3. `SegmentedLog`: compaction of sealed segments with crashes between seal and
   create; the compaction policy as an operator against "the latest record of each
   key"; tiering.
4. Collection in `NamespaceProtection` split at its awaits; pin retirement.
5. The filesystem and dataset services over publication; configuration changes.

Runs stay few: scenarios of one component share a run through an initial choice,
and components share runs through the bundles.
