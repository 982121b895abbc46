---------------------------- MODULE KeyedRuntime ----------------------------
(***************************************************************************)
(* pepper-keyed-runtime: dispatchers admit jobs for keys against sharded   *)
(* atomic budgets and send them to the worker that owns the key's slot;    *)
(* each worker runs at most one job of a key at a time; drain_and_remap()  *)
(* moves a slot to another worker; a shutdown message ends a worker.       *)
(*                                                                         *)
(* Every atomic of the dispatch path is a step of its own.  A worker's     *)
(* loop starts all it may and answers barriers before it waits again.  A   *)
(* request takes one unit of each budget; of the six scopes the first (the *)
(* key's slot) and the last (global) are kept, the others work alike.      *)
(***************************************************************************)
EXTENDS Naturals, Sequences, FiniteSets

CONSTANTS
    Calls,              \* the dispatch() calls, by job: the dispatcher that makes it, the
                        \* natural its key hashes to, its work class
    WorkerCount, KeySlots,
    Remappers,
    QueueDepth,         \* queue_depth_per_worker
    ActivePerWorker,    \* active_per_worker
    ClassLimit,         \* class_limit() of each class
    FairCycle,          \* FAIR_CYCLE
    KeyLimit, GlobalLimit,                  \* request budgets
    MaxRemaps, MaxFaults                    \* bounds: remaps; panics, dropped futures and shutdowns

JobIds == DOMAIN Calls
Dispatchers == {Calls[j].by : j \in JobIds}
Keys == {Calls[j].key : j \in JobIds}
Classes == {FairCycle[i] : i \in DOMAIN FairCycle}

\* Jobs are numbered in the order in which a dispatcher makes its calls; build() refuses zero workers and slots.
ASSUME CallsAssumption ==
    /\ JobIds \subseteq Nat /\ IsFiniteSet(JobIds)
    /\ \A j \in JobIds : Calls[j].key \in Nat /\ Calls[j].class \in Classes
ASSUME LimitsAssumption ==
    /\ WorkerCount \in Nat \ {0} /\ KeySlots \in Nat \ {0}
    /\ {QueueDepth, ActivePerWorker, KeyLimit, GlobalLimit, MaxRemaps, MaxFaults} \subseteq Nat
ASSUME CycleAssumption == FairCycle \in Seq(Classes) /\ FairCycle # <<>> /\ ClassLimit \in [Classes -> Nat]

Workers == 0 .. WorkerCount - 1
Slots == 0 .. KeySlots - 1
KeySlot(k) == k % KeySlots
KeyOf(j) == Calls[j].key
ClassOf(j) == Calls[j].class

VARIABLES
    jobs,           \* per job: its phase and the jobs of its key accepted before its call
    dispatch,       \* where each dispatcher is in dispatch()
    mapping,        \* per slot: the override worker + 1 (0: none) and the DRAINING bit
    inflight,       \* dispatch_inflight
    usage,          \* budgets: per key slot, global
    channel,        \* each worker's receiver: jobs, barriers, Shutdown
    worker,         \* each worker's loop state
    remap,          \* where each drain_and_remap() is
    remaps, faults,
    shuttingDown    \* Inner.shutting_down

dispatching == <<jobs, dispatch, inflight, usage>>
keyedVars == <<jobs, dispatch, mapping, inflight, usage, channel, worker, remap, remaps, faults, shuttingDown>>

NewWorker == [keys |-> [k \in Keys |-> <<>>], ready |-> [c \in Classes |-> <<>>], active |-> {},
              byClass |-> [c \in Classes |-> 0], tasks |-> {}, cursor |-> 0, barriers |-> {}, stopping |-> FALSE,
              closed |-> FALSE]

Message == [type : {"job"}, job : JobIds] \cup [type : {"barrier"}, slot : Slots, call : 1 .. MaxRemaps]
             \cup [type : {"shutdown"}]
NoDispatch == [at |-> "idle", job |-> 0, worker |-> 0]
NoRemap == [at |-> "idle", call |-> 0, slot |-> 0, target |-> 0, old |-> 0]

Phases == {"none", "admitting", "queued", "running", "done", "dropped"}
WorkerState ==
    [keys : [Keys -> Seq(JobIds)], ready : [Classes -> Seq(Keys)], active : SUBSET Keys, byClass : [Classes -> Nat],
     tasks : SUBSET JobIds, cursor : 0 .. Len(FairCycle) - 1, barriers : SUBSET [slot : Slots, call : 1 .. MaxRemaps],
     stopping : BOOLEAN, closed : BOOLEAN]

KeyedTypeOK ==
    /\ jobs \in [JobIds -> [phase : Phases, after : SUBSET JobIds]]
    /\ dispatch \in [Dispatchers -> [at : {"idle", "counted", "reserveKey", "reserveGlobal", "sending", "sent"},
                                     job : JobIds \cup {0}, worker : Workers]]
    /\ mapping \in [Slots -> [worker : 0 .. WorkerCount, draining : BOOLEAN]]
    /\ inflight \in [Slots -> Nat]
    /\ usage \in [key : [Slots -> 0 .. KeyLimit], global : 0 .. GlobalLimit]
    /\ channel \in [Workers -> Seq(Message)] /\ \A w \in Workers : Len(channel[w]) <= QueueDepth
    /\ worker \in [Workers -> WorkerState] /\ \A w \in Workers : Cardinality(worker[w].tasks) <= ActivePerWorker
    /\ remap \in [Remappers -> [at : {"idle", "waiting", "awaiting", "drained"}, call : 0 .. MaxRemaps, slot : Slots,
                                target : Workers, old : Workers]]
    /\ remaps \in 0 .. MaxRemaps /\ faults \in 0 .. MaxFaults /\ shuttingDown \in BOOLEAN

KeyedInit ==
    /\ jobs = [j \in JobIds |-> [phase |-> "none", after |-> {}]]
    /\ dispatch = [d \in Dispatchers |-> NoDispatch]
    /\ mapping = [s \in Slots |-> [worker |-> 0, draining |-> FALSE]]
    /\ inflight = [s \in Slots |-> 0]
    /\ usage = [key |-> [s \in Slots |-> 0], global |-> 0]
    /\ channel = [w \in Workers |-> <<>>]
    /\ worker = [w \in Workers |-> NewWorker]
    /\ remap = [r \in Remappers |-> NoRemap]
    /\ remaps = 0 /\ faults = 0 /\ shuttingDown = FALSE

\* owner_from_state()
OwnerOf(state, k) == IF state.worker = 0 THEN k % WorkerCount ELSE (state.worker - 1) % WorkerCount

-----------------------------------------------------------------------------
(* dispatch() *)

SlotOf(d) == KeySlot(KeyOf(dispatch[d].job))
OwnerFor(d) == dispatch[d].worker
Returned(d) == dispatch' = [dispatch EXCEPT ![d] = NoDispatch]
Phase(j, phase) == jobs' = [jobs EXCEPT ![j].phase = phase]
Lower(s) == inflight' = [inflight EXCEPT ![s] = @ - 1]

\* Jobs of the key that an earlier call, already returned, left to be done.
AcceptedBefore(k) == {j \in JobIds : KeyOf(j) = k /\ jobs[j].phase \in {"queued", "running", "done"}
                        /\ \A d \in Dispatchers : dispatch[d].at = "idle" \/ dispatch[d].job # j}

\* The flag is down and the deadline ahead: count this call in its slot.
BeginDispatch(j) ==
    /\ jobs[j].phase = "none" /\ dispatch[Calls[j].by].at = "idle" /\ ~shuttingDown
    /\ \A i \in JobIds : i < j /\ Calls[i].by = Calls[j].by => jobs[i].phase # "none"
    /\ jobs' = [jobs EXCEPT ![j] = [phase |-> "admitting", after |-> AcceptedBefore(KeyOf(j))]]
    /\ dispatch' = [dispatch EXCEPT ![Calls[j].by] = [at |-> "counted", job |-> j, worker |-> 0]]
    /\ inflight' = [inflight EXCEPT ![KeySlot(KeyOf(j))] = @ + 1]
    /\ UNCHANGED <<mapping, usage, channel, worker, remap, remaps, faults, shuttingDown>>

IgnoreDraining(d) == TRUE           \* the DRAINING bit is not looked at

MayAdmit(d) == ~mapping[SlotOf(d)].draining

\* The mapping is read after the call was counted.
LoadMapping(d) ==
    /\ dispatch[d].at = "counted" /\ MayAdmit(d)
    /\ dispatch' = [dispatch EXCEPT ![d].at = "reserveKey",
                                   ![d].worker = OwnerOf(mapping[SlotOf(d)], KeyOf(dispatch[d].job))]
    /\ UNCHANGED <<jobs, inflight, mapping, usage, channel, worker, remap, remaps, faults, shuttingDown>>

\* KeyDraining.
RefuseDraining(d) ==
    /\ dispatch[d].at = "counted" /\ ~MayAdmit(d)
    /\ Lower(SlotOf(d)) /\ Phase(dispatch[d].job, "dropped") /\ Returned(d)
    /\ UNCHANGED <<mapping, usage, channel, worker, remap, remaps, faults, shuttingDown>>

OneTooMany(d) == IF dispatch[d].at = "reserveKey" THEN usage.key[SlotOf(d)] <= KeyLimit
                                                  ELSE usage.global <= GlobalLimit

\* Scopes are reserved one by one, from the key's to the global one.
FitsScope(d) == IF dispatch[d].at = "reserveKey" THEN usage.key[SlotOf(d)] < KeyLimit
                                                 ELSE usage.global < GlobalLimit

Reserve(d) ==
    /\ dispatch[d].at \in {"reserveKey", "reserveGlobal"} /\ FitsScope(d)
    /\ IF dispatch[d].at = "reserveKey"
       THEN /\ usage' = [usage EXCEPT !.key[SlotOf(d)] = @ + 1]
            /\ dispatch' = [dispatch EXCEPT ![d].at = "reserveGlobal"]
       ELSE /\ usage' = [usage EXCEPT !.global = @ + 1]
            /\ dispatch' = [dispatch EXCEPT ![d].at = "sending"]
    /\ UNCHANGED <<jobs, inflight, mapping, channel, worker, remap, remaps, faults, shuttingDown>>

\* What a refused reservation leaves: the scopes taken before are released.
RolledBack(d) == IF dispatch[d].at = "reserveKey" THEN usage
                 ELSE [usage EXCEPT !.key[SlotOf(d)] = @ - 1]

\* BudgetExhausted.
RefuseBudget(d) ==
    /\ dispatch[d].at \in {"reserveKey", "reserveGlobal"} /\ ~FitsScope(d)
    /\ usage' = RolledBack(d)
    /\ Lower(SlotOf(d)) /\ Phase(dispatch[d].job, "dropped") /\ Returned(d)
    /\ UNCHANGED <<mapping, channel, worker, remap, remaps, faults, shuttingDown>>

\* Dropping an AdmissionPermit gives back every scope.
WithoutPermit(k) == [usage EXCEPT !.key[KeySlot(k)] = @ - 1, !.global = @ - 1]

\* There is room in the owner's channel.
Send(d) ==
    /\ dispatch[d].at = "sending"
    /\ ~worker[OwnerFor(d)].closed /\ Len(channel[OwnerFor(d)]) < QueueDepth
    /\ channel' = [channel EXCEPT ![OwnerFor(d)] = Append(@, [type |-> "job", job |-> dispatch[d].job])]
    /\ Phase(dispatch[d].job, "queued")
    /\ dispatch' = [dispatch EXCEPT ![d].at = "sent"]
    /\ UNCHANGED <<inflight, mapping, usage, worker, remap, remaps, faults, shuttingDown>>

\* The deadline passes, or the worker is gone: the permit is dropped.
SendFails(d) ==
    /\ dispatch[d].at = "sending"
    /\ usage' = WithoutPermit(KeyOf(dispatch[d].job))
    /\ Phase(dispatch[d].job, "dropped")
    /\ Lower(SlotOf(d)) /\ Returned(d)
    /\ UNCHANGED <<mapping, channel, worker, remap, remaps, faults, shuttingDown>>

\* Ok: the call leaves its slot's count.
FinishDispatch(d) ==
    /\ dispatch[d].at = "sent"
    /\ Lower(SlotOf(d)) /\ Returned(d)
    /\ UNCHANGED <<jobs, mapping, usage, channel, worker, remap, remaps, faults, shuttingDown>>

\* The caller drops the future while it waits for room: the permit goes, the
\* slot's count stays.
CancelDispatch(d) ==
    /\ dispatch[d].at = "sending" /\ faults < MaxFaults
    /\ faults' = faults + 1
    /\ usage' = WithoutPermit(KeyOf(dispatch[d].job))
    /\ Phase(dispatch[d].job, "dropped") /\ Returned(d)
    /\ UNCHANGED <<inflight, mapping, channel, worker, remap, remaps, shuttingDown>>

-----------------------------------------------------------------------------
(* KeyedWorker::run *)

JobsOf(w, k) == worker[w].keys[k]

\* take_ready(): entries for a key that is active, or whose first job is of
\* another class, are passed over (and dropped).
Takable(w, c, k) ==
    k \notin worker[w].active /\ JobsOf(w, k) # <<>> /\ ClassOf(Head(JobsOf(w, k))) = c

Candidates(w, c) == {i \in DOMAIN worker[w].ready[c] : Takable(w, c, worker[w].ready[c][i])}

CycleClass(w, i) == FairCycle[((worker[w].cursor + i) % Len(FairCycle)) + 1]

\* The i-th class of the cycle, from the cursor, has room and a ready key.
Turn(w, i) == worker[w].byClass[CycleClass(w, i)] < ClassLimit[CycleClass(w, i)]
                /\ Candidates(w, CycleClass(w, i)) # {}

CanStart(w) ==
    /\ ~worker[w].closed /\ Cardinality(worker[w].tasks) < ActivePerWorker
    /\ \E i \in 0 .. Len(FairCycle) - 1 : Turn(w, i)

Start(w) ==
    /\ CanStart(w)
    /\ LET i == CHOOSE n \in 0 .. Len(FairCycle) - 1 : Turn(w, n) /\ \A m \in 0 .. n - 1 : ~Turn(w, m)
           c == CycleClass(w, i)
           first == CHOOSE n \in Candidates(w, c) : \A m \in Candidates(w, c) : n <= m
           k == worker[w].ready[c][first]
           j == Head(JobsOf(w, k))
       IN /\ worker' = [worker EXCEPT ![w].ready[c] = SubSeq(@, first + 1, Len(@)),
                                      ![w].keys[k] = Tail(@),
                                      ![w].active = @ \cup {k},
                                      ![w].byClass[c] = @ + 1,
                                      ![w].tasks = @ \cup {j},
                                      ![w].cursor = (@ + i + 1) % Len(FairCycle)]
          /\ Phase(j, "running")
    /\ UNCHANGED <<dispatch, mapping, inflight, usage, channel, remap, remaps, faults, shuttingDown>>

\* notify_drained(): no key of the slot is queued or active here.
Busy(w, s) == \E k \in Keys : KeySlot(k) = s /\ (JobsOf(w, k) # <<>> \/ k \in worker[w].active)

CanNotify(w) == ~worker[w].closed /\ \E b \in worker[w].barriers : ~Busy(w, b.slot)

Notify(w) ==
    /\ ~CanStart(w) /\ CanNotify(w)
    /\ LET drained == {b \in worker[w].barriers : ~Busy(w, b.slot)}
       IN /\ worker' = [worker EXCEPT ![w].barriers = @ \ drained]
          /\ remap' = [r \in Remappers |->
                IF remap[r].at = "awaiting" /\ \E b \in drained : b.call = remap[r].call
                THEN [remap[r] EXCEPT !.at = "drained"] ELSE remap[r]]
    /\ UNCHANGED <<dispatching, mapping, channel, remaps, faults, shuttingDown>>

\* The worker waits in select!: nothing more to start or to answer.
Waiting(w) == ~worker[w].closed /\ ~CanStart(w) /\ ~CanNotify(w)

\* make_ready(): the key's next job, under that job's class.
MadeReady(w, k) ==
    IF JobsOf(w, k) = <<>> THEN worker[w].ready
    ELSE [worker[w].ready EXCEPT ![ClassOf(Head(JobsOf(w, k)))] = Append(@, k)]

\* A handler returns: permit dropped, key idle, its next job ready.
Complete(w, j) ==
    /\ Waiting(w) /\ j \in worker[w].tasks
    /\ worker' = [worker EXCEPT ![w].tasks = @ \ {j}, ![w].active = @ \ {KeyOf(j)},
                                ![w].byClass[ClassOf(j)] = @ - 1,
                                ![w].ready = MadeReady(w, KeyOf(j))]
    /\ usage' = WithoutPermit(KeyOf(j))
    /\ Phase(j, "done")
    /\ UNCHANGED <<dispatch, mapping, inflight, channel, remap, remaps, faults, shuttingDown>>

\* A handler panics: the permit is dropped, but join_next() yields an error
\* and the key stays active, its class counted.
Panic(w, j) ==
    /\ Waiting(w) /\ j \in worker[w].tasks /\ faults < MaxFaults
    /\ faults' = faults + 1
    /\ worker' = [worker EXCEPT ![w].tasks = @ \ {j}]
    /\ usage' = WithoutPermit(KeyOf(j))
    /\ Phase(j, "dropped")
    /\ UNCHANGED <<dispatch, mapping, inflight, channel, remap, remaps, shuttingDown>>

\* A key enters its class's ready queue with its first waiting job.
ReadyWith(w, j) ==
    IF JobsOf(w, KeyOf(j)) = <<>> /\ KeyOf(j) \notin worker[w].active
    THEN [worker[w].ready EXCEPT ![ClassOf(j)] = Append(@, KeyOf(j))]
    ELSE worker[w].ready

Receive(w) ==
    /\ Waiting(w) /\ ~worker[w].stopping /\ channel[w] # <<>>
    /\ channel' = [channel EXCEPT ![w] = Tail(@)]
    /\ LET m == Head(channel[w])
       IN worker' =
            CASE m.type = "job" -> [worker EXCEPT ![w].keys[KeyOf(m.job)] = Append(@, m.job),
                                                  ![w].ready = ReadyWith(w, m.job)]
              [] m.type = "barrier" -> [worker EXCEPT ![w].barriers = @ \cup {[slot |-> m.slot, call |-> m.call]}]
              [] m.type = "shutdown" -> [worker EXCEPT ![w].stopping = TRUE]
    /\ UNCHANGED <<dispatching, mapping, remap, remaps, faults, shuttingDown>>

\* Permits of the jobs still in a channel that is dropped.
AfterDrop(w) ==
    LET lost(k) == Cardinality({i \in DOMAIN channel[w] :
                     channel[w][i].type = "job" /\ KeySlot(KeyOf(channel[w][i].job)) = k})
        all == Cardinality({i \in DOMAIN channel[w] : channel[w][i].type = "job"})
    IN [usage EXCEPT !.key = [s \in Slots |-> @[s] - lost(s)], !.global = @ - all]

\* The loop ends: the channel and the waiting barriers are dropped.
Close(w) ==
    /\ Waiting(w) /\ worker[w].stopping
    /\ worker[w].tasks = {} /\ \A k \in Keys : JobsOf(w, k) = <<>>
    /\ worker' = [worker EXCEPT ![w].closed = TRUE, ![w].barriers = {}]
    /\ channel' = [channel EXCEPT ![w] = <<>>]
    /\ jobs' = [j \in JobIds |-> IF \E i \in DOMAIN channel[w] : channel[w][i] = [type |-> "job", job |-> j]
                                 THEN [jobs[j] EXCEPT !.phase = "dropped"] ELSE jobs[j]]
    /\ usage' = AfterDrop(w)
    /\ UNCHANGED <<dispatch, inflight, mapping, remap, remaps, faults, shuttingDown>>

-----------------------------------------------------------------------------
(* drain_and_remap() and shutdown *)

BeginRemap(r, k, target) ==
    /\ remap[r].at = "idle" /\ remaps < MaxRemaps
    /\ ~mapping[KeySlot(k)].draining
    /\ remaps' = remaps + 1
    /\ mapping' = [mapping EXCEPT ![KeySlot(k)].draining = TRUE]
    /\ remap' = [remap EXCEPT ![r] = [at |-> "waiting", call |-> remaps + 1, slot |-> KeySlot(k), target |-> target,
                                      old |-> OwnerOf(mapping[KeySlot(k)], k)]]
    /\ UNCHANGED <<dispatching, channel, worker, faults, shuttingDown>>

\* No dispatch is in flight: the barrier goes behind every job sent before.
SendBarrier(r) ==
    /\ remap[r].at = "waiting" /\ inflight[remap[r].slot] = 0
    /\ ~worker[remap[r].old].closed /\ Len(channel[remap[r].old]) < QueueDepth
    /\ channel' = [channel EXCEPT ![remap[r].old] =
                    Append(@, [type |-> "barrier", slot |-> remap[r].slot, call |-> remap[r].call])]
    /\ remap' = [remap EXCEPT ![r].at = "awaiting"]
    /\ UNCHANGED <<dispatching, mapping, worker, remaps, faults, shuttingDown>>

FinishRemap(r) ==
    /\ remap[r].at = "drained"
    /\ mapping' = [mapping EXCEPT ![remap[r].slot] = [worker |-> remap[r].target + 1, draining |-> FALSE]]
    /\ remap' = [remap EXCEPT ![r] = NoRemap]
    /\ UNCHANGED <<dispatching, channel, worker, remaps, faults, shuttingDown>>

\* The deadline passes or the worker is gone: the old state is stored back.
AbortRemap(r) ==
    /\ remap[r].at \in {"waiting", "awaiting"}
    /\ mapping' = [mapping EXCEPT ![remap[r].slot].draining = FALSE]
    /\ remap' = [remap EXCEPT ![r] = NoRemap]
    /\ UNCHANGED <<dispatching, channel, worker, remaps, faults, shuttingDown>>

\* The future is dropped: nobody takes the DRAINING bit away.
CancelRemap(r) ==
    /\ remap[r].at \in {"waiting", "awaiting"} /\ faults < MaxFaults
    /\ faults' = faults + 1
    /\ remap' = [remap EXCEPT ![r] = NoRemap]
    /\ UNCHANGED <<dispatching, mapping, channel, worker, remaps, shuttingDown>>

\* try_shutdown(): a full channel does not get the message.
TryShutdown ==
    /\ ~shuttingDown /\ faults < MaxFaults
    /\ shuttingDown' = TRUE /\ faults' = faults + 1
    /\ channel' = [w \in Workers |-> IF worker[w].closed \/ Len(channel[w]) >= QueueDepth THEN channel[w]
                                     ELSE Append(channel[w], [type |-> "shutdown"])]
    /\ UNCHANGED <<dispatching, mapping, worker, remap, remaps>>

DispatchStep(d) == LoadMapping(d) \/ RefuseDraining(d) \/ Reserve(d) \/ RefuseBudget(d)
                     \/ Send(d) \/ FinishDispatch(d)
WorkerStep(w) == Start(w) \/ Notify(w) \/ Receive(w) \/ Close(w) \/ \E j \in JobIds : Complete(w, j)
RemapStep(r) == SendBarrier(r) \/ FinishRemap(r)

KeyedNext ==
    \/ \E j \in JobIds : BeginDispatch(j)
    \/ \E d \in Dispatchers : DispatchStep(d) \/ SendFails(d) \/ CancelDispatch(d)
    \/ \E w \in Workers : WorkerStep(w) \/ \E j \in JobIds : Panic(w, j)
    \/ \E r \in Remappers : \/ \E k \in Keys, target \in Workers : BeginRemap(r, k, target)
                            \/ RemapStep(r) \/ AbortRemap(r) \/ CancelRemap(r)
    \/ TryShutdown

KeyedSpec == KeyedInit /\ [][KeyedNext]_keyedVars

-----------------------------------------------------------------------------
(* Jobs of a key run one at a time, over all workers, and a job starts     *)
(* only after every job whose dispatch() had returned before its own call: *)
(* a slot moved between workers keeps the order of its keys.  The          *)
(* exception are slots whose keys have not all the same default worker (a  *)
(* number of workers that does not divide key_slots): drain_and_remap()    *)
(* drains the worker of the one key that it is given.                      *)
OneDefault(s) == \A k, m \in Keys : KeySlot(k) = s /\ KeySlot(m) = s => k % WorkerCount = m % WorkerCount
Ordered(j) == OneDefault(KeySlot(KeyOf(j)))
KeyOrder == \A j \in JobIds : Ordered(j) =>
    /\ jobs[j].phase = "running" => \A i \in JobIds \ {j} : jobs[i].phase = "running" => KeyOf(i) # KeyOf(j)
    /\ jobs[j].phase \in {"running", "done"} => \A i \in jobs[j].after : jobs[i].phase \in {"done", "dropped"}

(* Every budget counts exactly the requests that hold a permit or are      *)
(* taking one, whatever refusals, deadlines, panics and dropped channels   *)
(* did: an idle runtime has its whole budget back.                         *)
Holds(j) == jobs[j].phase \in {"queued", "running"} \/ \E d \in Dispatchers :
              dispatch[d].at = "sending" /\ dispatch[d].job = j
BudgetsExact ==
    /\ usage.global = Cardinality({j \in JobIds : Holds(j)})
    /\ \A s \in Slots : usage.key[s] = Cardinality({j \in JobIds : Holds(j) /\ KeySlot(KeyOf(j)) = s})
         + Cardinality({d \in Dispatchers : dispatch[d].at = "reserveGlobal" /\ SlotOf(d) = s})

(* No job is stranded: a key with waiting jobs is active or stands exactly *)
(* once in the ready queues, under the class of its first job.             *)
ReadyExact == \A w \in Workers, k \in Keys :
    LET entries(c) == Cardinality({i \in DOMAIN worker[w].ready[c] : worker[w].ready[c][i] = k})
    IN \A c \in Classes : entries(c) =
         IF JobsOf(w, k) # <<>> /\ k \notin worker[w].active /\ ClassOf(Head(JobsOf(w, k))) = c THEN 1 ELSE 0

(* The three together.                                                     *)
JobsInOrder == KeyOrder /\ BudgetsExact /\ ReadyExact
=============================================================================
