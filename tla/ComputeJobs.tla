---------------------------- MODULE ComputeJobs ----------------------------
(***************************************************************************)
(* Compute jobs (pepper-agent compute.rs, with the compute service of      *)
(* network_services.rs and the job table of main.rs).  The node a job is   *)
(* submitted to collects offers and hands the job to itself or to another  *)
(* node, for which it keeps a delegated proxy record.  The executing node  *)
(* persists the job, runs it in a task (a queue slot, a semaphore, a VM    *)
(* with a guest CID) and may be asked to cancel it at any time.  Tasks end *)
(* by themselves or are aborted at their next await; the streams of a VM's *)
(* events write the job's record from a thread that cannot be aborted.     *)
(*                                                                         *)
(* Inputs, images, logs and the VM itself are left out: a VM ends well or  *)
(* badly, or does not end before its timeout.  A status is what the record *)
(* says; its receipt stands for the results stored with it.                *)
(***************************************************************************)
EXTENDS Naturals, Sequences, FiniteSets

CONSTANTS
    Nodes,
    Jobs,
    Origin,         \* [Jobs -> Nodes]: where the client submits
    CidCount,       \* guest CIDs; a job's hash is HashOf[j]
    HashOf,
    Cancelers, Pollers,
    Scenarios       \* sent: the jobs; queue: compute_queue_limit; slots: max_concurrent_jobs; addresses: of
                    \* another node; cancels, polls, restarts, losses: what clients and faults do; race: what writes without the state lock may
                    \* come between the last look of a cancel and its record; dup: submits of one job may overlap

VARIABLES
    rec,            \* the job tables
    task,           \* the tasks
    handle,         \* compute_tasks: the abort handles
    lock,           \* compute_state_lock
    stream,         \* the threads that write events
    sub,            \* the submissions
    inbox,          \* the submits that arrived
    canc, poll,     \* the clients' cancels and status requests
    first,          \* the first final status of each record
    faults, scenario

vars == <<rec, task, handle, lock, stream, sub, inbox, canc, poll, first, faults, scenario>>

Final == {"succeeded", "failed", "timed_out", "canceled"}
Statuses == Final \cup {"none", "queued", "running", "delegated"}
NoNode == "nowhere"
NoRec == [status |-> "none", to |-> NoNode, receipt |-> "none"]
Job(status) == [NoRec EXCEPT !.status = status]
NoTask == [pc |-> "none", aborted |-> FALSE, cid |-> 0]
NoCancel == [pc |-> "new", job |-> CHOOSE j \in Jobs : TRUE, at |-> NoNode, rec |-> NoRec, proxy |-> NoNode, old |-> NoRec]
NoPoll == [pc |-> "new", job |-> CHOOSE j \in Jobs : TRUE, rec |-> NoRec, remote |-> NoRec]

TypeOK ==
    /\ \A n \in Nodes, j \in Jobs :
         /\ rec[n][j].status \in Statuses /\ first[n][j] \in Final \cup {"none"}
         /\ task[n][j].pc \in {"none", "queued", "starting", "prepare", "vm", "finish"}
         /\ handle[n][j] \in {"none", "live", "dead"}
    /\ \A n \in Nodes : lock[n] \in {"free"} \cup Jobs \cup Cancelers
    /\ \A c \in Cancelers : canc[c].pc \in {"new", "wait", "vsock", "kill", "answer", "done", "failed"}

Init ==
    /\ rec = [n \in Nodes |-> [j \in Jobs |-> NoRec]]
    /\ task = [n \in Nodes |-> [j \in Jobs |-> NoTask]]
    /\ handle = [n \in Nodes |-> [j \in Jobs |-> "none"]]
    /\ lock = [n \in Nodes |-> "free"]
    /\ stream = [n \in Nodes |-> [j \in Jobs |-> NoRec]]
    /\ sub = [j \in Jobs |-> [pc |-> "new", offers |-> <<>>]]
    /\ inbox = {}
    /\ canc = [c \in Cancelers |-> NoCancel] /\ poll = [p \in Pollers |-> NoPoll]
    /\ first = [n \in Nodes |-> [j \in Jobs |-> "none"]]
    /\ faults = [restarts |-> 0, losses |-> 0]
    /\ scenario \in Scenarios

----------------------------------------------------------------------------
(* The job table.                                                          *)

\* persist_job(): a record with a final status keeps that status
PersistAnyway(old, new) == TRUE
MayPersist(old, new) == old.status \notin Final \/ old.status = new.status
Persisted(n, j, new) == IF MayPersist(rec[n][j], new) THEN new ELSE rec[n][j]
Persist(n, j, new) ==
    LET r == Persisted(n, j, new)
    IN /\ rec' = [rec EXCEPT ![n][j] = r]
       /\ first' = IF r.status \in Final /\ first[n][j] = "none" THEN [first EXCEPT ![n][j] = r.status] ELSE first

----------------------------------------------------------------------------
(* Scheduling.                                                             *)

QueueLimit == scenario.queue
MaxConcurrent == scenario.slots
Queued(n) == {j \in Jobs : task[n][j].pc # "none"}

\* local_compute_offer()
Accepts(n) == Cardinality(Queued(n)) < QueueLimit

\* schedule_compute_job(): the offers, one for each address, in an order that inputs and load decide
Orders(set) == {s \in [1 .. Cardinality(set) -> set] : \A x, y \in DOMAIN s : x # y => s[x] # s[y]}
CollectOffers(j) ==
    /\ j \in scenario.sent /\ sub[j].pc = "new"
    /\ LET accepting == {n \in Nodes : Accepts(n)}
           offers == UNION {{<<n, a>> : a \in 1 .. IF n = Origin[j] THEN 1 ELSE scenario.addresses} : n \in accepting}
       IN \E order \in Orders(offers) :
            sub' = [sub EXCEPT ![j] = [pc |-> IF offers = {} THEN "refused" ELSE "try", offers |-> order]]
    /\ UNCHANGED <<rec, task, handle, lock, stream, inbox, canc, poll, first, faults, scenario>>

\* spawn_compute_job(): a full queue, or a job with a task, is an error, but the handle is replaced first
SpawnFails(n, j) == ~Accepts(n) \/ handle[n][j] # "none"
Spawn(n, j) ==
    /\ task' = IF SpawnFails(n, j) THEN task ELSE [task EXCEPT ![n][j] = [NoTask EXCEPT !.pc = "queued"]]
    /\ handle' = IF ~Accepts(n) THEN handle ELSE [handle EXCEPT ![n][j] = IF SpawnFails(n, j) THEN "dead" ELSE "live"]

\* the job is persisted as queued and spawned, or persisted as failed
Enqueue(n, j) ==
    /\ Persist(n, j, Job(IF SpawnFails(n, j) THEN "failed" ELSE "queued"))
    /\ Spawn(n, j)

ScheduleLocal(j) ==
    LET n == Origin[j]
    IN /\ sub[j].pc = "try" /\ sub[j].offers # <<>> /\ Head(sub[j].offers)[1] = n
       /\ Enqueue(n, j)
       /\ sub' = [sub EXCEPT ![j] = [pc |-> IF SpawnFails(n, j) THEN "refused" ELSE "done", offers |-> <<>>]]
       /\ UNCHANGED <<lock, stream, inbox, canc, poll, faults, scenario>>

ScheduleRemote(j) ==
    /\ sub[j].pc = "try" /\ sub[j].offers # <<>> /\ Head(sub[j].offers)[1] # Origin[j]
    /\ sub' = [sub EXCEPT ![j].pc = "sent"]
    /\ inbox' = inbox \cup {[node |-> Head(sub[j].offers)[1], offer |-> Head(sub[j].offers), job |-> j, seen |-> FALSE, answer |-> "none"]}
    /\ UNCHANGED <<rec, task, handle, lock, stream, canc, poll, first, faults, scenario>>

\* AgentComputeService::submit(): an existing job is the answer ..
SubmitLoad(m) ==
    LET old == rec[m.node][m.job]
    IN /\ ~m.seen /\ m.answer = "none" /\ (scenario.dup \/ ~\E o \in inbox : o.seen /\ o.node = m.node /\ o.job = m.job /\ o.answer = "none")
       /\ inbox' = (inbox \ {m}) \cup
            {IF old.status # "none" THEN [m EXCEPT !.seen = TRUE, !.answer = old.status]
             ELSE IF ~Accepts(m.node) THEN [m EXCEPT !.seen = TRUE, !.answer = "error"] ELSE [m EXCEPT !.seen = TRUE]}
       /\ UNCHANGED <<rec, task, handle, lock, stream, sub, canc, poll, first, faults, scenario>>

\* .. a new one is persisted and spawned
SubmitSpawn(m) ==
    /\ m.seen /\ m.answer = "none"
    /\ Enqueue(m.node, m.job)
    /\ inbox' = (inbox \ {m}) \cup {[m EXCEPT !.answer = IF SpawnFails(m.node, m.job) THEN "error" ELSE "queued"]}
    /\ UNCHANGED <<lock, stream, sub, canc, poll, faults, scenario>>

\* the answer: a proxy is kept for an accepted job; after an error, or without an answer, the next offer is tried
Answered(j) ==
    /\ sub[j].pc = "sent"
    /\ \E m \in inbox :
         /\ m.job = j /\ m.offer = Head(sub[j].offers) /\ m.answer # "none"
         /\ sub' = [sub EXCEPT ![j] = IF m.answer = "error" THEN [pc |-> "try", offers |-> Tail(sub[j].offers)]
                                      ELSE [pc |-> "done", offers |-> <<>>]]
         /\ Persist(Origin[j], j, IF m.answer = "error" THEN NoRec ELSE [Job("delegated") EXCEPT !.to = m.node])
         /\ inbox' = inbox \ {m}
    /\ UNCHANGED <<task, handle, lock, stream, canc, poll, faults, scenario>>

Unanswered(j) ==
    /\ sub[j].pc = "sent" /\ faults.losses < scenario.losses
    /\ faults' = [faults EXCEPT !.losses = @ + 1]
    /\ sub' = [sub EXCEPT ![j] = [pc |-> "try", offers |-> Tail(sub[j].offers)]]
    /\ UNCHANGED <<rec, task, handle, lock, stream, inbox, canc, poll, first, scenario>>

OutOfOffers(j) ==
    /\ sub[j].pc = "try" /\ sub[j].offers = <<>>
    /\ sub' = [sub EXCEPT ![j].pc = "refused"]
    /\ UNCHANGED <<rec, task, handle, lock, stream, inbox, canc, poll, first, faults, scenario>>

----------------------------------------------------------------------------
(* The task of a job.  An aborted task is dropped where it waits.          *)

Holding(n) == {j \in Jobs : task[n][j].pc \in {"starting", "prepare", "vm", "finish"}}
Live(n, j) == task[n][j].pc # "none" /\ ~task[n][j].aborted

\* a task that ends, well or not, takes its handle out of the map
Ended(n, j) ==
    /\ task' = [task EXCEPT ![n][j] = NoTask]
    /\ handle' = [handle EXCEPT ![n][j] = "none"]

\* execute_compute_job(): a permit ..
AcquirePermit(n, j) ==
    /\ Live(n, j) /\ task[n][j].pc = "queued" /\ Cardinality(Holding(n)) < MaxConcurrent
    /\ task' = [task EXCEPT ![n][j].pc = "starting"]
    /\ UNCHANGED <<rec, handle, lock, stream, sub, inbox, canc, poll, first, faults, scenario>>

\* .. and, with the state lock for the step, the status
StartJob(n, j) ==
    /\ Live(n, j) /\ task[n][j].pc = "starting" /\ lock[n] = "free"
    /\ Persist(n, j, [rec[n][j] EXCEPT !.status = "running"])
    /\ task' = [task EXCEPT ![n][j] = IF rec[n][j].status = "canceled" THEN NoTask ELSE [@ EXCEPT !.pc = "prepare"]]
    /\ handle' = [handle EXCEPT ![n][j] = IF rec[n][j].status = "canceled" THEN "none" ELSE @]
    /\ UNCHANGED <<lock, stream, sub, inbox, canc, poll, faults, scenario>>

\* allocate_firecracker_guest_cid(): the first free one from the job's hash on
Taken(n) == {task[n][j].cid : j \in Jobs}
FreeSteps(n, j) == {k \in 0 .. QueueLimit : 1 + ((HashOf[j] + k) % CidCount) \notin Taken(n)}
GuestCid(n, j) == 1 + ((HashOf[j] + CHOOSE k \in FreeSteps(n, j) : \A i \in FreeSteps(n, j) : k <= i) % CidCount)

\* execute_firecracker_job() up to the VM's start
StartVm(n, j) ==
    /\ Live(n, j) /\ task[n][j].pc = "prepare" /\ FreeSteps(n, j) # {}
    /\ task' = [task EXCEPT ![n][j].pc = "vm", ![n][j].cid = GuestCid(n, j)]
    /\ UNCHANGED <<rec, handle, lock, stream, sub, inbox, canc, poll, first, faults, scenario>>

\* an error anywhere on the way: spawn_compute_job() records it unless the job is canceled
TaskFails(n, j) ==
    /\ Live(n, j) /\ task[n][j].pc \in {"prepare", "vm", "finish"}
    /\ Persist(n, j, IF rec[n][j].status = "canceled" THEN rec[n][j] ELSE [rec[n][j] EXCEPT !.status = "failed"])
    /\ Ended(n, j)
    /\ UNCHANGED <<lock, stream, sub, inbox, canc, poll, faults, scenario>>

\* the VM ends; its results are stored and the task waits for the state lock
VmExits(n, j) ==
    /\ Live(n, j) /\ task[n][j].pc = "vm"
    /\ task' = [task EXCEPT ![n][j].pc = "finish"]
    /\ UNCHANGED <<rec, handle, lock, stream, sub, inbox, canc, poll, first, faults, scenario>>

\* the timeout is recorded without the state lock
VmTimesOut(n, j) ==
    /\ Live(n, j) /\ task[n][j].pc = "vm"
    /\ Persist(n, j, [rec[n][j] EXCEPT !.status = "timed_out"])
    /\ Ended(n, j)
    /\ UNCHANGED <<lock, stream, sub, inbox, canc, poll, faults, scenario>>

FinishJob(n, j, ok) ==
    LET status == IF rec[n][j].status = "canceled" THEN "canceled" ELSE IF ok THEN "succeeded" ELSE "failed"
    IN /\ Live(n, j) /\ task[n][j].pc = "finish" /\ lock[n] = "free"
       /\ Persist(n, j, [rec[n][j] EXCEPT !.status = status, !.receipt = status])
       /\ Ended(n, j)
       /\ UNCHANGED <<lock, stream, sub, inbox, canc, poll, faults, scenario>>

\* the guards of a dropped task kill its VM and give back its slots and CID
Dropped(n, j) ==
    /\ task[n][j].pc # "none" /\ task[n][j].aborted
    /\ task' = [task EXCEPT ![n][j] = NoTask]
    /\ UNCHANGED <<rec, handle, lock, stream, sub, inbox, canc, poll, first, faults, scenario>>

\* append_attempt_event_by_job_id() reads the record and writes it back
EventLoad(n, j) ==
    /\ stream[n][j] = NoRec /\ task[n][j].pc = "vm"
    /\ stream' = [stream EXCEPT ![n][j] = rec[n][j]]
    /\ UNCHANGED <<rec, task, handle, lock, sub, inbox, canc, poll, first, faults, scenario>>
EventPersist(n, j) ==
    /\ stream[n][j] # NoRec
    /\ Persist(n, j, stream[n][j])
    /\ stream' = [stream EXCEPT ![n][j] = NoRec]
    /\ UNCHANGED <<task, handle, lock, sub, inbox, canc, poll, faults, scenario>>

----------------------------------------------------------------------------
(* Cancels and status requests.                                            *)

SetCancel(c, to) == canc' = [canc EXCEPT ![c] = to]

\* cancel_compute_job_by_id(): a delegated job is canceled where it runs
CancelLoad(c, j) ==
    LET r == rec[Origin[j]][j]
    IN /\ canc[c].pc = "new" /\ c \in scenario.cancels /\ r.status # "none"
       /\ SetCancel(c, IF r.status = "delegated"
                       THEN [NoCancel EXCEPT !.pc = "wait", !.job = j, !.at = r.to, !.proxy = Origin[j], !.old = r]
                       ELSE [NoCancel EXCEPT !.pc = "wait", !.job = j, !.at = Origin[j]])
       /\ UNCHANGED <<rec, task, handle, lock, stream, sub, inbox, poll, first, faults, scenario>>

Abort(n, j) ==
    /\ task' = IF handle[n][j] = "live" THEN [task EXCEPT ![n][j].aborted = TRUE] ELSE task
    /\ handle' = [handle EXCEPT ![n][j] = "none"]

\* with the state lock: a queued job is canceled, the guest of a running one is asked to stop, others are answered
CancelLocked(c) ==
    LET n == canc[c].at
        j == canc[c].job
        r == rec[n][j]
    IN /\ canc[c].pc = "wait" /\ lock[n] = "free"
       /\ CASE r.status = "queued" ->
                 /\ Persist(n, j, [r EXCEPT !.status = "canceled"]) /\ Abort(n, j) /\ UNCHANGED lock
                 /\ SetCancel(c, [canc[c] EXCEPT !.pc = "answer", !.rec = [r EXCEPT !.status = "canceled"]])
            [] r.status = "running" ->
                 /\ lock' = [lock EXCEPT ![n] = c]
                 /\ SetCancel(c, [canc[c] EXCEPT !.pc = "vsock", !.rec = r])
                 /\ UNCHANGED <<rec, first, task, handle>>
            [] OTHER ->
                 /\ SetCancel(c, [canc[c] EXCEPT !.pc = IF r.status \in Final THEN "answer" ELSE "failed", !.rec = r])
                 /\ UNCHANGED <<rec, first, task, handle, lock>>
       /\ UNCHANGED <<stream, sub, inbox, poll, faults, scenario>>

\* after the request to the guest and two seconds: a job that has ended is answered, another will be killed
CancelLook(c) ==
    LET n == canc[c].at
        r == rec[n][canc[c].job]
    IN /\ canc[c].pc = "vsock"
       /\ lock' = IF r.status \in Final THEN [lock EXCEPT ![n] = "free"] ELSE lock
       /\ SetCancel(c, IF r.status \in Final THEN [canc[c] EXCEPT !.pc = "answer", !.rec = r] ELSE [canc[c] EXCEPT !.pc = "kill"])
       /\ UNCHANGED <<rec, task, handle, stream, sub, inbox, poll, first, faults, scenario>>

\* the task is aborted and the job, as it was when the cancel began, becomes canceled
CancelKill(c) ==
    LET n == canc[c].at
        j == canc[c].job
        r == [canc[c].rec EXCEPT !.status = "canceled"]
    IN /\ canc[c].pc = "kill" /\ (scenario.race \/ rec[n][j].status \notin Final)
       /\ Abort(n, j) /\ Persist(n, j, r)
       /\ lock' = [lock EXCEPT ![n] = "free"]
       /\ SetCancel(c, [canc[c] EXCEPT !.pc = "answer", !.rec = r])
       /\ UNCHANGED <<stream, sub, inbox, poll, faults, scenario>>

\* the answer comes to the client; a proxy takes its status from it
CancelAnswer(c) ==
    /\ canc[c].pc = "answer"
    /\ IF canc[c].proxy = NoNode THEN UNCHANGED <<rec, first>>
       ELSE Persist(canc[c].proxy, canc[c].job, [canc[c].old EXCEPT !.status = canc[c].rec.status])
    /\ SetCancel(c, [canc[c] EXCEPT !.pc = "done"])
    /\ UNCHANGED <<task, handle, lock, stream, sub, inbox, poll, faults, scenario>>

\* a client that goes away drops the cancel where it waits, with its lock; of a delegated job the request may be on
\* its way still, or else the other node goes on with it and nobody takes its answer
CancelDropped(c) ==
    LET remote == canc[c].proxy # NoNode
    IN /\ canc[c].pc \in {"wait", "vsock", "kill", "answer"} /\ faults.losses < scenario.losses
       /\ faults' = [faults EXCEPT !.losses = @ + 1]
       /\ \/ /\ canc[c].pc = "wait" \/ (canc[c].pc = "vsock" /\ ~remote)
             /\ lock' = [n \in Nodes |-> IF lock[n] = c THEN "free" ELSE lock[n]]
             /\ SetCancel(c, [NoCancel EXCEPT !.pc = "failed"])
          \/ remote /\ SetCancel(c, [canc[c] EXCEPT !.proxy = NoNode]) /\ UNCHANGED lock
       /\ UNCHANGED <<rec, task, handle, stream, sub, inbox, poll, first, scenario>>

\* compute_job_status() of a delegated job: a final status comes with everything the other node has
PollLoad(p, j) ==
    /\ p \in scenario.polls /\ poll[p].pc = "new" /\ rec[Origin[j]][j].status = "delegated"
    /\ poll' = [poll EXCEPT ![p] = [pc |-> "ask", job |-> j, rec |-> rec[Origin[j]][j],
                                    remote |-> rec[rec[Origin[j]][j].to][j]]]
    /\ UNCHANGED <<rec, task, handle, lock, stream, sub, inbox, canc, first, faults, scenario>>
PollPersist(p) ==
    LET j == poll[p].job
    IN /\ poll[p].pc = "ask"
       /\ IF poll[p].remote.status \in Final
          THEN Persist(Origin[j], j, [poll[p].remote EXCEPT !.to = poll[p].rec.to])
          ELSE UNCHANGED <<rec, first>>
       /\ poll' = [poll EXCEPT ![p] = NoPoll]
       /\ UNCHANGED <<task, handle, lock, stream, sub, inbox, canc, faults, scenario>>

----------------------------------------------------------------------------
(* A restart: recover_compute_jobs() fails what was running and spawns     *)
(* what was queued, as far as the queue has room.                          *)
Restart(n) ==
    /\ faults.restarts < scenario.restarts
    /\ faults' = [faults EXCEPT !.restarts = @ + 1]
    /\ \E spawned \in SUBSET {j \in Jobs : rec[n][j].status = "queued"} :
         LET queued == {j \in Jobs : rec[n][j].status = "queued"}
             lost == {j \in Jobs : rec[n][j].status = "running"} \cup (queued \ spawned)
         IN /\ Cardinality(spawned) <= QueueLimit /\ (spawned # queued => Cardinality(spawned) = QueueLimit)
            /\ rec' = [rec EXCEPT ![n] = [j \in Jobs |-> IF j \in lost THEN [@[j] EXCEPT !.status = "failed"] ELSE @[j]]]
            /\ first' = [first EXCEPT ![n] = [j \in Jobs |-> IF j \in lost THEN "failed" ELSE @[j]]]
            /\ task' = [task EXCEPT ![n] = [j \in Jobs |-> IF j \in spawned THEN [NoTask EXCEPT !.pc = "queued"] ELSE NoTask]]
            /\ handle' = [handle EXCEPT ![n] = [j \in Jobs |-> IF j \in spawned THEN "live" ELSE "none"]]
    /\ lock' = [lock EXCEPT ![n] = "free"]
    /\ stream' = [stream EXCEPT ![n] = [j \in Jobs |-> NoRec]]
    /\ sub' = [j \in Jobs |-> IF Origin[j] = n /\ sub[j].pc \in {"try", "sent"} THEN [pc |-> "refused", offers |-> <<>>] ELSE sub[j]]
    /\ inbox' = {m \in inbox : m.node # n}
    /\ canc' = [c \in Cancelers |-> IF canc[c].at = n /\ canc[c].pc \notin {"new", "done", "failed"}
                                    THEN [NoCancel EXCEPT !.pc = "failed"]
                                    ELSE IF canc[c].proxy = n THEN [canc[c] EXCEPT !.proxy = NoNode] ELSE canc[c]]
    /\ poll' = [p \in Pollers |-> IF poll[p].pc = "ask" /\ Origin[poll[p].job] = n THEN NoPoll ELSE poll[p]]
    /\ UNCHANGED scenario

Next ==
    \/ \E j \in Jobs : CollectOffers(j) \/ ScheduleLocal(j) \/ ScheduleRemote(j) \/ Answered(j) \/ Unanswered(j) \/ OutOfOffers(j)
    \/ \E m \in inbox : SubmitLoad(m) \/ SubmitSpawn(m)
    \/ \E n \in Nodes, j \in Jobs :
         \/ AcquirePermit(n, j) \/ StartJob(n, j) \/ StartVm(n, j) \/ TaskFails(n, j) \/ VmExits(n, j) \/ VmTimesOut(n, j)
         \/ \E ok \in BOOLEAN : FinishJob(n, j, ok)
         \/ Dropped(n, j) \/ EventLoad(n, j) \/ EventPersist(n, j)
    \/ \E c \in Cancelers : CancelLocked(c) \/ CancelLook(c) \/ CancelKill(c) \/ CancelAnswer(c) \/ CancelDropped(c)
    \/ \E c \in Cancelers, j \in Jobs : CancelLoad(c, j)
    \/ \E p \in Pollers : PollPersist(p) \/ \E j \in Jobs : PollLoad(p, j)
    \/ \E n \in Nodes : Restart(n)

Spec == Init /\ [][Next]_vars

----------------------------------------------------------------------------
(* No job is forgotten: a record that says queued or running has a task    *)
(* that will end it.                                                       *)
NoOrphan == \A n \in Nodes, j \in Jobs : rec[n][j].status \in {"queued", "running"} => Live(n, j)

(* A cancel that is answered "canceled" has stopped the job: its task is   *)
(* gone or about to be dropped, now and after a restart.                   *)
CanceledStops ==
    \A c \in Cancelers :
       canc[c].pc = "done" /\ canc[c].rec.status = "canceled" =>
          /\ rec[canc[c].at][canc[c].job].status = "canceled"
          /\ ~Live(canc[c].at, canc[c].job)

(* A final status stays, whichever of the task, a cancel, an event or a    *)
(* status request writes later; the proxy of a job ends as the job did;    *)
(* a receipt is for the status it is stored with.                          *)
FinalKept ==
    \A n \in Nodes, j \in Jobs :
       /\ first[n][j] # "none" => rec[n][j].status = first[n][j]
       /\ rec[n][j].status \in Final /\ rec[n][j].to # NoNode => rec[rec[n][j].to][j].status = rec[n][j].status
       /\ rec[n][j].receipt \in {"none", rec[n][j].status}

(* The limits of a node hold, and the VMs of a node have different CIDs.   *)
WithinLimits ==
    \A n \in Nodes :
       /\ Cardinality(Queued(n)) <= QueueLimit /\ Cardinality(Holding(n)) <= MaxConcurrent
       /\ \A i, j \in Jobs : i # j /\ task[n][i].cid # 0 => task[n][i].cid # task[n][j].cid

ComputeSound == NoOrphan /\ CanceledStops /\ FinalKept /\ WithinLimits
=============================================================================
