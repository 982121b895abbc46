------------------------ MODULE DurabilityScheduler ------------------------
(***************************************************************************)
(* pepper-durability: threads of the block engine and the extent store     *)
(* write, then call submit(); one scheduler thread gathers the requests    *)
(* into batches and pays one barrier for each (device, ordering) of a      *)
(* batch.  A request is named by its place in Requests.  A barrier is what *)
(* the BarrierTarget contract says: it makes durable what was written to   *)
(* its device before it began, or fails and promises nothing.              *)
(***************************************************************************)
EXTENDS Naturals, Sequences, FiniteSets

CONSTANTS
    Requests,           \* the submit() calls: caller, targets (devices), ordering, bytes, class,
                        \* whether there is a deadline
    MaximumRequests,    \* maximum_requests
    MaximumBatchBytes,  \* maximum_batch_bytes
    QueueDepth,         \* queue_depth
    MaxFailures,        \* bound on the barriers that fail
    MaxCancels          \* bound on the cancellations

Ids == DOMAIN Requests
Submitters == {Requests[r].by : r \in Ids}
Devices == UNION {Requests[r].targets : r \in Ids}
Groups == Devices \X {Requests[r].ordering : r \in Ids}

\* Device ids and ordering keys are the integers by which a BTreeMap sorts.
ASSUME SchedulerAssumption ==
    /\ Ids \subseteq Nat /\ Groups \subseteq Nat \X Nat /\ \A r \in Ids : Requests[r].bytes \in Nat
    /\ MaximumRequests \in Nat \ {0} /\ MaximumBatchBytes \in Nat /\ QueueDepth \in Nat
    /\ MaxFailures \in Nat /\ MaxCancels \in Nat

VARIABLES
    call,       \* where each submit() is: "none", "sending", "waiting", "returned"
    cancelled,  \* requests whose Cancellation is set
    expired,    \* requests whose deadline has passed
    channel,    \* the bounded sync_channel
    worker,     \* where scheduler_loop() is
    batch,      \* the batch; while answering, the part not yet answered
    batchBytes, \* batch_bytes
    deferred,   \* requests the loop put off: none or one
    groups,     \* barriers of the batch still to run
    outcomes,   \* outcomes: a proof's sequence by group, 0 for an error
    barriers,   \* metrics.device_barriers
    failures,   \* barriers that failed
    reply,     \* what each submit() returned
    written, durable,   \* per device: the requests whose data is written, is durable
    entered, executed   \* the order requests entered the channel, were executed in

caching == <<written, durable>>
gathered == <<batch, batchBytes>>
schedulerVars == <<call, cancelled, expired, channel, worker, gathered, deferred, groups, outcomes, barriers, failures,
                   reply, caching, entered, executed>>

NoReply == [result |-> "none", proofs |-> {}]
Results == {"none", "receipt", "missing_target", "cancelled", "deadline", "barrier", "closed"}

SchedulerTypeOK ==
    /\ call \in [Ids -> {"none", "sending", "waiting", "returned"}]
    /\ cancelled \subseteq Ids /\ expired \subseteq Ids
    /\ channel \in Seq(Ids) /\ Len(channel) <= QueueDepth
    /\ worker \in {"recv", "gather", "execute", "barriers", "answer", "ended"}
    /\ batch \in Seq(Ids) /\ batchBytes \in Nat /\ deferred \in Seq(Ids) /\ Len(deferred) <= 1
    /\ groups \subseteq Groups
    /\ barriers \in Nat /\ failures \in 0 .. MaxFailures
    /\ DOMAIN outcomes \subseteq Groups /\ \A g \in DOMAIN outcomes : outcomes[g] \in 0 .. barriers
    /\ reply \in [Ids -> [result : Results, proofs : SUBSET Nat]]
    /\ written \in [Devices -> SUBSET Ids] /\ durable \in [Devices -> SUBSET Ids]
    /\ entered \in Seq(Ids) /\ executed \in Seq(Ids)

SchedulerInit ==
    /\ call = [r \in Ids |-> "none"] /\ reply = [r \in Ids |-> NoReply]
    /\ cancelled = {} /\ expired = {}
    /\ channel = <<>> /\ worker = "recv" /\ batch = <<>> /\ batchBytes = 0 /\ deferred = <<>>
    /\ groups = {} /\ outcomes = [g \in {} |-> 0] /\ barriers = 0 /\ failures = 0
    /\ written = [d \in Devices |-> {}] /\ durable = [d \in Devices |-> {}]
    /\ entered = <<>> /\ executed = <<>>

-----------------------------------------------------------------------------
(* submit() *)

Busy(c) == \E r \in Ids : Requests[r].by = c /\ call[r] \in {"sending", "waiting"}
Return(r, a) == call' = [call EXCEPT ![r] = "returned"] /\ reply' = [reply EXCEPT ![r] = a]

\* Early returns, in the code's order.
Refusal(r) ==
    IF Requests[r].targets = {} /\ Requests[r].class \notin {"Volatile", "LocalBuffered"} THEN "missing_target"
    ELSE IF r \in cancelled THEN "cancelled"
    ELSE IF r \in expired THEN "deadline" ELSE "none"

\* A caller writes to its targets and calls submit().
SubmitRequest(r) ==
    /\ call[r] = "none" /\ ~Busy(Requests[r].by) /\ worker # "ended"
    /\ \A q \in Ids : q < r /\ Requests[q].by = Requests[r].by => call[q] = "returned"
    /\ written' = [d \in Devices |-> IF d \in Requests[r].targets THEN written[d] \cup {r} ELSE written[d]]
    /\ IF Refusal(r) = "none"
       THEN call' = [call EXCEPT ![r] = "sending"] /\ UNCHANGED reply
       ELSE Return(r, [NoReply EXCEPT !.result = Refusal(r)])
    /\ UNCHANGED <<cancelled, expired, channel, worker, gathered, deferred, groups, outcomes, barriers, failures,
                   durable, entered, executed>>

OneMore(r) == Len(channel) <= QueueDepth     \* the channel takes one too many

HasRoom(r) == Len(channel) < QueueDepth

\* sender.send() blocks until the channel has room.
Enter(r) ==
    /\ call[r] = "sending" /\ HasRoom(r)
    /\ channel' = Append(channel, r) /\ entered' = Append(entered, r)
    /\ call' = [call EXCEPT ![r] = "waiting"]
    /\ UNCHANGED <<cancelled, expired, worker, gathered, deferred, groups, outcomes, barriers, failures, reply,
                   caching, executed>>

\* Cancellation::cancel() by another thread; the passing of time.
CancelRequest(r) ==
    /\ r \notin cancelled /\ call[r] # "returned" /\ Cardinality(cancelled) < MaxCancels
    /\ cancelled' = cancelled \cup {r}
    /\ UNCHANGED <<call, expired, channel, worker, gathered, deferred, groups, outcomes, barriers, failures, reply,
                   caching, entered, executed>>
ExpireRequest(r) ==
    /\ r \notin expired /\ call[r] # "returned" /\ Requests[r].deadline /\ expired' = expired \cup {r}
    /\ UNCHANGED <<call, cancelled, channel, worker, gathered, deferred, groups, outcomes, barriers, failures, reply,
                   caching, entered, executed>>

-----------------------------------------------------------------------------
(* scheduler_loop() *)

\* receiver.recv() only when nothing is deferred.
MayReceive == deferred = <<>>

BeginDeferred ==
    /\ worker = "recv" /\ deferred # <<>>
    /\ batch' = deferred /\ batchBytes' = Requests[deferred[1]].bytes /\ deferred' = <<>> /\ worker' = "gather"
    /\ UNCHANGED <<call, cancelled, expired, channel, groups, outcomes, barriers, failures, reply, caching,
                   entered, executed>>

BeginReceived ==
    /\ worker = "recv" /\ MayReceive /\ channel # <<>>
    /\ batch' = <<Head(channel)>> /\ batchBytes' = Requests[Head(channel)].bytes
    /\ channel' = Tail(channel) /\ worker' = "gather"
    /\ UNCHANGED <<call, cancelled, expired, deferred, groups, outcomes, barriers, failures, reply, caching,
                   entered, executed>>

FitsBatch(r) == batchBytes + Requests[r].bytes <= MaximumBatchBytes

Forget(r) == deferred               \* what does not fit is lost

PutOff(r) == <<r>>

\* A request that does not fit is deferred and ends the gathering.
Gather ==
    /\ worker = "gather" /\ Len(batch) < MaximumRequests /\ channel # <<>>
    /\ channel' = Tail(channel)
    /\ IF FitsBatch(Head(channel))
       THEN /\ batch' = Append(batch, Head(channel)) /\ batchBytes' = batchBytes + Requests[Head(channel)].bytes
            /\ UNCHANGED <<worker, deferred>>
       ELSE deferred' = PutOff(Head(channel)) /\ worker' = "execute" /\ UNCHANGED <<batch, batchBytes>>
    /\ UNCHANGED <<call, cancelled, expired, groups, outcomes, barriers, failures, reply, caching, entered, executed>>

\* The batch is full, or the group deadline passes while the channel is empty.
StopGathering ==
    /\ worker = "gather" /\ (Len(batch) = MaximumRequests \/ channel = <<>>)
    /\ worker' = "execute"
    /\ UNCHANGED <<call, cancelled, expired, channel, gathered, deferred, groups, outcomes, barriers, failures, reply,
                   caching, entered, executed>>

\* Every handle is dropped, so no submit() is under way: recv() fails.
Disconnect ==
    /\ worker = "recv" /\ channel = <<>> /\ deferred = <<>> /\ \A c \in Submitters : ~Busy(c)
    /\ worker' = "ended"
    /\ UNCHANGED <<call, cancelled, expired, channel, gathered, deferred, groups, outcomes, barriers, failures, reply,
                   caching, entered, executed>>

-----------------------------------------------------------------------------
(* execute_batch() *)

GroupsOf(r) == Requests[r].targets \X {Requests[r].ordering}

Live(r) == r \notin cancelled /\ r \notin expired

\* One barrier for each (device, ordering) of the requests still wanted.
Execute ==
    /\ worker = "execute"
    /\ groups' = UNION {GroupsOf(batch[i]) : i \in {n \in DOMAIN batch : Live(batch[n])}}
    /\ outcomes' = [g \in {} |-> 0] /\ worker' = "barriers"
    /\ executed' = executed \o batch
    /\ UNCHANGED <<call, cancelled, expired, channel, gathered, deferred, barriers, failures, reply, caching, entered>>

\* BTreeMap order: by device, then by ordering.
NextGroup == CHOOSE g \in groups : \A h \in groups : g[1] < h[1] \/ (g[1] = h[1] /\ g[2] <= h[2])

BarrierDone ==
    /\ worker = "barriers" /\ groups # {}
    /\ barriers' = barriers + 1
    /\ outcomes' = [g \in DOMAIN outcomes \cup {NextGroup} |-> IF g = NextGroup THEN barriers' ELSE outcomes[g]]
    /\ durable' = [durable EXCEPT ![NextGroup[1]] = written[NextGroup[1]]]
    /\ groups' = groups \ {NextGroup}
    /\ UNCHANGED <<call, cancelled, expired, channel, worker, gathered, deferred, failures, reply, written, entered,
                   executed>>

BarrierFails ==
    /\ worker = "barriers" /\ groups # {} /\ failures < MaxFailures
    /\ failures' = failures + 1
    /\ outcomes' = [g \in DOMAIN outcomes \cup {NextGroup} |-> IF g = NextGroup THEN 0 ELSE outcomes[g]]
    /\ groups' = groups \ {NextGroup}
    /\ UNCHANGED <<call, cancelled, expired, channel, worker, gathered, deferred, barriers, reply, caching, entered,
                   executed>>

BarriersRun ==
    /\ worker = "barriers" /\ groups = {} /\ worker' = "answer"
    /\ UNCHANGED <<call, cancelled, expired, channel, gathered, deferred, groups, outcomes, barriers, failures, reply,
                   caching, entered, executed>>

AnyProof(r) ==                      \* one barrier that succeeded is enough
    IF r \in cancelled THEN [NoReply EXCEPT !.result = "cancelled"]
    ELSE IF r \in expired THEN [NoReply EXCEPT !.result = "deadline"]
    ELSE IF Requests[r].targets # {} /\ \A g \in GroupsOf(r) : g \notin DOMAIN outcomes \/ outcomes[g] = 0
    THEN [NoReply EXCEPT !.result = "barrier"]
    ELSE [result |-> "receipt", proofs |-> {outcomes[g] : g \in GroupsOf(r) \cap DOMAIN outcomes}]

\* A receipt needs a proof for every target; no outcome means Closed.
ResultOf(r) ==
    IF r \in cancelled THEN [NoReply EXCEPT !.result = "cancelled"]
    ELSE IF r \in expired THEN [NoReply EXCEPT !.result = "deadline"]
    ELSE IF \E g \in GroupsOf(r) : g \notin DOMAIN outcomes THEN [NoReply EXCEPT !.result = "closed"]
    ELSE IF \E g \in GroupsOf(r) : outcomes[g] = 0 THEN [NoReply EXCEPT !.result = "barrier"]
    ELSE [result |-> "receipt", proofs |-> {outcomes[g] : g \in GroupsOf(r)}]

ReplyNext ==
    /\ worker = "answer" /\ batch # <<>>
    /\ Return(Head(batch), ResultOf(Head(batch)))
    /\ batch' = Tail(batch)
    /\ UNCHANGED <<cancelled, expired, channel, worker, batchBytes, deferred, groups, outcomes, barriers, failures, caching,
                   entered, executed>>

NextBatch ==
    /\ worker = "answer" /\ batch = <<>> /\ worker' = "recv"
    /\ UNCHANGED <<call, cancelled, expired, channel, gathered, deferred, groups, outcomes, barriers, failures, reply,
                   caching, entered, executed>>

Loop == \/ BeginDeferred \/ BeginReceived \/ Gather \/ StopGathering \/ Execute
        \/ BarrierDone \/ BarriersRun \/ ReplyNext \/ NextBatch

SchedulerNext ==
    \/ \E r \in Ids : SubmitRequest(r) \/ Enter(r) \/ CancelRequest(r) \/ ExpireRequest(r)
    \/ Loop \/ BarrierFails \/ Disconnect

\* The scheduler thread runs and a barrier ends; a blocked sender gets the
\* room there is.
SchedulerFairness == WF_schedulerVars(Loop) /\ \A r \in Ids : WF_schedulerVars(Enter(r))

SchedulerSpec == SchedulerInit /\ [][SchedulerNext]_schedulerVars /\ SchedulerFairness

-----------------------------------------------------------------------------
(* A receipt stands for its own request's data: what the caller wrote      *)
(* before submit() is durable on every one of its targets, although the    *)
(* barrier was shared and others of the batch failed.                      *)
ReceiptIsDurable == \A r \in Ids : reply[r].result = "receipt" => \A d \in Requests[r].targets : r \in durable[d]

(* An error says what happened: Cancelled and DeadlineExceeded only to a   *)
(* request that is, Barrier only after a barrier failed, and never Closed  *)
(* while the scheduler runs, although cancellations and deadlines arrive   *)
(* between the grouping and the answers.                                   *)
ErrorsHonest == \A r \in Ids :
    /\ reply[r].result = "cancelled" => r \in cancelled
    /\ reply[r].result = "deadline" => r \in expired
    /\ reply[r].result = "barrier" => failures > 0
    /\ reply[r].result # "closed"

(* Requests are executed in the order they entered the channel, a request  *)
(* put off for its size included, and a batch of several keeps to the byte *)
(* limit.                                                                  *)
BatchesInOrder ==
    /\ entered = executed \o (IF worker \in {"gather", "execute"} THEN batch ELSE <<>>) \o deferred \o channel
    /\ Len(batch) <= MaximumRequests
    /\ Len(batch) > 1 => batchBytes <= MaximumBatchBytes

(* The scheduler's promise to its callers.                                 *)
SchedulerSound == ReceiptIsDurable /\ ErrorsHonest /\ BatchesInOrder

(* Every submit() returns: none stays for ever in the deferred place or    *)
(* behind a full channel.  (A request is submitted once.)                  *)
EverySubmitReturns == <>[](\A c \in Submitters : ~Busy(c))
=============================================================================
