----------------------------- MODULE LazyBatcher -----------------------------
(***************************************************************************)
(* LazyBatcher of pepper-rsm: the first submitter of an idle batcher       *)
(* spawns the task that drains the queue; when the queue is empty the task *)
(* ends.  The namespace groups propose and the Kafka coordinators apply    *)
(* their commands through it.                                              *)
(*                                                                         *)
(* submit() and drain() hand the `running` flag to each other under one    *)
(* mutex; every lock acquisition is a step of its own.  A submission is    *)
(* named by its ticket and the processor's output for it by the same       *)
(* ticket.                                                                 *)
(***************************************************************************)
EXTENDS Naturals, Sequences, FiniteSets, SequencesExt

CONSTANTS
    Callers,            \* tasks that call submit()
    Runners,            \* drain tasks that could exist at once
    MaximumItems,       \* maximum_items
    MaximumBytes,       \* maximum_bytes
    MaximumQueued,      \* maximum_queued (8 * maximum_items in the code)
    Sizes,              \* encoded_bytes of an input
    MaxTickets          \* bound on the submissions

ASSUME BatcherAssumption ==
    /\ MaximumItems \in Nat \ {0} /\ MaximumBytes \in Nat \ {0}
    /\ MaximumQueued \in Nat \ {0} /\ Sizes \subseteq Nat /\ MaxTickets \in Nat

VARIABLES
    queue,      \* BatchState.queue: jobs [ticket, bytes]
    running,    \* BatchState.running
    caller,     \* where each caller is inside submit()
    ticket,     \* the submission each caller awaits
    answer,     \* what submit() returned: a ticket's output or an error
    runner,     \* where each drain task is
    jobs,       \* the jobs each drain task took
    tickets     \* submissions so far

batcherVars == <<queue, running, caller, ticket, answer, runner, jobs, tickets>>

Job == [ticket : 1 .. MaxTickets, bytes : Sizes]
Errors == {"none", "full", "processor", "count"}
TotalBytes(list) == FoldSeq(LAMBDA j, sum : j.bytes + sum, 0, list)

BatcherTypeOK ==
    /\ queue \in Seq(Job) /\ Len(queue) <= MaximumQueued
    /\ running \in BOOLEAN
    /\ caller \in [Callers -> {"idle", "leading", "waiting"}]
    /\ ticket \in [Callers -> 0 .. MaxTickets]
    /\ answer \in [Callers -> [output : 0 .. MaxTickets, error : Errors]]
    /\ runner \in [Runners -> {"ended", "delay", "recheck", "processing"}]
    /\ jobs \in [Runners -> Seq(Job)]
    /\ tickets \in 0 .. MaxTickets

NoAnswer == [output |-> 0, error |-> "none"]

BatcherInit ==
    /\ queue = <<>> /\ running = FALSE /\ tickets = 0
    /\ caller = [c \in Callers |-> "idle"]
    /\ ticket = [c \in Callers |-> 0]
    /\ answer = [c \in Callers |-> NoAnswer]
    /\ runner = [r \in Runners |-> "ended"]
    /\ jobs = [r \in Runners |-> <<>>]

-----------------------------------------------------------------------------
(* submit() *)

OffByOneFull == Len(queue) > MaximumQueued

QueueFull == Len(queue) >= MaximumQueued

\* Refused, nothing queued.
SubmitRefused(c) ==
    /\ caller[c] = "idle" /\ tickets < MaxTickets
    /\ QueueFull
    /\ tickets' = tickets + 1
    /\ ticket' = [ticket EXCEPT ![c] = tickets + 1]
    /\ answer' = [answer EXCEPT ![c] = [NoAnswer EXCEPT !.error = "full"]]
    /\ UNCHANGED <<queue, running, caller, runner, jobs>>

\* The job is queued and, when nobody drains, this caller leads.
Submit(c) ==
    /\ caller[c] = "idle" /\ tickets < MaxTickets
    /\ ~QueueFull
    /\ tickets' = tickets + 1
    /\ ticket' = [ticket EXCEPT ![c] = tickets + 1]
    /\ answer' = [answer EXCEPT ![c] = NoAnswer]
    /\ \E size \in Sizes : queue' = Append(queue, [ticket |-> tickets + 1, bytes |-> size])
    /\ caller' = [caller EXCEPT ![c] = IF running THEN "waiting" ELSE "leading"]
    /\ running' = TRUE
    /\ UNCHANGED <<runner, jobs>>

\* The leader spawns drain() and awaits its own answer.
SpawnDrain(c, r) ==
    /\ caller[c] = "leading" /\ runner[r] = "ended"
    /\ runner' = [runner EXCEPT ![r] = "delay"]
    /\ caller' = [caller EXCEPT ![c] = "waiting"]
    /\ UNCHANGED <<queue, running, ticket, answer, jobs, tickets>>

\* The caller drops its future while it awaits the answer; the job stays.
Abandon(c) ==
    /\ caller[c] = "waiting"
    /\ caller' = [caller EXCEPT ![c] = "idle"]
    /\ UNCHANGED <<queue, running, ticket, answer, runner, jobs, tickets>>

-----------------------------------------------------------------------------
(* drain() *)

\* How many jobs one batch takes: at most maximum_items, stopping before the
\* job that would pass maximum_bytes, but never before the first.
Fits(n) ==
    /\ n <= Len(queue) /\ n <= MaximumItems
    /\ n > 1 => TotalBytes(SubSeq(queue, 1, n)) <= MaximumBytes

BatchSize == CHOOSE n \in 0 .. Len(queue) : Fits(n) /\ (n < Len(queue) => ~Fits(n + 1))

\* After the delay, pop a batch under the lock.
Take(r) ==
    /\ runner[r] = "delay"
    /\ jobs' = [jobs EXCEPT ![r] = SubSeq(queue, 1, BatchSize)]
    /\ queue' = SubSeq(queue, BatchSize + 1, Len(queue))
    /\ runner' = [runner EXCEPT ![r] = IF BatchSize = 0 THEN "recheck" ELSE "processing"]
    /\ UNCHANGED <<running, caller, ticket, answer, tickets>>

\* The batch was empty: end only if the queue still is, under a second lock.
EndWithoutRecheck(r) ==
    /\ runner[r] = "recheck"
    /\ running' = FALSE
    /\ runner' = [runner EXCEPT ![r] = "ended"]
    /\ UNCHANGED <<queue, caller, ticket, answer, jobs, tickets>>

Recheck(r) ==
    /\ runner[r] = "recheck"
    /\ IF queue = <<>>
       THEN running' = FALSE /\ runner' = [runner EXCEPT ![r] = "ended"]
       ELSE running' = running /\ runner' = [runner EXCEPT ![r] = "delay"]
    /\ UNCHANGED <<queue, caller, ticket, answer, jobs, tickets>>

\* Answers go to the callers that still await a ticket of the batch.
Answered(c, r) == caller[c] = "waiting" /\ \E i \in DOMAIN jobs[r] : jobs[r][i].ticket = ticket[c]
Position(c, r) == CHOOSE i \in DOMAIN jobs[r] : jobs[r][i].ticket = ticket[c]

Respond(r, result(_)) ==
    /\ answer' = [c \in Callers |-> IF Answered(c, r) THEN result(c) ELSE answer[c]]
    /\ caller' = [c \in Callers |-> IF Answered(c, r) THEN "idle" ELSE caller[c]]
    /\ jobs' = [jobs EXCEPT ![r] = <<>>]
    /\ runner' = [runner EXCEPT ![r] = "delay"]
    /\ UNCHANGED <<queue, running, ticket, tickets>>

ReversedOutput(c, r) == [output |-> jobs[r][Len(jobs[r]) + 1 - Position(c, r)].ticket, error |-> "none"]

\* responders.zip(outputs): the output at the job's own position.
OutputFor(c, r) == [output |-> jobs[r][Position(c, r)].ticket, error |-> "none"]

Failure(e) == [output |-> 0, error |-> e]

\* The processor returns as many outputs as inputs, too few, or an error.
Process(r) ==
    /\ runner[r] = "processing"
    /\ \/ Respond(r, LAMBDA c : OutputFor(c, r))
       \/ Respond(r, LAMBDA c : Failure("count"))
       \/ Respond(r, LAMBDA c : Failure("processor"))

Drain(r) == Take(r) \/ Recheck(r) \/ Process(r)

BatcherNext ==
    \/ \E c \in Callers : SubmitRefused(c) \/ Submit(c) \/ Abandon(c)
    \/ \E c \in Callers, r \in Runners : SpawnDrain(c, r)
    \/ \E r \in Runners : Drain(r)

\* Tasks are polled, the delay elapses and the processor returns.
BatcherFairness ==
    /\ \A r \in Runners : WF_batcherVars(Drain(r))
    /\ \A c \in Callers : WF_batcherVars(\E r \in Runners : SpawnDrain(c, r))

BatcherSpec == BatcherInit /\ [][BatcherNext]_batcherVars /\ BatcherFairness

-----------------------------------------------------------------------------
(* The `running` flag is up exactly while one drain task, or the caller    *)
(* about to spawn it, owns the queue: two tasks never drain at once and no *)
(* job is queued with nobody to drain it.                                  *)
OneOwner ==
    /\ Cardinality({r \in Runners : runner[r] # "ended"})
         + Cardinality({c \in Callers : caller[c] = "leading"}) = IF running THEN 1 ELSE 0
    /\ queue # <<>> => running

(* A caller receives the processor's output for its own input.             *)
OwnAnswer == \A c \in Callers :
    caller[c] = "idle" /\ answer[c].output # 0 => answer[c].output = ticket[c]

(* A batch keeps both limits, except that one oversized job goes alone;    *)
(* the jobs taken and queued stay in submission order.                     *)
BatchesBoundedAndOrdered ==
    /\ \A r \in Runners :
        /\ Len(jobs[r]) <= MaximumItems
        /\ Len(jobs[r]) > 1 => TotalBytes(jobs[r]) <= MaximumBytes
    /\ \A r \in Runners : LET all == jobs[r] \o queue IN
         \A i, j \in DOMAIN all : i < j => all[i].ticket < all[j].ticket

(* The batcher's promise to its callers.                                   *)
BatcherCorrect == OneOwner /\ OwnAnswer /\ BatchesBoundedAndOrdered

(* Every caller that awaits its answer gets one: a job pushed while the    *)
(* drain task is about to end is still drained.                            *)
EverySubmitAnswered == \A c \in Callers : caller[c] # "idle" ~> caller[c] = "idle"
=============================================================================
