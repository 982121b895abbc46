------------------------------ MODULE ReadGate ------------------------------
(***************************************************************************)
(* LinearizableReadGate of pepper-rsm: concurrent readers share the quorum *)
(* proofs that make their reads linearizable.  A reader takes an arrival   *)
(* ticket, queues for a FIFO mutex, and is served without a proof of its   *)
(* own when an earlier holder's proof already covers its ticket.           *)
(*                                                                         *)
(* The proof itself is the consensus group's (read index): it attests the  *)
(* commit index it observed when it started.  Commits by other nodes are   *)
(* environment steps.                                                      *)
(***************************************************************************)
EXTENDS Naturals, Sequences, SequencesExt

CONSTANTS
    Readers,        \* the tasks that call ensure()
    MaxArrivals,    \* bound on the tickets handed out
    MaxCommits      \* bound on the commits of the environment

ASSUME ReadGateAssumption == MaxArrivals \in Nat /\ MaxCommits \in Nat

VARIABLES
    arrivals,       \* AtomicU64: tickets handed out
    covered,        \* AtomicU64: tickets a finished proof covers
    waiters,        \* the mutex: FIFO of tasks, its head holds the lock
    pc,             \* where each task is inside ensure()
    arrival,        \* local `arrival`
    coverThrough,   \* local `cover_through`
    committed,      \* commit index of the group (environment)
    attested,       \* commit index the task's running proof observed
    proved,         \* commit index attested by the proof behind `covered`
    seen,           \* commit index when the task called ensure()
    served          \* commit index attested to the task when ensure() was Ok

gate == <<arrivals, covered, waiters>>
locals == <<pc, arrival, coverThrough>>
ghosts == <<attested, proved, seen, served>>
vars == <<gate, locals, committed, ghosts>>

Returned == {"idle", "ok", "failed"}     \* no call in progress
PCs == Returned \cup {"queued", "joining", "loaded", "proving"}

TypeOK ==
    /\ arrivals \in 0 .. MaxArrivals
    /\ covered \in 0 .. arrivals
    /\ waiters \in Seq(Readers)
    /\ pc \in [Readers -> PCs]
    /\ arrival \in [Readers -> 0 .. MaxArrivals]
    /\ coverThrough \in [Readers -> 0 .. MaxArrivals]
    /\ committed \in 0 .. MaxCommits
    /\ proved \in 0 .. MaxCommits
    /\ attested \in [Readers -> 0 .. MaxCommits]
    /\ seen \in [Readers -> 0 .. MaxCommits]
    /\ served \in [Readers -> 0 .. MaxCommits]

Init ==
    /\ arrivals = 0 /\ covered = 0 /\ waiters = <<>>
    /\ pc = [r \in Readers |-> "idle"]
    /\ arrival = [r \in Readers |-> 0]
    /\ coverThrough = [r \in Readers |-> 0]
    /\ committed = 0 /\ proved = 0
    /\ attested = [r \in Readers |-> 0]
    /\ seen = [r \in Readers |-> 0]
    /\ served = [r \in Readers |-> 0]

\* The group commits a write somewhere.
Commit ==
    /\ committed < MaxCommits
    /\ committed' = committed + 1
    /\ UNCHANGED <<gate, locals, ghosts>>

\* ensure(): `arrivals.fetch_add(1)`, then queue on the mutex.
Arrive(r) ==
    /\ pc[r] \in Returned
    /\ arrivals < MaxArrivals
    /\ arrivals' = arrivals + 1
    /\ arrival' = [arrival EXCEPT ![r] = arrivals + 1]
    /\ seen' = [seen EXCEPT ![r] = committed]
    /\ waiters' = Append(waiters, r)
    /\ pc' = [pc EXCEPT ![r] = "queued"]
    /\ UNCHANGED <<covered, coverThrough, committed, attested, proved, served>>

Holds(r) == waiters # <<>> /\ Head(waiters) = r

\* The guard is dropped on return and on cancellation of the task.
Unlock(r) ==
    \E i \in 1 .. Len(waiters) : waiters[i] = r /\ waiters' = RemoveAt(waiters, i)

\* `covered >= arrival`: an earlier proof covers this ticket, return Ok.
IsCovered(r) == covered >= arrival[r]

ServedByEarlierProof(r) ==
    /\ pc[r] = "queued" /\ Holds(r)
    /\ IsCovered(r)
    /\ served' = [served EXCEPT ![r] = proved]
    /\ pc' = [pc EXCEPT ![r] = "ok"]
    /\ Unlock(r)
    /\ UNCHANGED <<arrivals, covered, arrival, coverThrough, committed, attested, proved, seen>>

\* Not covered: wait out the join window with the lock held.
BeginJoin(r) ==
    /\ pc[r] = "queued" /\ Holds(r)
    /\ ~IsCovered(r)
    /\ pc' = [pc EXCEPT ![r] = "joining"]
    /\ UNCHANGED <<gate, arrival, coverThrough, committed, ghosts>>

\* The join window is over: `cover_through = arrivals.load()`.
LoadCover(r) ==
    /\ pc[r] = "joining"
    /\ coverThrough' = [coverThrough EXCEPT ![r] = arrivals]
    /\ pc' = [pc EXCEPT ![r] = "loaded"]
    /\ UNCHANGED <<gate, arrival, committed, ghosts>>

\* `proof()`: the quorum round observes the commit index.
StartProof(r) ==
    /\ pc[r] = "loaded"
    /\ attested' = [attested EXCEPT ![r] = committed]
    /\ pc' = [pc EXCEPT ![r] = "proving"]
    /\ UNCHANGED <<gate, arrival, coverThrough, committed, proved, seen, served>>

LateCoverTarget(r) == arrivals      \* cover_through loaded after the proof

OffByOneCoverTarget(r) == coverThrough[r] + 1    \* tickets counted from zero

\* `covered.store(cover_through)`; Ok.
CoverTarget(r) == coverThrough[r]

ProofSucceeds(r) ==
    /\ pc[r] = "proving"
    /\ covered' = CoverTarget(r)
    /\ proved' = attested[r]
    /\ served' = [served EXCEPT ![r] = attested[r]]
    /\ pc' = [pc EXCEPT ![r] = "ok"]
    /\ Unlock(r)
    /\ UNCHANGED <<arrivals, arrival, coverThrough, committed, attested, seen>>

\* `proof().await?` returns the error to this caller only.
LeakyProofFails(r) ==               \* the guard outlives the error return
    /\ pc[r] = "proving"
    /\ pc' = [pc EXCEPT ![r] = "failed"]
    /\ UNCHANGED <<gate, arrival, coverThrough, committed, ghosts>>

ProofFails(r) ==
    /\ pc[r] = "proving"
    /\ pc' = [pc EXCEPT ![r] = "failed"]
    /\ Unlock(r)
    /\ UNCHANGED <<arrivals, covered, arrival, coverThrough, committed, ghosts>>

\* The caller drops the future at one of its awaits.
Cancel(r) ==
    /\ pc[r] \in {"queued", "joining", "proving"}
    /\ pc' = [pc EXCEPT ![r] = "idle"]
    /\ Unlock(r)
    /\ UNCHANGED <<arrivals, covered, arrival, coverThrough, committed, ghosts>>

Progress(r) ==
    \/ ServedByEarlierProof(r) \/ BeginJoin(r) \/ LoadCover(r)
    \/ StartProof(r) \/ ProofSucceeds(r) \/ ProofFails(r)

Next == Commit \/ \E r \in Readers : Arrive(r) \/ Cancel(r) \/ Progress(r)

\* The runtime polls every task, timers fire, and a proof returns.
Fairness == \A r \in Readers : WF_vars(Progress(r))

Spec == Init /\ [][Next]_vars /\ Fairness

-----------------------------------------------------------------------------
(* A reader that ensure() answered Ok was attested a commit index at least *)
(* as new as every write committed before it called ensure(), whether its  *)
(* own proof or a coalesced one served it.                                 *)
LinearizableReads == \A r \in Readers : pc[r] = "ok" => served[r] >= seen[r]

(* Every call of ensure() returns, though callers ahead of it fail their   *)
(* proof or are cancelled while they hold or await the mutex.              *)
EnsureReturns == \A r \in Readers : pc[r] = "queued" ~> pc[r] \in Returned
=============================================================================
