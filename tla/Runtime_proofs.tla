--------------------------- MODULE Runtime_proofs ---------------------------
(***************************************************************************)
(* Proofs about the primitives on which the services wait: the read gate   *)
(* for any number of readers, tickets and commits, the lazy batcher for    *)
(* any number of callers and drain tasks and every batch and queue limit,  *)
(* the durability scheduler for every list of requests, any number of      *)
(* devices and every batch limit.  The three share no state.               *)
(***************************************************************************)
EXTENDS ReadGate, LazyBatcher, DurabilityScheduler,
        FiniteSetTheorems, NaturalsInduction, SequenceTheorems, WellFoundedInduction, TLAPS

\* A nonempty set of naturals has a least element.
LEMMA LeastNatural ==
    ASSUME NEW T \in SUBSET Nat, T # {}
    PROVE  \E m \in T : \A n \in T : m <= n
  <1>1. PICK m \in T : \A n \in T : ~(<<n, m>> \in OpToRel(<, Nat))
    BY NatLessThanWellFounded, WFMin
  <1>2. \A n \in T : ~(n < m)
    BY <1>1 DEF OpToRel
  <1> QED BY <1>2

-----------------------------------------------------------------------------
(* LinearizableReadGate                                                    *)

\* Tickets are never ahead of the counter they were drawn from.
TicketsBounded ==
    /\ covered <= arrivals
    /\ \A r \in Readers : arrival[r] <= arrivals /\ coverThrough[r] <= arrivals
    /\ \A r \in Readers : seen[r] <= committed

\* What `covered` promises: the last successful proof started after every
\* covered ticket was drawn.
CoveredIsProved == \A r \in Readers : arrival[r] <= covered => seen[r] <= proved

\* What a running proof will promise once `covered` is stored.
ProofCoversTickets ==
    \A p \in Readers : pc[p] = "proving" =>
        \A r \in Readers : arrival[r] <= coverThrough[p] => seen[r] <= attested[p]

\* The prover's own ticket is among those it covers.
ProverCoversItself ==
    \A p \in Readers : pc[p] \in {"loaded",
       "proving"} => arrival[p] <= coverThrough[p]

IInv ==
    /\ TypeOK /\ TicketsBounded /\ CoveredIsProved
    /\ ProofCoversTickets /\ ProverCoversItself /\ LinearizableReads

-----------------------------------------------------------------------------
\* Releasing the mutex leaves a sequence of readers.
LEMMA UnlockType ==
    ASSUME NEW r, waiters \in Seq(Readers), Unlock(r)
    PROVE  waiters' \in Seq(Readers)
  BY DEF Unlock, RemoveAt

\* The initial state satisfies the inductive invariant.
LEMMA InitIInv == Init => IInv
  BY ReadGateAssumption DEF Init, IInv, TypeOK, TicketsBounded,
       CoveredIsProved,
     ProofCoversTickets, ProverCoversItself, LinearizableReads, PCs, Returned

\* Commit preserves the inductive invariant.
LEMMA CommitIInv ==
    ASSUME IInv, Commit
    PROVE  IInv'
  <1>1. TypeOK'
    BY ReadGateAssumption, UnlockType DEF IInv, TypeOK, TicketsBounded, PCs,
       Returned, Commit, gate, locals, ghosts
  <1>2. TicketsBounded'
    BY DEF IInv, TypeOK, TicketsBounded, Commit, gate, locals, ghosts
  <1>3. CoveredIsProved'
    BY DEF IInv, TypeOK, TicketsBounded, CoveredIsProved,
       ProofCoversTickets, Commit, gate, locals, ghosts
  <1>4. ProofCoversTickets'
    BY DEF IInv, TypeOK, TicketsBounded, ProofCoversTickets, Commit, gate,
       locals, ghosts
  <1>5. ProverCoversItself'
    BY DEF IInv, TypeOK, TicketsBounded, ProverCoversItself, Commit, gate,
       locals, ghosts
  <1>6. LinearizableReads'
    BY DEF IInv, TypeOK, LinearizableReads, CoveredIsProved,
       ProofCoversTickets,
       ProverCoversItself, Commit, gate, locals, ghosts
  <1> QED BY <1>1, <1>2, <1>3, <1>4, <1>5, <1>6 DEF IInv

\* Arrive preserves the inductive invariant.
LEMMA ArriveIInv ==
    ASSUME IInv, NEW r \in Readers, Arrive(r)
    PROVE  IInv'
  <1>1. TypeOK'
    BY ReadGateAssumption, UnlockType DEF IInv, TypeOK, TicketsBounded, PCs,
       Returned, Arrive, gate, locals, ghosts
  <1>2. TicketsBounded'
    BY DEF IInv, TypeOK, TicketsBounded, Arrive, gate, locals, ghosts
  <1>3. CoveredIsProved'
    BY DEF IInv, TypeOK, TicketsBounded, CoveredIsProved,
       ProofCoversTickets, Arrive, gate, locals, ghosts
  <1>4. ProofCoversTickets'
    <2> SUFFICES ASSUME NEW p \in Readers, pc'[p] = "proving",
                        NEW q \in Readers, arrival'[q] <= coverThrough'[p]
                 PROVE  seen'[q] <= attested'[p]
      BY DEF ProofCoversTickets
    <2>1. p # r /\ pc[p] = "proving" /\ coverThrough[p] <= arrivals
      BY DEF IInv, TypeOK, TicketsBounded, Arrive
    <2>2. q # r
      BY <2>1 DEF IInv, TypeOK, Arrive     \* the new ticket is arrivals + 1
    <2>3. arrival'[q] = arrival[q] /\ seen'[q] = seen[q]
      BY <2>2 DEF IInv, TypeOK, Arrive
    <2> QED BY <2>1, <2>3 DEF IInv, ProofCoversTickets, Arrive
  <1>5. ProverCoversItself'
    BY DEF IInv, TypeOK, TicketsBounded, ProverCoversItself, Arrive, gate,
       locals, ghosts
  <1>6. LinearizableReads'
    BY DEF IInv, TypeOK, LinearizableReads, CoveredIsProved,
       ProofCoversTickets,
       ProverCoversItself, Arrive, gate, locals, ghosts
  <1> QED BY <1>1, <1>2, <1>3, <1>4, <1>5, <1>6 DEF IInv

\* ServedByEarlierProof preserves the inductive invariant.
LEMMA ServedByEarlierProofIInv ==
    ASSUME IInv, NEW r \in Readers, ServedByEarlierProof(r)
    PROVE  IInv'
  <1>1. TypeOK'
    BY ReadGateAssumption, UnlockType DEF IInv, TypeOK, TicketsBounded, PCs,
       Returned, ServedByEarlierProof, IsCovered, Holds, gate, locals, ghosts
  <1>2. TicketsBounded'
    BY DEF IInv, TypeOK, TicketsBounded, ServedByEarlierProof, Unlock,
       IsCovered, Holds, gate, locals, ghosts
  <1>3. CoveredIsProved'
    BY DEF IInv, TypeOK, TicketsBounded, CoveredIsProved,
       ProofCoversTickets, ServedByEarlierProof, Unlock, IsCovered, Holds,
       gate, locals, ghosts
  <1>4. ProofCoversTickets'
    BY DEF IInv, TypeOK, TicketsBounded, ProofCoversTickets,
       ServedByEarlierProof, Unlock, IsCovered, Holds, gate, locals, ghosts
  <1>5. ProverCoversItself'
    BY DEF IInv, TypeOK, TicketsBounded, ProverCoversItself,
       ServedByEarlierProof, Unlock, IsCovered, Holds, gate, locals, ghosts
  <1>6. LinearizableReads'
    BY DEF IInv, TypeOK, LinearizableReads, CoveredIsProved,
       ProofCoversTickets,
       ProverCoversItself, ServedByEarlierProof, Unlock, IsCovered, Holds,
       gate, locals, ghosts
  <1> QED BY <1>1, <1>2, <1>3, <1>4, <1>5, <1>6 DEF IInv

\* BeginJoin preserves the inductive invariant.
LEMMA BeginJoinIInv ==
    ASSUME IInv, NEW r \in Readers, BeginJoin(r)
    PROVE  IInv'
  <1>1. TypeOK'
    BY ReadGateAssumption, UnlockType DEF IInv, TypeOK, TicketsBounded, PCs,
       Returned, BeginJoin, IsCovered, Holds, gate, locals, ghosts
  <1>2. TicketsBounded'
    BY DEF IInv, TypeOK, TicketsBounded, BeginJoin, IsCovered, Holds, gate,
       locals, ghosts
  <1>3. CoveredIsProved'
    BY DEF IInv, TypeOK, TicketsBounded, CoveredIsProved,
       ProofCoversTickets, BeginJoin, IsCovered, Holds, gate, locals, ghosts
  <1>4. ProofCoversTickets'
    BY DEF IInv, TypeOK, TicketsBounded, ProofCoversTickets, BeginJoin,
       IsCovered, Holds, gate, locals, ghosts
  <1>5. ProverCoversItself'
    BY DEF IInv, TypeOK, TicketsBounded, ProverCoversItself, BeginJoin,
       IsCovered, Holds, gate, locals, ghosts
  <1>6. LinearizableReads'
    BY DEF IInv, TypeOK, LinearizableReads, CoveredIsProved,
       ProofCoversTickets,
       ProverCoversItself, BeginJoin, IsCovered, Holds, gate, locals, ghosts
  <1> QED BY <1>1, <1>2, <1>3, <1>4, <1>5, <1>6 DEF IInv

\* LoadCover preserves the inductive invariant.
LEMMA LoadCoverIInv ==
    ASSUME IInv, NEW r \in Readers, LoadCover(r)
    PROVE  IInv'
  <1>1. TypeOK'
    BY ReadGateAssumption, UnlockType DEF IInv, TypeOK, TicketsBounded, PCs,
       Returned, LoadCover, gate, locals, ghosts
  <1>2. TicketsBounded'
    BY DEF IInv, TypeOK, TicketsBounded, LoadCover, gate, locals, ghosts
  <1>3. CoveredIsProved'
    BY DEF IInv, TypeOK, TicketsBounded, CoveredIsProved,
       ProofCoversTickets, LoadCover, gate, locals, ghosts
  <1>4. ProofCoversTickets'
    BY DEF IInv, TypeOK, TicketsBounded, ProofCoversTickets, LoadCover,
       gate, locals, ghosts
  <1>5. ProverCoversItself'
    BY DEF IInv, TypeOK, TicketsBounded, ProverCoversItself, LoadCover,
       gate, locals, ghosts
  <1>6. LinearizableReads'
    BY DEF IInv, TypeOK, LinearizableReads, CoveredIsProved,
       ProofCoversTickets,
       ProverCoversItself, LoadCover, gate, locals, ghosts
  <1> QED BY <1>1, <1>2, <1>3, <1>4, <1>5, <1>6 DEF IInv

\* StartProof preserves the inductive invariant.
LEMMA StartProofIInv ==
    ASSUME IInv, NEW r \in Readers, StartProof(r)
    PROVE  IInv'
  <1>1. TypeOK'
    BY ReadGateAssumption, UnlockType DEF IInv, TypeOK, TicketsBounded, PCs,
       Returned, StartProof, gate, locals, ghosts
  <1>2. TicketsBounded'
    BY DEF IInv, TypeOK, TicketsBounded, StartProof, gate, locals, ghosts
  <1>3. CoveredIsProved'
    BY DEF IInv, TypeOK, TicketsBounded, CoveredIsProved,
       ProofCoversTickets, StartProof, gate, locals, ghosts
  <1>4. ProofCoversTickets'
    BY DEF IInv, TypeOK, TicketsBounded, ProofCoversTickets, StartProof,
       gate, locals, ghosts
  <1>5. ProverCoversItself'
    BY DEF IInv, TypeOK, TicketsBounded, ProverCoversItself, StartProof,
       gate, locals, ghosts
  <1>6. LinearizableReads'
    BY DEF IInv, TypeOK, LinearizableReads, CoveredIsProved,
       ProofCoversTickets,
       ProverCoversItself, StartProof, gate, locals, ghosts
  <1> QED BY <1>1, <1>2, <1>3, <1>4, <1>5, <1>6 DEF IInv

\* ProofSucceeds preserves the inductive invariant.
LEMMA ProofSucceedsIInv ==
    ASSUME IInv, NEW r \in Readers, ProofSucceeds(r)
    PROVE  IInv'
  <1>1. TypeOK'
    BY ReadGateAssumption, UnlockType DEF IInv, TypeOK, TicketsBounded, PCs,
       Returned, ProofSucceeds, CoverTarget, gate, locals, ghosts
  <1>2. TicketsBounded'
    BY DEF IInv, TypeOK, TicketsBounded, ProofSucceeds, Unlock, CoverTarget,
       gate, locals, ghosts
  <1>3. CoveredIsProved'
    BY DEF IInv, TypeOK, TicketsBounded, CoveredIsProved,
       ProofCoversTickets, ProofSucceeds, Unlock, CoverTarget, gate, locals,
       ghosts
  <1>4. ProofCoversTickets'
    BY DEF IInv, TypeOK, TicketsBounded, ProofCoversTickets, ProofSucceeds,
       Unlock, CoverTarget, gate, locals, ghosts
  <1>5. ProverCoversItself'
    BY DEF IInv, TypeOK, TicketsBounded, ProverCoversItself, ProofSucceeds,
       Unlock, CoverTarget, gate, locals, ghosts
  <1>6. LinearizableReads'
    BY DEF IInv, TypeOK, LinearizableReads, CoveredIsProved,
       ProofCoversTickets,
       ProverCoversItself, ProofSucceeds, Unlock, CoverTarget, gate, locals,
       ghosts
  <1> QED BY <1>1, <1>2, <1>3, <1>4, <1>5, <1>6 DEF IInv

\* ProofFails preserves the inductive invariant.
LEMMA ProofFailsIInv ==
    ASSUME IInv, NEW r \in Readers, ProofFails(r)
    PROVE  IInv'
  <1>1. TypeOK'
    BY ReadGateAssumption, UnlockType DEF IInv, TypeOK, TicketsBounded, PCs,
       Returned, ProofFails, gate, locals, ghosts
  <1>2. TicketsBounded'
    BY DEF IInv, TypeOK, TicketsBounded, ProofFails, Unlock, gate, locals,
       ghosts
  <1>3. CoveredIsProved'
    BY DEF IInv, TypeOK, TicketsBounded, CoveredIsProved,
       ProofCoversTickets, ProofFails, Unlock, gate, locals, ghosts
  <1>4. ProofCoversTickets'
    BY DEF IInv, TypeOK, TicketsBounded, ProofCoversTickets, ProofFails,
       Unlock, gate, locals, ghosts
  <1>5. ProverCoversItself'
    BY DEF IInv, TypeOK, TicketsBounded, ProverCoversItself, ProofFails,
       Unlock, gate, locals, ghosts
  <1>6. LinearizableReads'
    BY DEF IInv, TypeOK, LinearizableReads, CoveredIsProved,
       ProofCoversTickets,
       ProverCoversItself, ProofFails, Unlock, gate, locals, ghosts
  <1> QED BY <1>1, <1>2, <1>3, <1>4, <1>5, <1>6 DEF IInv

\* Cancel preserves the inductive invariant.
LEMMA CancelIInv ==
    ASSUME IInv, NEW r \in Readers, Cancel(r)
    PROVE  IInv'
  <1>1. TypeOK'
    BY ReadGateAssumption, UnlockType DEF IInv, TypeOK, TicketsBounded, PCs,
       Returned, Cancel, gate, locals, ghosts
  <1>2. TicketsBounded'
    BY DEF IInv, TypeOK, TicketsBounded, Cancel, Unlock, gate, locals, ghosts
  <1>3. CoveredIsProved'
    BY DEF IInv, TypeOK, TicketsBounded, CoveredIsProved,
       ProofCoversTickets, Cancel, Unlock, gate, locals, ghosts
  <1>4. ProofCoversTickets'
    BY DEF IInv, TypeOK, TicketsBounded, ProofCoversTickets, Cancel, Unlock,
       gate, locals, ghosts
  <1>5. ProverCoversItself'
    BY DEF IInv, TypeOK, TicketsBounded, ProverCoversItself, Cancel, Unlock,
       gate, locals, ghosts
  <1>6. LinearizableReads'
    BY DEF IInv, TypeOK, LinearizableReads, CoveredIsProved,
       ProofCoversTickets,
       ProverCoversItself, Cancel, Unlock, gate, locals, ghosts
  <1> QED BY <1>1, <1>2, <1>3, <1>4, <1>5, <1>6 DEF IInv

\* A stuttering step preserves the inductive invariant.
LEMMA StutterIInv == ASSUME IInv, UNCHANGED vars PROVE IInv'
  BY DEF IInv, TypeOK, TicketsBounded, CoveredIsProved, ProofCoversTickets,
     ProverCoversItself, LinearizableReads, vars, gate, locals, ghosts

\* The inductive invariant holds in every reachable state of the gate.
THEOREM GateInvariant == Spec => []IInv
  <1>1. ASSUME IInv, [Next]_vars PROVE IInv'
    BY <1>1, CommitIInv, ArriveIInv, ServedByEarlierProofIInv, BeginJoinIInv,
       LoadCoverIInv, StartProofIInv, ProofSucceedsIInv, ProofFailsIInv,
       CancelIInv, StutterIInv
       DEF Next, Progress
  <1> QED BY <1>1, InitIInv, PTL DEF Spec

\* TypeOK is an invariant of the gate.
THEOREM GateTypeCorrect == Spec => []TypeOK
  <1>1. IInv => TypeOK BY DEF IInv
  <1> QED BY <1>1, GateInvariant, PTL

\* A coalesced proof never serves a reader a commit index older than the one
\* the reader could already have observed when it called ensure().
THEOREM GateLinearizable == Spec => []LinearizableReads
  <1>1. IInv => LinearizableReads BY DEF IInv
  <1> QED BY <1>1, GateInvariant, PTL

-----------------------------------------------------------------------------
(* LazyBatcher                                                             *)

\* Who owns the queue, without counting: nobody while the flag is down, one
\* drain task or one leading caller while it is up.
DrainTaskOwns(r) ==
    /\ runner[r] # "ended" /\ \A q \in Runners : q # r => runner[q] = "ended"
    /\ \A c \in Callers : caller[c] # "leading"
LeaderOwns(c) ==
    /\ caller[c] = "leading" /\ \A d \in Callers : d # c => caller[d] # "leading"
    /\ \A q \in Runners : runner[q] = "ended"
Ownership ==
    /\ running => (\E r \in Runners : DrainTaskOwns(r)) \/ (\E c \in Callers : LeaderOwns(c))
    /\ ~running => /\ queue = <<>>
                   /\ \A r \in Runners : runner[r] = "ended"
                   /\ \A c \in Callers : caller[c] # "leading"

\* Only the drain task that processes holds jobs.
JobsHeld == \A r \in Runners : runner[r] # "processing" => jobs[r] = <<>>

\* A caller inside submit() has no answer yet.
NoEarlyAnswer == \A c \in Callers : caller[c] # "idle" => answer[c].output = 0

\* Tickets grow along the queue and along each batch, a batch is ahead of the
\* queue, and no ticket is ahead of the counter.
Increasing(list) == \A i, j \in 1 .. Len(list) : i < j => list[i].ticket < list[j].ticket
TicketOrder ==
    /\ Increasing(queue) /\ \A i \in 1 .. Len(queue) : queue[i].ticket <= tickets
    /\ \A r \in Runners :
         /\ Increasing(jobs[r])
         /\ \A i \in 1 .. Len(jobs[r]) : jobs[r][i].ticket <= tickets
         /\ \A i \in 1 .. Len(jobs[r]), j \in 1 .. Len(queue) : jobs[r][i].ticket < queue[j].ticket

\* The limits of a batch.
Limits == \A r \in Runners :
    Len(jobs[r]) <= MaximumItems /\ (Len(jobs[r]) > 1 => TotalBytes(jobs[r]) <= MaximumBytes)

BatcherIInv == BatcherTypeOK /\ Ownership /\ JobsHeld /\ NoEarlyAnswer /\ TicketOrder /\ Limits /\ OwnAnswer

-----------------------------------------------------------------------------
\* drain() always finds how many jobs to take, and that many fit.
LEMMA BatchSizeFits ==
    ASSUME BatcherTypeOK
    PROVE  BatchSize \in 0 .. Len(queue) /\ Fits(BatchSize)
  <1> DEFINE T == {n \in Nat : ~Fits(n)}
  <1>1. Len(queue) \in Nat /\ Len(queue) + 1 \in T
    BY DEF BatcherTypeOK, Fits
  <1>2. PICK m \in T : \A n \in T : m <= n
    BY <1>1, LeastNatural
  <1>3. Fits(0)
    BY <1>1, BatcherAssumption DEF Fits
  <1>4. m - 1 \in Nat /\ Fits(m - 1) /\ ~Fits(m - 1 + 1)
    BY <1>2, <1>3
  <1>5. m - 1 \in 0 .. Len(queue)
    BY <1>1, <1>4 DEF Fits
  <1>6. \E n \in 0 .. Len(queue) : Fits(n) /\ (n < Len(queue) => ~Fits(n + 1))
    BY <1>4, <1>5
  <1> HIDE DEF T
  <1> QED BY <1>6 DEF BatchSize

-----------------------------------------------------------------------------
\* Tickets are numbers.
LEMMA TicketsAreNumbers ==
    ASSUME BatcherTypeOK
    PROVE  /\ tickets \in Nat /\ Len(queue) \in Nat
           /\ \A i \in 1 .. Len(queue) : queue[i].ticket \in Nat
           /\ \A r \in Runners : Len(jobs[r]) \in Nat /\ \A i \in 1 .. Len(jobs[r]) : jobs[r][i].ticket \in Nat
  <1>1. \A j \in Job : j.ticket \in Nat
    BY BatcherAssumption DEF Job
  <1>2. ASSUME NEW list \in Seq(Job)
        PROVE  Len(list) \in Nat /\ \A i \in 1 .. Len(list) : list[i].ticket \in Nat
    BY <1>1
  <1> QED BY <1>2, BatcherAssumption DEF BatcherTypeOK

\* The initial state satisfies the inductive invariant.
LEMMA InitBatcherIInv == BatcherInit => BatcherIInv
  <1> SUFFICES ASSUME BatcherInit PROVE BatcherIInv
    OBVIOUS
  <1>1. BatcherTypeOK
    <2>1. NoAnswer \in [output : 0 .. MaxTickets, error : Errors]
      BY BatcherAssumption DEF NoAnswer, Errors
    <2>2. <<>> \in Seq(Job) /\ Len(<<>>) <= MaximumQueued
      BY BatcherAssumption
    <2>3. queue \in Seq(Job) /\ Len(queue) <= MaximumQueued /\ jobs \in [Runners -> Seq(Job)]
      BY <2>2 DEF BatcherInit
    <2>4. answer \in [Callers -> [output : 0 .. MaxTickets, error : Errors]]
      BY <2>1 DEF BatcherInit
    <2>5. tickets \in 0 .. MaxTickets /\ ticket \in [Callers -> 0 .. MaxTickets]
      BY BatcherAssumption DEF BatcherInit
    <2>6. /\ running \in BOOLEAN
          /\ caller \in [Callers -> {"idle", "leading", "waiting"}]
          /\ runner \in [Runners -> {"ended", "delay", "recheck", "processing"}]
      BY DEF BatcherInit
    <2> QED BY <2>3, <2>4, <2>5, <2>6 DEF BatcherTypeOK
  <1>2. Ownership /\ JobsHeld /\ NoEarlyAnswer /\ OwnAnswer
    BY DEF BatcherInit, Ownership, JobsHeld, NoEarlyAnswer, OwnAnswer, NoAnswer
  <1>3. TicketOrder /\ Limits
    BY BatcherAssumption DEF BatcherInit, TicketOrder, Increasing, Limits
  <1> QED BY <1>1, <1>2, <1>3 DEF BatcherIInv

\* A refused submit() preserves the inductive invariant.
LEMMA SubmitRefusedIInv ==
    ASSUME BatcherIInv, NEW c \in Callers, SubmitRefused(c)
    PROVE  BatcherIInv'
  <1>1. BatcherTypeOK'
    BY BatcherAssumption DEF BatcherIInv, BatcherTypeOK, SubmitRefused, NoAnswer, Errors
  <1>2. Ownership' /\ JobsHeld' /\ Limits'
    BY DEF BatcherIInv, Ownership, DrainTaskOwns, LeaderOwns, JobsHeld, Limits, SubmitRefused
  <1>3. NoEarlyAnswer' /\ OwnAnswer'
    BY DEF BatcherIInv, BatcherTypeOK, NoEarlyAnswer, OwnAnswer, SubmitRefused, NoAnswer
  <1>4. TicketOrder'
    BY TicketsAreNumbers DEF BatcherIInv, TicketOrder, Increasing, SubmitRefused
  <1> QED BY <1>1, <1>2, <1>3, <1>4 DEF BatcherIInv

\* A queued job preserves the inductive invariant: its ticket is the largest,
\* and the caller leads only if nobody owns the queue.
LEMMA SubmitIInv ==
    ASSUME BatcherIInv, NEW c \in Callers, Submit(c)
    PROVE  BatcherIInv'
  <1>0. PICK size \in Sizes : queue' = Append(queue, [ticket |-> tickets + 1, bytes |-> size])
    BY DEF Submit
  <1>1. BatcherTypeOK'
    <2>1. [ticket |-> tickets + 1, bytes |-> size] \in Job
      BY BatcherAssumption DEF BatcherIInv, BatcherTypeOK, Submit, Job
    <2>2. queue' \in Seq(Job) /\ Len(queue') <= MaximumQueued
      BY <1>0, <2>1, BatcherAssumption DEF BatcherIInv, BatcherTypeOK, Submit, QueueFull
    <2> QED BY <2>2, BatcherAssumption DEF BatcherIInv, BatcherTypeOK, Submit, NoAnswer, Errors
  <1>2. Ownership'
    <2>1. running' = TRUE /\ runner' = runner
      BY DEF Submit
    <2>2. CASE running
      BY <2>1, <2>2 DEF BatcherIInv, BatcherTypeOK, Ownership, DrainTaskOwns, LeaderOwns, Submit
    <2>3. CASE ~running
      <3>1. LeaderOwns(c)'
        BY <2>1, <2>3 DEF BatcherIInv, BatcherTypeOK, Ownership, LeaderOwns, Submit
      <3> QED BY <2>1, <3>1 DEF Ownership
    <2> QED BY <2>2, <2>3 DEF BatcherIInv, BatcherTypeOK
  <1>3. JobsHeld' /\ Limits'
    BY DEF BatcherIInv, JobsHeld, Limits, Submit
  <1>4. NoEarlyAnswer' /\ OwnAnswer'
    BY DEF BatcherIInv, BatcherTypeOK, NoEarlyAnswer, OwnAnswer, Submit, NoAnswer
  <1>5. TicketOrder'
    <2>1. /\ Len(queue') = Len(queue) + 1 /\ Len(queue) \in Nat
          /\ \A i \in 1 .. Len(queue) : queue'[i] = queue[i]
          /\ queue'[Len(queue) + 1].ticket = tickets + 1
      BY <1>0 DEF BatcherIInv, BatcherTypeOK
    <2>2. tickets' = tickets + 1 /\ tickets \in Nat /\ jobs' = jobs
          /\ \A i \in 1 .. Len(queue) : queue[i].ticket \in Nat
      BY TicketsAreNumbers DEF BatcherIInv, Submit
    <2>a. /\ \A i \in 1 .. Len(queue) : queue[i].ticket <= tickets
          /\ \A i, j \in 1 .. Len(queue) : i < j => queue[i].ticket < queue[j].ticket
      BY DEF BatcherIInv, TicketOrder, Increasing
    <2>b. \A i \in 1 .. Len(queue') : i \in 1 .. Len(queue) \/ i = Len(queue) + 1
      BY <2>1
    <2>c. \A i \in 1 .. Len(queue') : queue'[i].ticket <= tickets'
      BY <2>1, <2>2, <2>a, <2>b
    <2>d. ASSUME NEW i \in 1 .. Len(queue'), NEW j \in 1 .. Len(queue'), i < j
          PROVE  queue'[i].ticket < queue'[j].ticket
      <3>1. i \in 1 .. Len(queue)
        BY <2>1, <2>d
      <3>2. CASE j \in 1 .. Len(queue)
        BY <2>1, <2>a, <2>d, <3>1, <3>2
      <3>3. CASE j = Len(queue) + 1
        BY <2>1, <2>2, <2>a, <3>1, <3>3
      <3> QED BY <2>b, <3>2, <3>3
    <2>3. Increasing(queue') /\ \A i \in 1 .. Len(queue') : queue'[i].ticket <= tickets'
      BY <2>c, <2>d DEF Increasing
    <2>4. ASSUME NEW r \in Runners
          PROVE  /\ Increasing(jobs'[r])
                 /\ \A i \in 1 .. Len(jobs'[r]) : jobs'[r][i].ticket <= tickets'
                 /\ \A i \in 1 .. Len(jobs'[r]), j \in 1 .. Len(queue') : jobs'[r][i].ticket < queue'[j].ticket
      <3>1. \A i \in 1 .. Len(jobs[r]) : jobs[r][i].ticket \in Nat /\ jobs[r][i].ticket <= tickets
        BY TicketsAreNumbers DEF BatcherIInv, TicketOrder
      <3>2. Increasing(jobs'[r]) /\ \A i \in 1 .. Len(jobs'[r]) : jobs'[r][i].ticket <= tickets'
        BY <2>2, <3>1 DEF BatcherIInv, TicketOrder
      <3>3. ASSUME NEW i \in 1 .. Len(jobs'[r]), NEW j \in 1 .. Len(queue')
            PROVE  jobs'[r][i].ticket < queue'[j].ticket
        <4>1. CASE j = Len(queue) + 1
          <5>1. jobs'[r][i].ticket <= tickets /\ jobs'[r][i].ticket \in Nat
            BY <2>2, <3>1
          <5> QED BY <2>1, <2>2, <4>1, <5>1
        <4>2. CASE j \in 1 .. Len(queue)
          BY <2>1, <2>2, <4>2 DEF BatcherIInv, TicketOrder
        <4> QED BY <2>1, <4>1, <4>2
      <3> QED BY <3>2, <3>3
    <2> QED BY <2>3, <2>4 DEF TicketOrder, Increasing
  <1> QED BY <1>1, <1>2, <1>3, <1>4, <1>5 DEF BatcherIInv

\* Ownership passes from the leader to the task it spawns.
LEMMA SpawnDrainIInv ==
    ASSUME BatcherIInv, NEW c \in Callers, NEW r \in Runners, SpawnDrain(c, r)
    PROVE  BatcherIInv'
  <1>1. BatcherTypeOK'
    BY DEF BatcherIInv, BatcherTypeOK, SpawnDrain
  <1>2. Ownership'
    <2>1. running /\ LeaderOwns(c)
      BY DEF BatcherIInv, BatcherTypeOK, Ownership, DrainTaskOwns, LeaderOwns, SpawnDrain
    <2>2. DrainTaskOwns(r)'
      BY <2>1 DEF BatcherIInv, BatcherTypeOK, DrainTaskOwns, LeaderOwns, SpawnDrain
    <2> QED BY <2>1, <2>2 DEF Ownership, SpawnDrain
  <1>3. JobsHeld'
    BY DEF BatcherIInv, BatcherTypeOK, JobsHeld, SpawnDrain
  <1>4. NoEarlyAnswer' /\ OwnAnswer'
    BY DEF BatcherIInv, BatcherTypeOK, NoEarlyAnswer, OwnAnswer, SpawnDrain
  <1>5. TicketOrder' /\ Limits'
    BY DEF BatcherIInv, TicketOrder, Increasing, Limits, SpawnDrain
  <1> QED BY <1>1, <1>2, <1>3, <1>4, <1>5 DEF BatcherIInv

\* A caller that goes away is not the leader, and has no answer.
LEMMA AbandonIInv ==
    ASSUME BatcherIInv, NEW c \in Callers, Abandon(c)
    PROVE  BatcherIInv'
  <1>1. BatcherTypeOK'
    BY DEF BatcherIInv, BatcherTypeOK, Abandon
  <1>2. Ownership'
    BY DEF BatcherIInv, BatcherTypeOK, Ownership, DrainTaskOwns, LeaderOwns, Abandon
  <1>3. JobsHeld'
    BY DEF BatcherIInv, JobsHeld, Abandon
  <1>4. NoEarlyAnswer' /\ OwnAnswer'
    BY DEF BatcherIInv, BatcherTypeOK, NoEarlyAnswer, OwnAnswer, Abandon
  <1>5. TicketOrder' /\ Limits'
    BY DEF BatcherIInv, TicketOrder, Increasing, Limits, Abandon
  <1> QED BY <1>1, <1>2, <1>3, <1>4, <1>5 DEF BatcherIInv

\* A batch is a prefix of the queue that fits; the rest stays queued.
LEMMA TakeIInv ==
    ASSUME BatcherIInv, NEW r \in Runners, Take(r)
    PROVE  BatcherIInv'
  <1> DEFINE n == BatchSize
  <1>0. n \in 0 .. Len(queue) /\ Fits(n) /\ Len(queue) \in Nat
    BY BatchSizeFits DEF BatcherIInv, BatcherTypeOK
  <1>a. /\ jobs' = [jobs EXCEPT ![r] = SubSeq(queue, 1, n)]
        /\ queue' = SubSeq(queue, n + 1, Len(queue))
        /\ runner' = [runner EXCEPT ![r] = IF n = 0 THEN "recheck" ELSE "processing"]
        /\ runner[r] = "delay"
        /\ UNCHANGED <<running, caller, ticket, answer, tickets>>
    BY DEF Take
  <1> HIDE DEF n
  <1>b. /\ SubSeq(queue, 1, n) \in Seq(Job) /\ Len(SubSeq(queue, 1, n)) = n
        /\ \A i \in 1 .. n : SubSeq(queue, 1, n)[i] = queue[i]
    BY <1>0 DEF BatcherIInv, BatcherTypeOK
  <1>c. /\ queue' \in Seq(Job) /\ Len(queue') = Len(queue) - n
        /\ \A i \in 1 .. Len(queue) - n : queue'[i] = queue[n + i]
    BY <1>0, <1>a DEF BatcherIInv, BatcherTypeOK
  <1>1. BatcherTypeOK'
    BY <1>0, <1>a, <1>b, <1>c, BatcherAssumption DEF BatcherIInv, BatcherTypeOK
  <1>2. Ownership'
    <2>1. running
      BY <1>a DEF BatcherIInv, BatcherTypeOK, Ownership
    <2>2. DrainTaskOwns(r)
      BY <1>a, <2>1 DEF BatcherIInv, BatcherTypeOK, Ownership, DrainTaskOwns, LeaderOwns
    <2>3. DrainTaskOwns(r)'
      BY <1>a, <2>2 DEF BatcherIInv, BatcherTypeOK, DrainTaskOwns
    <2> QED BY <1>a, <2>1, <2>3 DEF Ownership
  <1>3. JobsHeld'
    <2>1. ASSUME NEW q \in Runners, runner'[q] # "processing" PROVE jobs'[q] = <<>>
      <3>1. CASE q = r
        <4>1. n = 0
          BY <1>a, <2>1, <3>1 DEF BatcherIInv, BatcherTypeOK
        <4> QED BY <1>a, <1>b, <3>1, <4>1 DEF BatcherIInv, BatcherTypeOK
      <3>2. CASE q # r
        BY <1>a, <2>1, <3>2 DEF BatcherIInv, BatcherTypeOK, JobsHeld
      <3> QED BY <3>1, <3>2
    <2> QED BY <2>1 DEF JobsHeld
  <1>4. NoEarlyAnswer' /\ OwnAnswer'
    BY <1>a DEF BatcherIInv, NoEarlyAnswer, OwnAnswer
  <1>5. TicketOrder'
    <2>0. /\ \A i \in 1 .. Len(queue) : queue[i].ticket \in Nat
          /\ \A q \in Runners : Len(jobs[q]) \in Nat
      BY TicketsAreNumbers DEF BatcherIInv
    <2>1. Increasing(queue') /\ \A i \in 1 .. Len(queue') : queue'[i].ticket <= tickets'
      BY <1>0, <1>a, <1>c, <2>0 DEF BatcherIInv, TicketOrder, Increasing
    <2>2. ASSUME NEW q \in Runners
          PROVE  /\ Increasing(jobs'[q])
                 /\ \A i \in 1 .. Len(jobs'[q]) : jobs'[q][i].ticket <= tickets'
                 /\ \A i \in 1 .. Len(jobs'[q]), j \in 1 .. Len(queue') : jobs'[q][i].ticket < queue'[j].ticket
      <3>1. CASE q = r
        <4>1. jobs'[q] = SubSeq(queue, 1, n)
          BY <1>a, <3>1 DEF BatcherIInv, BatcherTypeOK
        <4>2. Increasing(jobs'[q]) /\ \A i \in 1 .. Len(jobs'[q]) : jobs'[q][i].ticket <= tickets'
          BY <1>0, <1>a, <1>b, <2>0, <4>1 DEF BatcherIInv, TicketOrder, Increasing
        <4>3. ASSUME NEW i \in 1 .. Len(jobs'[q]), NEW j \in 1 .. Len(queue')
              PROVE  jobs'[q][i].ticket < queue'[j].ticket
          <5>1. i \in 1 .. Len(queue) /\ n + j \in 1 .. Len(queue) /\ i < n + j
            BY <1>0, <1>b, <1>c, <4>1
          <5>2. jobs'[q][i] = queue[i] /\ queue'[j] = queue[n + j]
            BY <1>0, <1>b, <1>c, <4>1
          <5> QED BY <5>1, <5>2 DEF BatcherIInv, TicketOrder, Increasing
        <4> QED BY <4>2, <4>3
      <3>2. CASE q # r
        <4>1. jobs'[q] = jobs[q]
          BY <1>a, <3>2 DEF BatcherIInv, BatcherTypeOK
        <4>2. Increasing(jobs'[q]) /\ \A i \in 1 .. Len(jobs'[q]) : jobs'[q][i].ticket <= tickets'
          BY <1>a, <4>1 DEF BatcherIInv, TicketOrder
        <4>3. ASSUME NEW i \in 1 .. Len(jobs'[q]), NEW j \in 1 .. Len(queue')
              PROVE  jobs'[q][i].ticket < queue'[j].ticket
          <5>1. n + j \in 1 .. Len(queue) /\ queue'[j] = queue[n + j]
            BY <1>0, <1>c
          <5> QED BY <4>1, <5>1 DEF BatcherIInv, TicketOrder
        <4> QED BY <4>2, <4>3
      <3> QED BY <3>1, <3>2
    <2> QED BY <2>1, <2>2 DEF TicketOrder
  <1>6. Limits'
    <2>1. ASSUME NEW q \in Runners
          PROVE  Len(jobs'[q]) <= MaximumItems /\ (Len(jobs'[q]) > 1 => TotalBytes(jobs'[q]) <= MaximumBytes)
      <3>1. CASE q = r
        <4>1. jobs'[q] = SubSeq(queue, 1, n)
          BY <1>a, <3>1 DEF BatcherIInv, BatcherTypeOK
        <4> QED BY <1>0, <1>b, <4>1 DEF Fits
      <3>2. CASE q # r
        BY <1>a, <3>2 DEF BatcherIInv, BatcherTypeOK, Limits
      <3> QED BY <3>1, <3>2
    <2> QED BY <2>1 DEF Limits
  <1> QED BY <1>1, <1>2, <1>3, <1>4, <1>5, <1>6 DEF BatcherIInv

\* The flag goes down only with an empty queue, in the same step.
LEMMA RecheckIInv ==
    ASSUME BatcherIInv, NEW r \in Runners, Recheck(r)
    PROVE  BatcherIInv'
  <1>1. BatcherTypeOK'
    BY DEF BatcherIInv, BatcherTypeOK, Recheck
  <1>2. Ownership'
    <2>1. running /\ DrainTaskOwns(r)
      BY DEF BatcherIInv, BatcherTypeOK, Ownership, DrainTaskOwns, LeaderOwns, Recheck
    <2>2. CASE queue = <<>>
      BY <2>1, <2>2 DEF BatcherIInv, BatcherTypeOK, Ownership, DrainTaskOwns, Recheck
    <2>3. CASE queue # <<>>
      <3>1. DrainTaskOwns(r)' /\ running'
        BY <2>1, <2>3 DEF BatcherIInv, BatcherTypeOK, DrainTaskOwns, Recheck
      <3> QED BY <3>1 DEF Ownership
    <2> QED BY <2>2, <2>3
  <1>3. JobsHeld'
    BY DEF BatcherIInv, BatcherTypeOK, JobsHeld, Recheck
  <1>4. NoEarlyAnswer' /\ OwnAnswer'
    BY DEF BatcherIInv, NoEarlyAnswer, OwnAnswer, Recheck
  <1>5. TicketOrder' /\ Limits'
    BY DEF BatcherIInv, TicketOrder, Increasing, Limits, Recheck
  <1> QED BY <1>1, <1>2, <1>3, <1>4, <1>5 DEF BatcherIInv

\* An answered caller gets the output of its own ticket, or an error.
LEMMA ProcessIInv ==
    ASSUME BatcherIInv, NEW r \in Runners, Process(r)
    PROVE  BatcherIInv'
  <1>0. PICK result \in [Callers -> [output : 0 .. MaxTickets, error : Errors]] :
          /\ answer' = [c \in Callers |-> IF Answered(c, r) THEN result[c] ELSE answer[c]]
          /\ \A c \in Callers : Answered(c, r) => result[c].output \in {0, ticket[c]}
    <2> DEFINE own == [c \in Callers |-> [output |-> ticket[c], error |-> "none"]]
               fail(e) == [c \in Callers |-> [output |-> 0, error |-> e]]
    <2>1. /\ own \in [Callers -> [output : 0 .. MaxTickets, error : Errors]]
          /\ fail("count") \in [Callers -> [output : 0 .. MaxTickets, error : Errors]]
          /\ fail("processor") \in [Callers -> [output : 0 .. MaxTickets, error : Errors]]
      BY BatcherAssumption DEF BatcherIInv, BatcherTypeOK, Errors
    <2>2. ASSUME NEW c \in Callers, Answered(c, r) PROVE OutputFor(c, r) = own[c]
      BY <2>2 DEF Answered, OutputFor, Position
    <2>3. CASE Respond(r, LAMBDA c : OutputFor(c, r))
      <3>1. answer' = [c \in Callers |-> IF Answered(c, r) THEN own[c] ELSE answer[c]]
        BY <2>2, <2>3 DEF Respond
      <3> QED BY <2>1, <3>1
    <2>4. CASE Respond(r, LAMBDA c : Failure("count"))
      <3>1. answer' = [c \in Callers |-> IF Answered(c, r) THEN fail("count")[c] ELSE answer[c]]
        BY <2>4 DEF Respond, Failure
      <3> QED BY <2>1, <3>1
    <2>5. CASE Respond(r, LAMBDA c : Failure("processor"))
      <3>1. answer' = [c \in Callers |-> IF Answered(c, r) THEN fail("processor")[c] ELSE answer[c]]
        BY <2>5 DEF Respond, Failure
      <3> QED BY <2>1, <3>1
    <2> QED BY <2>3, <2>4, <2>5 DEF Process
  <1>a. /\ caller' = [c \in Callers |-> IF Answered(c, r) THEN "idle" ELSE caller[c]]
        /\ jobs' = [jobs EXCEPT ![r] = <<>>] /\ runner' = [runner EXCEPT ![r] = "delay"]
        /\ runner[r] = "processing" /\ UNCHANGED <<queue, running, ticket, tickets>>
    BY DEF Process, Respond
  <1>1. BatcherTypeOK'
    BY <1>0, <1>a DEF BatcherIInv, BatcherTypeOK
  <1>2. Ownership'
    <2>1. running /\ DrainTaskOwns(r)
      BY <1>a DEF BatcherIInv, BatcherTypeOK, Ownership, DrainTaskOwns, LeaderOwns
    <2>2. DrainTaskOwns(r)'
      BY <1>a, <2>1 DEF BatcherIInv, BatcherTypeOK, DrainTaskOwns
    <2> QED BY <1>a, <2>1, <2>2 DEF Ownership
  <1>3. JobsHeld'
    BY <1>a DEF BatcherIInv, BatcherTypeOK, JobsHeld
  <1>4. NoEarlyAnswer' /\ OwnAnswer'
    BY <1>0, <1>a DEF BatcherIInv, BatcherTypeOK, NoEarlyAnswer, OwnAnswer, Answered
  <1>5. TicketOrder' /\ Limits'
    <2>1. \A q \in Runners : jobs'[q] = <<>> \/ jobs'[q] = jobs[q]
      BY <1>a DEF BatcherIInv, BatcherTypeOK
    <2> QED BY <1>a, <2>1, BatcherAssumption DEF BatcherIInv, TicketOrder, Increasing, Limits
  <1> QED BY <1>1, <1>2, <1>3, <1>4, <1>5 DEF BatcherIInv

\* A stuttering step preserves the inductive invariant.
LEMMA BatcherStutterIInv == ASSUME BatcherIInv, UNCHANGED batcherVars PROVE BatcherIInv'
  BY DEF BatcherIInv, BatcherTypeOK, Ownership, DrainTaskOwns, LeaderOwns, JobsHeld, NoEarlyAnswer, TicketOrder,
     Increasing, Limits, OwnAnswer, batcherVars

-----------------------------------------------------------------------------
\* The inductive invariant holds in every reachable state of the batcher.
THEOREM BatcherInvariant == BatcherSpec => []BatcherIInv
  <1>1. ASSUME BatcherIInv, [BatcherNext]_batcherVars PROVE BatcherIInv'
    BY <1>1, SubmitRefusedIInv, SubmitIInv, AbandonIInv, SpawnDrainIInv, TakeIInv, RecheckIInv, ProcessIInv,
       BatcherStutterIInv DEF BatcherNext, Drain
  <1> QED BY <1>1, InitBatcherIInv, PTL DEF BatcherSpec

\* BatcherTypeOK is an invariant of the batcher.
THEOREM BatcherTypeCorrect == BatcherSpec => []BatcherTypeOK
  <1>1. BatcherIInv => BatcherTypeOK BY DEF BatcherIInv
  <1> QED BY <1>1, BatcherInvariant, PTL

\* Ownership, counted: the flag is up exactly while one task or one leading
\* caller owns the queue.
LEMMA OwnershipCounted == BatcherIInv => OneOwner
  <1> SUFFICES ASSUME BatcherIInv PROVE OneOwner
    OBVIOUS
  <1> DEFINE tasks == {r \in Runners : runner[r] # "ended"}
             leaders == {c \in Callers : caller[c] = "leading"}
  <1>1. CASE ~running
    <2>1. tasks = {} /\ leaders = {}
      BY <1>1 DEF BatcherIInv, Ownership
    <2>2. Cardinality(tasks) = 0 /\ Cardinality(leaders) = 0
      BY <2>1, FS_EmptySet
    <2>3. queue = <<>>
      BY <1>1 DEF BatcherIInv, Ownership
    <2> QED BY <1>1, <2>2, <2>3 DEF OneOwner
  <1>2. CASE running /\ \E r \in Runners : DrainTaskOwns(r)
    <2>1. PICK r \in Runners : tasks = {r} /\ leaders = {}
      BY <1>2 DEF DrainTaskOwns
    <2>2. Cardinality(tasks) = 1 /\ Cardinality(leaders) = 0
      BY <2>1, FS_EmptySet, FS_Singleton
    <2> QED BY <1>2, <2>2 DEF OneOwner
  <1>3. CASE running /\ \E c \in Callers : LeaderOwns(c)
    <2>1. PICK c \in Callers : tasks = {} /\ leaders = {c}
      BY <1>3 DEF LeaderOwns
    <2>2. Cardinality(tasks) = 0 /\ Cardinality(leaders) = 1
      BY <2>1, FS_EmptySet, FS_Singleton
    <2> QED BY <1>3, <2>2 DEF OneOwner
  <1> QED BY <1>1, <1>2, <1>3 DEF BatcherIInv, BatcherTypeOK, Ownership

\* The order of tickets along a batch and the queue behind it.
LEMMA OrderConcatenated == BatcherIInv => BatchesBoundedAndOrdered
  <1> SUFFICES ASSUME BatcherIInv PROVE BatchesBoundedAndOrdered
    OBVIOUS
  <1>1. ASSUME NEW r \in Runners,
               NEW i \in DOMAIN (jobs[r] \o queue), NEW j \in DOMAIN (jobs[r] \o queue), i < j
        PROVE  (jobs[r] \o queue)[i].ticket < (jobs[r] \o queue)[j].ticket
    <2>1. jobs[r] \in Seq(Job) /\ queue \in Seq(Job)
      BY DEF BatcherIInv, BatcherTypeOK
    <2>2. /\ i \in 1 .. Len(jobs[r]) + Len(queue) /\ j \in 1 .. Len(jobs[r]) + Len(queue)
          /\ \A k \in 1 .. Len(jobs[r]) + Len(queue) :
               (jobs[r] \o queue)[k] = IF k <= Len(jobs[r]) THEN jobs[r][k] ELSE queue[k - Len(jobs[r])]
      BY <2>1
    <2>3. Len(jobs[r]) \in Nat /\ Len(queue) \in Nat
      BY <2>1
    <2> DEFINE m == Len(jobs[r])
    <2>4. CASE j <= m
      <3>1. i \in 1 .. m /\ j \in 1 .. m
        BY <1>1, <2>2, <2>3, <2>4
      <3> QED BY <1>1, <2>2, <2>3, <3>1 DEF BatcherIInv, TicketOrder, Increasing
    <2>5. CASE i <= m /\ ~(j <= m)
      <3>1. i \in 1 .. m /\ j - m \in 1 .. Len(queue)
        BY <1>1, <2>2, <2>3, <2>5
      <3> QED BY <2>2, <2>3, <2>5, <3>1 DEF BatcherIInv, TicketOrder
    <2>6. CASE ~(i <= m)
      <3>1. i - m \in 1 .. Len(queue) /\ j - m \in 1 .. Len(queue) /\ i - m < j - m /\ ~(j <= m)
        BY <1>1, <2>2, <2>3, <2>6
      <3> QED BY <2>2, <2>3, <2>6, <3>1 DEF BatcherIInv, TicketOrder, Increasing
    <2> QED BY <1>1, <2>2, <2>3, <2>4, <2>5, <2>6
  <1> QED BY <1>1 DEF BatchesBoundedAndOrdered, BatcherIInv, Limits

\* One task drains at a time and none is missing while there is work, every
\* caller gets the output for its own input, and batches keep their limits and
\* the order of submission.
THEOREM BatcherIsCorrect == BatcherSpec => []BatcherCorrect
  <1>1. BatcherIInv => BatcherCorrect
    BY OwnershipCounted, OrderConcatenated DEF BatcherCorrect, BatcherIInv
  <1> QED BY <1>1, BatcherInvariant, PTL

-----------------------------------------------------------------------------
(* DurabilityScheduler                                                     *)

Targets(r) == Requests[r].targets

\* submit() is called after the data was written, and a barrier makes durable
\* only what was written.
DataWritten ==
    /\ \A r \in Ids : call[r] # "none" => \A d \in Targets(r) : r \in written[d]
    /\ \A d \in Devices : durable[d] \subseteq written[d]

\* The requests on their way through the loop were submitted.
Submitted ==
    /\ \A i \in 1 .. Len(channel) : call[channel[i]] # "none"
    /\ \A i \in 1 .. Len(batch) : call[batch[i]] # "none"
    /\ \A i \in 1 .. Len(deferred) : call[deferred[i]] # "none"

\* What an outcome says of the batch under way, and that the live requests of
\* the batch have their outcomes, or will have.
OutcomesSound == worker \in {"barriers", "answer"} =>
    /\ \A g \in DOMAIN outcomes : outcomes[g] # 0 =>
         \A i \in 1 .. Len(batch) : g[1] \in Targets(batch[i]) => batch[i] \in durable[g[1]]
    /\ \A g \in DOMAIN outcomes : outcomes[g] = 0 => failures > 0
    /\ \A i \in 1 .. Len(batch) : Live(batch[i]) => GroupsOf(batch[i]) \subseteq groups \cup DOMAIN outcomes
    /\ worker = "answer" => groups = {}

\* A request is put off only as the gathering ends.
GatheringDefersNothing == worker = "gather" => deferred = <<>>

SchedulerIInv ==
    /\ SchedulerTypeOK /\ DataWritten /\ Submitted /\ OutcomesSound /\ GatheringDefersNothing
    /\ ReceiptIsDurable /\ ErrorsHonest /\ BatchesInOrder

-----------------------------------------------------------------------------
\* The next barrier is one of those still to run: a BTreeMap has a first key.
LEMMA NextGroupIsOne ==
    ASSUME groups \subseteq Groups, groups # {}
    PROVE  NextGroup \in groups
  <1>0. \A g \in groups : g[1] \in Nat /\ g[2] \in Nat
    BY SchedulerAssumption
  <1> DEFINE devices == {g[1] : g \in groups}
  <1>1. PICK d \in devices : \A e \in devices : d <= e
    BY <1>0, LeastNatural
  <1> DEFINE orders == {g[2] : g \in {h \in groups : h[1] = d}}
  <1>2. PICK o \in orders : \A p \in orders : o <= p
    <2>1. orders # {} /\ orders \subseteq Nat
      BY <1>0, <1>1
    <2> QED BY <2>1, LeastNatural
  <1>3. PICK g \in groups : g[1] = d /\ g[2] = o
    BY <1>2
  <1>4. ASSUME NEW h \in groups PROVE g[1] < h[1] \/ (g[1] = h[1] /\ g[2] <= h[2])
    <2>1. h[1] \in devices /\ d <= h[1]
      BY <1>1
    <2>2. CASE h[1] = d
      <3>1. h[2] \in orders
        BY <2>2
      <3> QED BY <1>2, <1>3, <2>2, <3>1
    <2>3. CASE h[1] # d
      BY <1>0, <1>3, <2>1, <2>3
    <2> QED BY <2>2, <2>3
  <1>5. \E x \in groups : \A h \in groups : x[1] < h[1] \/ (x[1] = h[1] /\ x[2] <= h[2])
    BY <1>4
  <1> QED BY <1>5 DEF NextGroup

\* Moving the head of a sequence to the end of the one before it.
LEMMA HeadMoves ==
    ASSUME NEW S, NEW x \in Seq(S), NEW y \in Seq(S), y # <<>>
    PROVE  Append(x, Head(y)) \o Tail(y) = x \o y
  <1>1. Head(y) \in S /\ Tail(y) \in Seq(S) /\ Len(Tail(y)) = Len(y) - 1 /\ Len(y) \in Nat /\ Len(y) # 0
        /\ \A i \in 1 .. Len(Tail(y)) : Tail(y)[i] = y[i + 1]
    OBVIOUS
  <1> DEFINE left == Append(x, Head(y)) \o Tail(y)
             right == x \o y
  <1>2. left \in Seq(S) /\ right \in Seq(S) /\ Len(left) = Len(right) /\ Len(right) = Len(x) + Len(y) /\ Len(x) \in Nat
    BY <1>1
  <1>3. ASSUME NEW i \in 1 .. Len(right) PROVE left[i] = right[i]
    <2>1. CASE i <= Len(x)
      BY <1>1, <1>2, <2>1
    <2>2. CASE i = Len(x) + 1
      BY <1>1, <1>2, <2>2
    <2>3. CASE i > Len(x) + 1
      BY <1>1, <1>2, <2>3
    <2> QED BY <1>2, <2>1, <2>2, <2>3
  <1> HIDE DEF left, right
  <1>4. left = right
    BY <1>2, <1>3, SeqEqual
  <1> QED BY <1>4 DEF left, right

\* Appending to the last part of a concatenation.
LEMMA AppendMoves ==
    ASSUME NEW S, NEW x \in Seq(S), NEW y \in Seq(S), NEW e \in S
    PROVE  x \o Append(y, e) = Append(x \o y, e)
  <1>1. Append(y, e) = y \o <<e>> /\ Append(x \o y, e) = (x \o y) \o <<e>> /\ <<e>> \in Seq(S)
    BY AppendIsConcat, ConcatProperties
  <1> QED BY <1>1, ConcatAssociative

\* The data of a request lies on known devices.
LEMMA TargetsAreDevices ==
    ASSUME NEW r \in Ids
    PROVE  Targets(r) \subseteq Devices /\ GroupsOf(r) \subseteq Groups
  BY DEF Targets, Devices, Groups, GroupsOf

\* Sizes are numbers.
LEMMA BytesAreNumbers == \A r \in Ids : Requests[r].bytes \in Nat
  BY SchedulerAssumption

-----------------------------------------------------------------------------
\* The initial state satisfies the inductive invariant.
LEMMA InitSchedulerIInv == SchedulerInit => SchedulerIInv
  <1> SUFFICES ASSUME SchedulerInit PROVE SchedulerIInv
    OBVIOUS
  <1>1. SchedulerTypeOK
    <2>1. NoReply \in [result : Results, proofs : SUBSET Nat]
      BY DEF NoReply, Results
    <2>2. <<>> \in Seq(Ids) /\ Len(<<>>) = 0
      OBVIOUS
    <2>3. reply \in [Ids -> [result : Results, proofs : SUBSET Nat]]
      BY <2>1 DEF SchedulerInit
    <2>4. /\ channel \in Seq(Ids) /\ Len(channel) <= QueueDepth /\ batch \in Seq(Ids)
          /\ deferred \in Seq(Ids) /\ Len(deferred) <= 1 /\ entered \in Seq(Ids) /\ executed \in Seq(Ids)
      BY <2>2, SchedulerAssumption DEF SchedulerInit
    <2>5. /\ call \in [Ids -> {"none", "sending", "waiting", "returned"}] /\ cancelled \subseteq Ids /\ expired \subseteq Ids
          /\ worker \in {"recv", "gather", "execute", "barriers", "answer", "ended"}
          /\ groups \subseteq Groups /\ DOMAIN outcomes = {}
          /\ written \in [Devices -> SUBSET Ids] /\ durable \in [Devices -> SUBSET Ids]
      BY DEF SchedulerInit
    <2>6. batchBytes \in Nat /\ barriers \in Nat /\ failures \in 0 .. MaxFailures
      BY SchedulerAssumption DEF SchedulerInit
    <2> QED BY <2>3, <2>4, <2>5, <2>6 DEF SchedulerTypeOK
  <1>2. DataWritten /\ Submitted /\ OutcomesSound /\ GatheringDefersNothing
    BY DEF SchedulerInit, DataWritten, Submitted, OutcomesSound, GatheringDefersNothing
  <1>3. ReceiptIsDurable /\ ErrorsHonest
    BY DEF SchedulerInit, ReceiptIsDurable, ErrorsHonest, NoReply
  <1>4. BatchesInOrder
    BY SchedulerAssumption DEF SchedulerInit, BatchesInOrder
  <1> QED BY <1>1, <1>2, <1>3, <1>4 DEF SchedulerIInv

\* submit(): the data is written first; a refusal tells the truth.
LEMMA SubmitRequestIInv ==
    ASSUME SchedulerIInv, NEW r \in Ids, SubmitRequest(r)
    PROVE  SchedulerIInv'
  <1>0. /\ UNCHANGED <<cancelled, expired, channel, worker, batch, batchBytes, deferred, groups, outcomes, barriers, failures,
                       durable, entered, executed>>
        /\ written' = [d \in Devices |-> IF d \in Targets(r) THEN written[d] \cup {r} ELSE written[d]]
        /\ call[r] = "none"
        /\ \/ call' = [call EXCEPT ![r] = "sending"] /\ reply' = reply
           \/ /\ call' = [call EXCEPT ![r] = "returned"]
              /\ reply' = [reply EXCEPT ![r] = [NoReply EXCEPT !.result = Refusal(r)]]
    BY DEF SubmitRequest, Return, Targets, gathered
  <1>a. /\ Refusal(r) \in {"none", "missing_target", "cancelled", "deadline"}
        /\ Refusal(r) = "cancelled" => r \in cancelled
        /\ Refusal(r) = "deadline" => r \in expired
    BY DEF Refusal
  <1>1. SchedulerTypeOK'
    <2>1. [NoReply EXCEPT !.result = Refusal(r)] \in [result : Results, proofs : SUBSET Nat]
      BY <1>a DEF NoReply, Results
    <2>2. reply' \in [Ids -> [result : Results, proofs : SUBSET Nat]]
      BY <1>0, <2>1 DEF SchedulerIInv, SchedulerTypeOK
    <2>3. call' \in [Ids -> {"none", "sending", "waiting", "returned"}] /\ written' \in [Devices -> SUBSET Ids]
      BY <1>0 DEF SchedulerIInv, SchedulerTypeOK
    <2> QED BY <1>0, <2>2, <2>3 DEF SchedulerIInv, SchedulerTypeOK
  <1>2. DataWritten'
    BY <1>0, TargetsAreDevices DEF SchedulerIInv, SchedulerTypeOK, DataWritten
  <1>3. Submitted'
    BY <1>0 DEF SchedulerIInv, SchedulerTypeOK, Submitted
  <1>4. OutcomesSound' /\ GatheringDefersNothing' /\ BatchesInOrder'
    BY <1>0 DEF SchedulerIInv, OutcomesSound, GatheringDefersNothing, BatchesInOrder, Live
  <1>5. ReceiptIsDurable' /\ ErrorsHonest'
    <2>1. \A q \in Ids : reply'[q] = reply[q] \/ (q = r /\ reply'[q].result = Refusal(r))
      BY <1>0 DEF SchedulerIInv, SchedulerTypeOK, NoReply
    <2> QED BY <1>0, <1>a, <2>1 DEF SchedulerIInv, ReceiptIsDurable, ErrorsHonest
  <1> QED BY <1>1, <1>2, <1>3, <1>4, <1>5 DEF SchedulerIInv

\* A request enters at the end of the channel.
LEMMA EnterIInv ==
    ASSUME SchedulerIInv, NEW r \in Ids, Enter(r)
    PROVE  SchedulerIInv'
  <1>0. /\ UNCHANGED <<cancelled, expired, worker, batch, batchBytes, deferred, groups, outcomes, barriers, failures, reply,
                       written, durable, executed>>
        /\ call[r] = "sending" /\ Len(channel) < QueueDepth
        /\ channel' = Append(channel, r) /\ entered' = Append(entered, r) /\ call' = [call EXCEPT ![r] = "waiting"]
    BY DEF Enter, HasRoom, gathered, caching
  <1>a. /\ channel' \in Seq(Ids) /\ Len(channel') = Len(channel) + 1 /\ Len(channel) \in Nat
        /\ \A i \in 1 .. Len(channel) : channel'[i] = channel[i]
        /\ channel'[Len(channel) + 1] = r
    BY <1>0 DEF SchedulerIInv, SchedulerTypeOK
  <1>1. SchedulerTypeOK'
    BY <1>0, <1>a, SchedulerAssumption DEF SchedulerIInv, SchedulerTypeOK
  <1>2. DataWritten'
    BY <1>0 DEF SchedulerIInv, SchedulerTypeOK, DataWritten
  <1>3. Submitted'
    <2>1. \A q \in Ids : call[q] # "none" => call'[q] # "none"
      BY <1>0 DEF SchedulerIInv, SchedulerTypeOK
    <2>2. call'[r] # "none"
      BY <1>0 DEF SchedulerIInv, SchedulerTypeOK
    <2>3. \A i \in 1 .. Len(channel) : channel[i] \in Ids /\ call[channel[i]] # "none"
      BY DEF SchedulerIInv, SchedulerTypeOK, Submitted
    <2>4. ASSUME NEW i \in 1 .. Len(channel') PROVE call'[channel'[i]] # "none"
      <3>1. i \in 1 .. Len(channel) \/ i = Len(channel) + 1
        BY <1>a
      <3> QED BY <1>a, <2>1, <2>2, <2>3, <3>1
    <2>5. \A i \in 1 .. Len(batch) : batch[i] \in Ids /\ call[batch[i]] # "none"
      BY DEF SchedulerIInv, SchedulerTypeOK, Submitted
    <2>6. \A i \in 1 .. Len(deferred) : deferred[i] \in Ids /\ call[deferred[i]] # "none"
      BY DEF SchedulerIInv, SchedulerTypeOK, Submitted
    <2> QED BY <1>0, <2>1, <2>4, <2>5, <2>6 DEF Submitted
  <1>4. OutcomesSound' /\ GatheringDefersNothing' /\ ReceiptIsDurable' /\ ErrorsHonest'
    BY <1>0 DEF SchedulerIInv, OutcomesSound, GatheringDefersNothing, ReceiptIsDurable, ErrorsHonest, Live
  <1>5. BatchesInOrder'
    <2> DEFINE mid == IF worker \in {"gather", "execute"} THEN batch ELSE <<>>
               ahead == executed \o mid \o deferred
    <2>1. ahead \in Seq(Ids) /\ channel \in Seq(Ids)
      BY ConcatProperties DEF SchedulerIInv, SchedulerTypeOK
    <2>3. entered = ahead \o channel
      BY DEF SchedulerIInv, BatchesInOrder
    <2> HIDE DEF ahead
    <2>2. ahead \o Append(channel, r) = Append(ahead \o channel, r)
      BY <2>1, AppendMoves
    <2>4. entered' = ahead \o channel'
      BY <1>0, <2>2, <2>3
    <2> QED BY <1>0, <2>4 DEF SchedulerIInv, BatchesInOrder, ahead
  <1> QED BY <1>1, <1>2, <1>3, <1>4, <1>5 DEF SchedulerIInv

\* A cancellation or a deadline only makes a request less wanted.
LEMMA CancelRequestIInv ==
    ASSUME SchedulerIInv, NEW r \in Ids, CancelRequest(r) \/ ExpireRequest(r)
    PROVE  SchedulerIInv'
  <1>0. /\ UNCHANGED <<call, channel, worker, batch, batchBytes, deferred, groups, outcomes, barriers, failures, reply,
                       written, durable, entered, executed>>
        /\ cancelled \subseteq cancelled' /\ expired \subseteq expired'
        /\ cancelled' \subseteq Ids /\ expired' \subseteq Ids
    BY DEF SchedulerIInv, SchedulerTypeOK, CancelRequest, ExpireRequest, gathered, caching
  <1>1. SchedulerTypeOK' /\ DataWritten' /\ Submitted'
    BY <1>0 DEF SchedulerIInv, SchedulerTypeOK, DataWritten, Submitted
  <1>2. OutcomesSound'
    BY <1>0 DEF SchedulerIInv, OutcomesSound, Live
  <1>3. GatheringDefersNothing' /\ ReceiptIsDurable' /\ BatchesInOrder'
    BY <1>0 DEF SchedulerIInv, GatheringDefersNothing, ReceiptIsDurable, BatchesInOrder
  <1>4. ErrorsHonest'
    BY <1>0 DEF SchedulerIInv, ErrorsHonest
  <1> QED BY <1>1, <1>2, <1>3, <1>4 DEF SchedulerIInv

\* A batch begins with the request that was put off, ...
LEMMA BeginDeferredIInv ==
    ASSUME SchedulerIInv, BeginDeferred
    PROVE  SchedulerIInv'
  <1>0. /\ UNCHANGED <<call, cancelled, expired, channel, groups, outcomes, barriers, failures, reply,
                       written, durable, entered, executed>>
        /\ worker = "recv" /\ deferred # <<>> /\ batch' = deferred /\ batchBytes' = Requests[deferred[1]].bytes
        /\ deferred' = <<>> /\ worker' = "gather"
    BY DEF BeginDeferred, caching
  <1>a. deferred \in Seq(Ids) /\ Len(deferred) = 1 /\ deferred[1] \in Ids
    <2>1. deferred \in Seq(Ids) /\ Len(deferred) <= 1
      BY DEF SchedulerIInv, SchedulerTypeOK
    <2>2. Len(deferred) \in Nat /\ Len(deferred) # 0
      BY <1>0, <2>1, EmptySeq, LenProperties
    <2>4. \A n \in Nat : n <= 1 /\ n # 0 => n = 1
      OBVIOUS
    <2>3. Len(deferred) = 1
      BY <2>1, <2>2, <2>4, Zenon
    <2> QED BY <2>1, <2>3, ElementOfSeq
  <1>b. <<>> \in Seq(Ids) /\ Len(<<>>) = 0
    OBVIOUS
  <1>1. SchedulerTypeOK'
    <2>1. batchBytes' \in Nat
      BY <1>0, <1>a, BytesAreNumbers
    <2> QED BY <1>0, <1>a, <1>b, <2>1 DEF SchedulerIInv, SchedulerTypeOK
  <1>2. DataWritten' /\ Submitted'
    BY <1>0, <1>a, <1>b DEF SchedulerIInv, DataWritten, Submitted
  <1>3. OutcomesSound' /\ GatheringDefersNothing' /\ ReceiptIsDurable' /\ ErrorsHonest'
    BY <1>0 DEF SchedulerIInv, OutcomesSound, GatheringDefersNothing, ReceiptIsDurable, ErrorsHonest
  <1>4. BatchesInOrder'
    <2>1. entered = executed \o <<>> \o deferred \o channel
      BY <1>0 DEF SchedulerIInv, BatchesInOrder
    <2>2. executed \o <<>> = executed /\ (executed \o deferred) \o <<>> = executed \o deferred
      BY ConcatEmptySeq, ConcatProperties, <1>a DEF SchedulerIInv, SchedulerTypeOK
    <2>3. entered' = executed' \o batch' \o deferred' \o channel'
      BY <1>0, <2>1, <2>2
    <2> QED BY <1>0, <1>a, <2>3, SchedulerAssumption DEF BatchesInOrder
  <1> QED BY <1>1, <1>2, <1>3, <1>4 DEF SchedulerIInv

\* ... or with the first of the channel.
LEMMA BeginReceivedIInv ==
    ASSUME SchedulerIInv, BeginReceived
    PROVE  SchedulerIInv'
  <1>0. /\ UNCHANGED <<call, cancelled, expired, deferred, groups, outcomes, barriers, failures, reply,
                       written, durable, entered, executed>>
        /\ worker = "recv" /\ deferred = <<>> /\ channel # <<>> /\ batch' = <<Head(channel)>>
        /\ batchBytes' = Requests[Head(channel)].bytes /\ channel' = Tail(channel) /\ worker' = "gather"
    BY DEF BeginReceived, MayReceive, caching
  <1>a. /\ Head(channel) \in Ids /\ Head(channel) = channel[1] /\ channel' \in Seq(Ids)
        /\ Len(channel') = Len(channel) - 1 /\ Len(channel) \in Nat /\ Len(channel) # 0
        /\ \A i \in 1 .. Len(channel') : channel'[i] = channel[i + 1]
    BY <1>0 DEF SchedulerIInv, SchedulerTypeOK
  <1>b. batch' \in Seq(Ids) /\ Len(batch') = 1 /\ batch'[1] = channel[1]
    BY <1>0, <1>a
  <1>1. SchedulerTypeOK'
    <2>1. batchBytes' \in Nat
      BY <1>0, <1>a, BytesAreNumbers
    <2>2. Len(channel') <= QueueDepth
      BY <1>a, SchedulerAssumption DEF SchedulerIInv, SchedulerTypeOK
    <2> QED BY <1>0, <1>a, <1>b, <2>1, <2>2 DEF SchedulerIInv, SchedulerTypeOK
  <1>2. DataWritten' /\ Submitted'
    BY <1>0, <1>a, <1>b DEF SchedulerIInv, DataWritten, Submitted
  <1>3. OutcomesSound' /\ GatheringDefersNothing' /\ ReceiptIsDurable' /\ ErrorsHonest'
    BY <1>0 DEF SchedulerIInv, OutcomesSound, GatheringDefersNothing, ReceiptIsDurable, ErrorsHonest
  <1>4. BatchesInOrder'
    <2>0. executed \in Seq(Ids) /\ channel \in Seq(Ids)
      BY DEF SchedulerIInv, SchedulerTypeOK
    <2>1. entered = executed \o <<>> \o <<>> \o channel
      BY <1>0 DEF SchedulerIInv, BatchesInOrder
    <2>2. executed \o <<>> = executed
      BY <2>0, ConcatEmptySeq
    <2>3. executed \o batch' = Append(executed, Head(channel))
      BY <1>0, <1>a, <2>0, AppendIsConcat
    <2>4. (executed \o batch') \o <<>> = executed \o batch'
      BY <1>b, <2>0, ConcatEmptySeq, ConcatProperties
    <2>5. entered' = executed' \o batch' \o deferred' \o channel'
      BY <1>0, <2>0, <2>1, <2>2, <2>3, <2>4, HeadMoves
    <2> QED BY <1>0, <1>b, <2>5, SchedulerAssumption DEF BatchesInOrder
  <1> QED BY <1>1, <1>2, <1>3, <1>4 DEF SchedulerIInv

\* Gathering takes the next request, or puts it off.
LEMMA GatherIInv ==
    ASSUME SchedulerIInv, Gather
    PROVE  SchedulerIInv'
  <1>0. /\ UNCHANGED <<call, cancelled, expired, groups, outcomes, barriers, failures, reply,
                       written, durable, entered, executed>>
        /\ worker = "gather" /\ deferred = <<>> /\ Len(batch) < MaximumRequests /\ channel # <<>> /\ channel' = Tail(channel)
    BY DEF SchedulerIInv, GatheringDefersNothing, Gather, caching
  <1>a. /\ Head(channel) \in Ids /\ Head(channel) = channel[1] /\ channel' \in Seq(Ids)
        /\ Len(channel') = Len(channel) - 1 /\ Len(channel) \in Nat /\ Len(channel) # 0
        /\ \A i \in 1 .. Len(channel') : channel'[i] = channel[i + 1]
    BY <1>0 DEF SchedulerIInv, SchedulerTypeOK
  <1>b. executed \in Seq(Ids) /\ channel \in Seq(Ids) /\ batch \in Seq(Ids) /\ Len(batch) \in Nat
    BY DEF SchedulerIInv, SchedulerTypeOK
  <1>c. entered = executed \o batch \o channel
    <2>1. entered = executed \o batch \o <<>> \o channel
      BY <1>0 DEF SchedulerIInv, BatchesInOrder
    <2> QED BY <1>b, <2>1, ConcatEmptySeq, ConcatProperties
  <1>d. OutcomesSound' /\ ReceiptIsDurable' /\ ErrorsHonest' /\ DataWritten'
    <2>1. worker' \notin {"barriers", "answer"}
      BY <1>0 DEF Gather
    <2> QED BY <1>0, <2>1 DEF SchedulerIInv, OutcomesSound, ReceiptIsDurable, ErrorsHonest, DataWritten
  <1>e. CASE /\ FitsBatch(Head(channel)) /\ batch' = Append(batch, Head(channel))
             /\ batchBytes' = batchBytes + Requests[Head(channel)].bytes /\ UNCHANGED <<worker, deferred>>
    <2>1. /\ batch' \in Seq(Ids) /\ Len(batch') = Len(batch) + 1
          /\ \A i \in 1 .. Len(batch) : batch'[i] = batch[i]
          /\ batch'[Len(batch) + 1] = channel[1]
      BY <1>a, <1>b, <1>e
    <2>2. SchedulerTypeOK'
      <3>1. batchBytes' \in Nat
        BY <1>a, <1>e, BytesAreNumbers DEF SchedulerIInv, SchedulerTypeOK
      <3>2. Len(channel') <= QueueDepth
        BY <1>a, SchedulerAssumption DEF SchedulerIInv, SchedulerTypeOK
      <3> QED BY <1>0, <1>a, <1>e, <2>1, <3>1, <3>2 DEF SchedulerIInv, SchedulerTypeOK
    <2>3. Submitted'
      BY <1>0, <1>a, <1>b, <1>e, <2>1 DEF SchedulerIInv, Submitted
    <2>4. entered' = executed' \o batch' \o deferred' \o channel'
      <3>1. executed \o Append(batch, Head(channel)) = Append(executed \o batch, Head(channel))
        BY <1>a, <1>b, AppendMoves
      <3>2. executed \o batch \in Seq(Ids)
        BY <1>b, ConcatProperties
      <3>3. (executed \o batch') \o channel' = (executed \o batch) \o channel
        BY <1>0, <1>b, <1>e, <3>1, <3>2, HeadMoves
      <3>4. (executed \o batch') \o <<>> = executed \o batch'
        BY <1>b, <2>1, ConcatEmptySeq, ConcatProperties
      <3> QED BY <1>0, <1>c, <1>e, <3>3, <3>4
    <2>5. BatchesInOrder'
      <3>1. Len(batch') <= MaximumRequests /\ batchBytes' <= MaximumBatchBytes
        BY <1>0, <1>b, <1>e, <2>1, SchedulerAssumption DEF FitsBatch
      <3>2. worker' = "gather"
        BY <1>0, <1>e
      <3> QED BY <2>4, <3>1, <3>2 DEF BatchesInOrder
    <2> QED BY <1>0, <1>d, <1>e, <2>2, <2>3, <2>5 DEF SchedulerIInv, GatheringDefersNothing
  <1>f. CASE deferred' = <<Head(channel)>> /\ worker' = "execute" /\ UNCHANGED <<batch, batchBytes>>
    <2>1. deferred' \in Seq(Ids) /\ Len(deferred') = 1 /\ deferred'[1] = channel[1]
      BY <1>a, <1>f
    <2>2. SchedulerTypeOK'
      BY <1>0, <1>a, <1>f, <2>1, SchedulerAssumption DEF SchedulerIInv, SchedulerTypeOK
    <2>3. Submitted'
      BY <1>0, <1>a, <1>f, <2>1 DEF SchedulerIInv, Submitted
    <2>4. entered' = executed' \o batch' \o deferred' \o channel'
      <3>1. executed \o batch \in Seq(Ids)
        BY <1>b, ConcatProperties
      <3>2. (executed \o batch) \o deferred' = Append(executed \o batch, Head(channel))
        BY <1>a, <1>f, <3>1, AppendIsConcat
      <3>3. Append(executed \o batch, Head(channel)) \o Tail(channel) = (executed \o batch) \o channel
        BY <1>0, <1>b, <3>1, HeadMoves
      <3> QED BY <1>0, <1>c, <1>f, <3>2, <3>3
    <2>5. BatchesInOrder'
      BY <1>f, <2>4 DEF SchedulerIInv, BatchesInOrder
    <2> QED BY <1>d, <1>f, <2>2, <2>3, <2>5 DEF SchedulerIInv, GatheringDefersNothing
  <1> QED BY <1>e, <1>f DEF Gather, PutOff

\* The gathering ends with the batch as it is.
LEMMA StopGatheringIInv ==
    ASSUME SchedulerIInv, StopGathering
    PROVE  SchedulerIInv'
  <1>0. /\ UNCHANGED <<call, cancelled, expired, channel, batch, batchBytes, deferred, groups, outcomes, barriers, failures,
                       reply, written, durable, entered, executed>>
        /\ worker = "gather" /\ worker' = "execute"
    BY DEF StopGathering, gathered, caching
  <1>1. SchedulerTypeOK' /\ DataWritten' /\ Submitted'
    BY <1>0 DEF SchedulerIInv, SchedulerTypeOK, DataWritten, Submitted
  <1>2. OutcomesSound' /\ GatheringDefersNothing' /\ ReceiptIsDurable' /\ ErrorsHonest'
    BY <1>0 DEF SchedulerIInv, OutcomesSound, GatheringDefersNothing, ReceiptIsDurable, ErrorsHonest
  <1>3. BatchesInOrder'
    BY <1>0 DEF SchedulerIInv, BatchesInOrder
  <1> QED BY <1>1, <1>2, <1>3 DEF SchedulerIInv

\* The thread ends, or turns to the next batch.
LEMMA DisconnectIInv ==
    ASSUME SchedulerIInv, Disconnect \/ NextBatch
    PROVE  SchedulerIInv'
  <1>0. /\ UNCHANGED <<call, cancelled, expired, channel, batch, batchBytes, deferred, groups, outcomes, barriers, failures,
                       reply, written, durable, entered, executed>>
        /\ worker \in {"recv", "answer"} /\ worker' \in {"ended", "recv"}
    BY DEF Disconnect, NextBatch, gathered, caching
  <1>1. SchedulerTypeOK' /\ DataWritten' /\ Submitted'
    BY <1>0 DEF SchedulerIInv, SchedulerTypeOK, DataWritten, Submitted
  <1>2. OutcomesSound' /\ GatheringDefersNothing' /\ ReceiptIsDurable' /\ ErrorsHonest'
    BY <1>0 DEF SchedulerIInv, OutcomesSound, GatheringDefersNothing, ReceiptIsDurable, ErrorsHonest
  <1>3. BatchesInOrder'
    BY <1>0 DEF SchedulerIInv, BatchesInOrder
  <1> QED BY <1>1, <1>2, <1>3 DEF SchedulerIInv

\* Every live request of the batch has its barriers among the groups to run.
LEMMA ExecuteIInv ==
    ASSUME SchedulerIInv, Execute
    PROVE  SchedulerIInv'
  <1>0. /\ UNCHANGED <<call, cancelled, expired, channel, batch, batchBytes, deferred, barriers, failures,
                       reply, written, durable, entered>>
        /\ worker = "execute" /\ worker' = "barriers" /\ executed' = executed \o batch
        /\ groups' = UNION {GroupsOf(batch[i]) : i \in {n \in DOMAIN batch : Live(batch[n])}}
        /\ DOMAIN outcomes' = {}
    BY DEF Execute, gathered, caching
  <1>a. /\ executed \in Seq(Ids) /\ batch \in Seq(Ids) /\ deferred \in Seq(Ids) /\ channel \in Seq(Ids)
        /\ DOMAIN batch = 1 .. Len(batch) /\ \A i \in DOMAIN batch : batch[i] \in Ids
    BY DEF SchedulerIInv, SchedulerTypeOK
  <1>b. executed' \in Seq(Ids)
    BY <1>0, <1>a, ConcatProperties
  <1>1. SchedulerTypeOK'
    <2>1. groups' \subseteq Groups
      BY <1>0, <1>a, TargetsAreDevices
    <2> QED BY <1>0, <1>b, <2>1 DEF SchedulerIInv, SchedulerTypeOK
  <1>2. DataWritten' /\ Submitted' /\ GatheringDefersNothing' /\ ReceiptIsDurable' /\ ErrorsHonest'
    BY <1>0 DEF SchedulerIInv, DataWritten, Submitted, GatheringDefersNothing, ReceiptIsDurable, ErrorsHonest
  <1>3. OutcomesSound'
    <2>1. \A i \in 1 .. Len(batch) : Live(batch[i]) => GroupsOf(batch[i]) \subseteq groups'
      BY <1>0, <1>a
    <2>2. \A r : Live(r)' <=> Live(r)
      BY <1>0 DEF Live
    <2> QED BY <1>0, <2>1, <2>2 DEF OutcomesSound
  <1>4. BatchesInOrder'
    <2>1. entered = executed \o batch \o deferred \o channel
      BY <1>0 DEF SchedulerIInv, BatchesInOrder
    <2>2. executed' \o <<>> = executed'
      BY <1>b, ConcatEmptySeq
    <2>3. entered' = executed' \o <<>> \o deferred' \o channel'
      BY <1>0, <2>1, <2>2
    <2> QED BY <1>0, <2>3 DEF SchedulerIInv, BatchesInOrder
  <1> QED BY <1>1, <1>2, <1>3, <1>4 DEF SchedulerIInv

\* A barrier makes durable what the whole batch wrote to its device.
LEMMA BarrierDoneIInv ==
    ASSUME SchedulerIInv, BarrierDone
    PROVE  SchedulerIInv'
  <1> DEFINE n == NextGroup
  <1>0. /\ UNCHANGED <<call, cancelled, expired, channel, worker, batch, batchBytes, deferred, failures,
                       reply, written, entered, executed>>
        /\ worker = "barriers" /\ groups # {} /\ barriers' = barriers + 1 /\ groups' = groups \ {n}
        /\ outcomes' = [g \in DOMAIN outcomes \cup {n} |-> IF g = n THEN barriers' ELSE outcomes[g]]
        /\ durable' = [durable EXCEPT ![n[1]] = written[n[1]]]
    BY DEF BarrierDone, gathered
  <1>a. n \in groups /\ n \in Groups /\ n[1] \in Devices
    BY <1>0, NextGroupIsOne DEF SchedulerIInv, SchedulerTypeOK, Groups
  <1> HIDE DEF n
  <1>b. /\ \A d \in Devices : durable'[d] = IF d = n[1] THEN written[d] ELSE durable[d]
        /\ \A d \in Devices : durable[d] \subseteq durable'[d] /\ durable'[d] \subseteq written[d]
    BY <1>0, <1>a DEF SchedulerIInv, SchedulerTypeOK, DataWritten
  <1>c. /\ DOMAIN outcomes' = DOMAIN outcomes \cup {n} /\ outcomes'[n] = barriers + 1
        /\ \A g \in DOMAIN outcomes : g # n => outcomes'[g] = outcomes[g]
        /\ barriers \in Nat /\ barriers + 1 # 0
    BY <1>0 DEF SchedulerIInv, SchedulerTypeOK
  <1>d. \A i \in 1 .. Len(batch) : batch[i] \in Ids
    BY DEF SchedulerIInv, SchedulerTypeOK
  <1>1. SchedulerTypeOK'
    <2>1. DOMAIN outcomes' \subseteq Groups /\ groups' \subseteq Groups
      BY <1>0, <1>a, <1>c DEF SchedulerIInv, SchedulerTypeOK
    <2>2. \A g \in DOMAIN outcomes : outcomes[g] \in 0 .. barriers
      BY DEF SchedulerIInv, SchedulerTypeOK
    <2>3. barriers' \in Nat /\ \A g \in DOMAIN outcomes' : outcomes'[g] \in 0 .. barriers'
      BY <1>0, <1>c, <2>2
    <2>4. durable' \in [Devices -> SUBSET Ids]
      BY <1>0, <1>a DEF SchedulerIInv, SchedulerTypeOK
    <2> QED BY <1>0, <2>1, <2>3, <2>4 DEF SchedulerIInv, SchedulerTypeOK
  <1>2. DataWritten' /\ Submitted'
    BY <1>0, <1>b DEF SchedulerIInv, DataWritten, Submitted
  <1>3. OutcomesSound'
    <2>1. ASSUME NEW g \in DOMAIN outcomes', outcomes'[g] # 0, NEW i \in 1 .. Len(batch), g[1] \in Targets(batch[i])
          PROVE  batch[i] \in durable'[g[1]]
      <3>1. g[1] \in Devices
        BY <1>d, <2>1, TargetsAreDevices
      <3>2. CASE g = n
        <4>1. batch[i] \in written[g[1]]
          BY <1>d, <2>1 DEF SchedulerIInv, Submitted, DataWritten
        <4> QED BY <1>b, <3>1, <3>2, <4>1
      <3>3. CASE g # n
        <4>1. g \in DOMAIN outcomes /\ outcomes[g] # 0
          BY <1>c, <2>1, <3>3
        <4>2. batch[i] \in durable[g[1]]
          BY <1>0, <2>1, <4>1 DEF SchedulerIInv, OutcomesSound
        <4> QED BY <1>b, <3>1, <4>2
      <3> QED BY <3>2, <3>3
    <2>2. \A g \in DOMAIN outcomes' : outcomes'[g] = 0 => failures > 0
      BY <1>0, <1>c DEF SchedulerIInv, OutcomesSound
    <2>3. \A i \in 1 .. Len(batch) : Live(batch[i]) => GroupsOf(batch[i]) \subseteq groups' \cup DOMAIN outcomes'
      BY <1>0, <1>c DEF SchedulerIInv, OutcomesSound
    <2> QED BY <1>0, <2>1, <2>2, <2>3 DEF OutcomesSound, Live
  <1>4. GatheringDefersNothing' /\ ErrorsHonest' /\ BatchesInOrder'
    BY <1>0 DEF SchedulerIInv, GatheringDefersNothing, ErrorsHonest, BatchesInOrder
  <1>5. ReceiptIsDurable'
    BY <1>0, <1>b, TargetsAreDevices DEF SchedulerIInv, ReceiptIsDurable, Targets
  <1> QED BY <1>1, <1>2, <1>3, <1>4, <1>5 DEF SchedulerIInv

\* A barrier that fails leaves an error for its group and nothing else.
LEMMA BarrierFailsIInv ==
    ASSUME SchedulerIInv, BarrierFails
    PROVE  SchedulerIInv'
  <1> DEFINE n == NextGroup
  <1>0. /\ UNCHANGED <<call, cancelled, expired, channel, worker, batch, batchBytes, deferred, barriers,
                       reply, written, durable, entered, executed>>
        /\ worker = "barriers" /\ groups # {} /\ failures < MaxFailures /\ failures' = failures + 1 /\ groups' = groups \ {n}
        /\ outcomes' = [g \in DOMAIN outcomes \cup {n} |-> IF g = n THEN 0 ELSE outcomes[g]]
    BY DEF BarrierFails, gathered, caching
  <1>a. n \in groups /\ n \in Groups
    BY <1>0, NextGroupIsOne DEF SchedulerIInv, SchedulerTypeOK
  <1> HIDE DEF n
  <1>b. /\ DOMAIN outcomes' = DOMAIN outcomes \cup {n} /\ outcomes'[n] = 0
        /\ \A g \in DOMAIN outcomes : g # n => outcomes'[g] = outcomes[g]
    BY <1>0
  <1>c. failures \in Nat /\ failures' \in 0 .. MaxFailures /\ failures' > 0 /\ barriers \in Nat
    BY <1>0, SchedulerAssumption DEF SchedulerIInv, SchedulerTypeOK
  <1>1. SchedulerTypeOK'
    <2>1. DOMAIN outcomes' \subseteq Groups /\ groups' \subseteq Groups
      BY <1>0, <1>a, <1>b DEF SchedulerIInv, SchedulerTypeOK
    <2>2. \A g \in DOMAIN outcomes : outcomes[g] \in 0 .. barriers
      BY DEF SchedulerIInv, SchedulerTypeOK
    <2>3. \A g \in DOMAIN outcomes' : outcomes'[g] \in 0 .. barriers'
      BY <1>0, <1>b, <1>c, <2>2
    <2> QED BY <1>0, <1>c, <2>1, <2>3 DEF SchedulerIInv, SchedulerTypeOK
  <1>2. DataWritten' /\ Submitted'
    BY <1>0 DEF SchedulerIInv, DataWritten, Submitted
  <1>3. OutcomesSound'
    <2>1. \A g \in DOMAIN outcomes' : outcomes'[g] # 0 =>
              \A i \in 1 .. Len(batch) : g[1] \in Targets(batch[i]) => batch[i] \in durable[g[1]]
      BY <1>0, <1>b DEF SchedulerIInv, OutcomesSound
    <2>2. \A i \in 1 .. Len(batch) : Live(batch[i]) => GroupsOf(batch[i]) \subseteq groups' \cup DOMAIN outcomes'
      BY <1>0, <1>b DEF SchedulerIInv, OutcomesSound
    <2> QED BY <1>0, <1>c, <2>1, <2>2 DEF OutcomesSound, Live
  <1>4. GatheringDefersNothing' /\ ReceiptIsDurable' /\ BatchesInOrder'
    BY <1>0 DEF SchedulerIInv, GatheringDefersNothing, ReceiptIsDurable, BatchesInOrder
  <1>5. ErrorsHonest'
    BY <1>0, <1>c DEF SchedulerIInv, ErrorsHonest
  <1> QED BY <1>1, <1>2, <1>3, <1>4, <1>5 DEF SchedulerIInv

\* All barriers have run: every live request of the batch has its outcomes.
LEMMA BarriersRunIInv ==
    ASSUME SchedulerIInv, BarriersRun
    PROVE  SchedulerIInv'
  <1>0. /\ UNCHANGED <<call, cancelled, expired, channel, batch, batchBytes, deferred, groups, outcomes, barriers, failures,
                       reply, written, durable, entered, executed>>
        /\ worker = "barriers" /\ worker' = "answer" /\ groups = {}
    BY DEF BarriersRun, gathered, caching
  <1>1. SchedulerTypeOK' /\ DataWritten' /\ Submitted'
    BY <1>0 DEF SchedulerIInv, SchedulerTypeOK, DataWritten, Submitted
  <1>2. OutcomesSound'
    BY <1>0 DEF SchedulerIInv, OutcomesSound, Live
  <1>3. GatheringDefersNothing' /\ ReceiptIsDurable' /\ ErrorsHonest'
    BY <1>0 DEF SchedulerIInv, GatheringDefersNothing, ReceiptIsDurable, ErrorsHonest
  <1>4. BatchesInOrder'
    BY <1>0 DEF SchedulerIInv, BatchesInOrder
  <1> QED BY <1>1, <1>2, <1>3, <1>4 DEF SchedulerIInv

\* What a request of the batch is answered once the barriers have run.
LEMMA ResultIsHonest ==
    ASSUME SchedulerIInv, worker = "answer", NEW i \in 1 .. Len(batch)
    PROVE  LET r == batch[i] IN
           /\ ResultOf(r) \in [result : Results, proofs : SUBSET Nat]
           /\ ResultOf(r).result \in {"receipt", "cancelled", "deadline", "barrier"}
           /\ ResultOf(r).result = "receipt" => \A d \in Targets(r) : r \in durable[d]
           /\ ResultOf(r).result = "cancelled" => r \in cancelled
           /\ ResultOf(r).result = "deadline" => r \in expired
           /\ ResultOf(r).result = "barrier" => failures > 0
  <1> DEFINE r == batch[i]
  <1>0. r \in Ids
    BY DEF SchedulerIInv, SchedulerTypeOK
  <1>1. /\ \A g \in DOMAIN outcomes : outcomes[g] # 0 /\ g[1] \in Targets(r) => r \in durable[g[1]]
        /\ \A g \in DOMAIN outcomes : outcomes[g] = 0 => failures > 0
        /\ Live(r) => GroupsOf(r) \subseteq DOMAIN outcomes
    BY DEF SchedulerIInv, OutcomesSound
  <1>2. \A g \in DOMAIN outcomes : outcomes[g] \in Nat
    BY DEF SchedulerIInv, SchedulerTypeOK
  <1> HIDE DEF r
  <1>3. \A s \in {"cancelled", "deadline", "barrier", "closed"} :
            /\ [NoReply EXCEPT !.result = s] \in [result : Results, proofs : SUBSET Nat]
            /\ [NoReply EXCEPT !.result = s].result = s
    BY DEF NoReply, Results
  <1>4. CASE r \in cancelled
    <2>1. ResultOf(r) = [NoReply EXCEPT !.result = "cancelled"]
      BY <1>4 DEF ResultOf
    <2> QED BY <1>3, <1>4, <2>1 DEF r
  <1>5. CASE r \notin cancelled /\ r \in expired
    <2>1. ResultOf(r) = [NoReply EXCEPT !.result = "deadline"]
      BY <1>5 DEF ResultOf
    <2> QED BY <1>3, <1>5, <2>1 DEF r
  <1>6. CASE Live(r) /\ \E g \in GroupsOf(r) : outcomes[g] = 0
    <2>1. ResultOf(r) = [NoReply EXCEPT !.result = "barrier"]
      BY <1>1, <1>6 DEF ResultOf, Live
    <2>2. failures > 0
      BY <1>1, <1>6
    <2> QED BY <1>3, <2>1, <2>2 DEF r
  <1>7. CASE Live(r) /\ \A g \in GroupsOf(r) : outcomes[g] # 0
    <2>1. ResultOf(r) = [result |-> "receipt", proofs |-> {outcomes[g] : g \in GroupsOf(r)}]
      BY <1>1, <1>7 DEF ResultOf, Live
    <2>2. {outcomes[g] : g \in GroupsOf(r)} \in SUBSET Nat
      BY <1>1, <1>2, <1>7
    <2>3. ASSUME NEW d \in Targets(r) PROVE r \in durable[d]
      <3>1. <<d, Requests[r].ordering>> \in GroupsOf(r)
        BY DEF GroupsOf, Targets
      <3> QED BY <1>1, <1>7, <3>1
    <2>4. ResultOf(r) \in [result : Results, proofs : SUBSET Nat] /\ ResultOf(r).result = "receipt"
      BY <2>1, <2>2 DEF Results
    <2> QED BY <2>3, <2>4 DEF r
  <1> QED BY <1>4, <1>5, <1>6, <1>7 DEF Live

\* The first request of the batch gets its answer.
LEMMA ReplyNextIInv ==
    ASSUME SchedulerIInv, ReplyNext
    PROVE  SchedulerIInv'
  <1> DEFINE r == Head(batch)
             a == ResultOf(Head(batch))
  <1>0. /\ UNCHANGED <<cancelled, expired, channel, worker, batchBytes, deferred, groups, outcomes, barriers, failures,
                       written, durable, entered, executed>>
        /\ worker = "answer" /\ batch # <<>> /\ batch' = Tail(batch)
        /\ call' = [call EXCEPT ![r] = "returned"] /\ reply' = [reply EXCEPT ![r] = a]
    BY DEF ReplyNext, Return, caching
  <1>a. /\ r \in Ids /\ r = batch[1] /\ batch' \in Seq(Ids) /\ Len(batch') = Len(batch) - 1
        /\ Len(batch) \in Nat /\ Len(batch) # 0
        /\ \A i \in 1 .. Len(batch') : batch'[i] = batch[i + 1]
    BY <1>0 DEF SchedulerIInv, SchedulerTypeOK
  <1>b. /\ a \in [result : Results, proofs : SUBSET Nat]
        /\ a.result \in {"receipt", "cancelled", "deadline", "barrier"}
        /\ a.result = "receipt" => \A d \in Targets(r) : r \in durable[d]
        /\ a.result = "cancelled" => r \in cancelled
        /\ a.result = "deadline" => r \in expired
        /\ a.result = "barrier" => failures > 0
    <2>1. 1 \in 1 .. Len(batch)
      BY <1>a
    <2> QED BY <1>0, <1>a, <2>1, ResultIsHonest
  <1> HIDE DEF r, a
  <1>c. \A i \in 1 .. Len(batch') : i + 1 \in 1 .. Len(batch)
    BY <1>a
  <1>1. SchedulerTypeOK'
    <2>1. reply' \in [Ids -> [result : Results, proofs : SUBSET Nat]]
      BY <1>0, <1>a, <1>b DEF SchedulerIInv, SchedulerTypeOK
    <2>2. call' \in [Ids -> {"none", "sending", "waiting", "returned"}]
      BY <1>0, <1>a DEF SchedulerIInv, SchedulerTypeOK
    <2> QED BY <1>0, <1>a, <2>1, <2>2 DEF SchedulerIInv, SchedulerTypeOK
  <1>d. \A q \in Ids : call'[q] = (IF q = r THEN "returned" ELSE call[q]) /\ reply'[q] = (IF q = r THEN a ELSE reply[q])
    BY <1>0, <1>a DEF SchedulerIInv, SchedulerTypeOK
  <1>2. DataWritten'
    <2>1. call[r] # "none"
      BY <1>a DEF SchedulerIInv, Submitted
    <2> QED BY <1>0, <1>a, <1>d, <2>1 DEF SchedulerIInv, DataWritten
  <1>3. Submitted'
    <2>1. \A q \in Ids : call[q] # "none" => call'[q] # "none"
      BY <1>d
    <2>2. /\ \A i \in 1 .. Len(channel) : channel[i] \in Ids
          /\ \A i \in 1 .. Len(batch) : batch[i] \in Ids
          /\ \A i \in 1 .. Len(deferred) : deferred[i] \in Ids
      BY DEF SchedulerIInv, SchedulerTypeOK
    <2>3. \A i \in 1 .. Len(batch') : call'[batch'[i]] # "none"
      BY <1>a, <1>c, <2>1, <2>2 DEF SchedulerIInv, Submitted
    <2> QED BY <1>0, <2>1, <2>2, <2>3 DEF SchedulerIInv, Submitted
  <1>4. OutcomesSound'
    <2>1. \A g \in DOMAIN outcomes : outcomes[g] # 0 =>
              \A i \in 1 .. Len(batch') : g[1] \in Targets(batch'[i]) => batch'[i] \in durable[g[1]]
      BY <1>0, <1>a, <1>c DEF SchedulerIInv, OutcomesSound
    <2>2. \A i \in 1 .. Len(batch') : Live(batch'[i]) => GroupsOf(batch'[i]) \subseteq groups \cup DOMAIN outcomes
      BY <1>0, <1>a, <1>c DEF SchedulerIInv, OutcomesSound
    <2>3. groups = {} /\ \A g \in DOMAIN outcomes : outcomes[g] = 0 => failures > 0
      BY <1>0 DEF SchedulerIInv, OutcomesSound
    <2> QED BY <1>0, <2>1, <2>2, <2>3 DEF OutcomesSound, Live
  <1>5. ReceiptIsDurable' /\ ErrorsHonest'
    BY <1>0, <1>b, <1>d DEF SchedulerIInv, ReceiptIsDurable, ErrorsHonest, Targets
  <1>6. GatheringDefersNothing'
    BY <1>0 DEF SchedulerIInv, GatheringDefersNothing
  <1>7. BatchesInOrder'
    <2>1. Len(batch') <= MaximumRequests /\ (Len(batch') > 1 => batchBytes <= MaximumBatchBytes)
      BY <1>a, SchedulerAssumption DEF SchedulerIInv, BatchesInOrder
    <2>2. entered = executed \o <<>> \o deferred \o channel
      BY <1>0 DEF SchedulerIInv, BatchesInOrder
    <2> QED BY <1>0, <2>1, <2>2 DEF BatchesInOrder
  <1> QED BY <1>1, <1>2, <1>3, <1>4, <1>5, <1>6, <1>7 DEF SchedulerIInv

\* A step that leaves the scheduler alone.
LEMMA StutterSchedulerIInv ==
    ASSUME SchedulerIInv, UNCHANGED schedulerVars
    PROVE  SchedulerIInv'
  <1>0. UNCHANGED <<call, cancelled, expired, channel, worker, batch, batchBytes, deferred, groups, outcomes, barriers,
                    failures, reply, written, durable, entered, executed>>
    BY DEF schedulerVars, gathered, caching
  <1>1. SchedulerTypeOK' /\ DataWritten' /\ Submitted'
    BY <1>0 DEF SchedulerIInv, SchedulerTypeOK, DataWritten, Submitted
  <1>2. OutcomesSound' /\ GatheringDefersNothing' /\ ReceiptIsDurable' /\ ErrorsHonest'
    BY <1>0 DEF SchedulerIInv, OutcomesSound, Live, GatheringDefersNothing, ReceiptIsDurable, ErrorsHonest
  <1>3. BatchesInOrder'
    BY <1>0 DEF SchedulerIInv, BatchesInOrder
  <1> QED BY <1>1, <1>2, <1>3 DEF SchedulerIInv

-----------------------------------------------------------------------------
(* Every state the scheduler reaches satisfies the inductive invariant.    *)
THEOREM SchedulerInvariant == SchedulerSpec => []SchedulerIInv
  <1>1. SchedulerInit => SchedulerIInv
    BY InitSchedulerIInv
  <1>2. SchedulerIInv /\ [SchedulerNext]_schedulerVars => SchedulerIInv'
    <2> SUFFICES ASSUME SchedulerIInv, [SchedulerNext]_schedulerVars PROVE SchedulerIInv'
      OBVIOUS
    <2>1. CASE \E r \in Ids : SubmitRequest(r) \/ Enter(r) \/ CancelRequest(r) \/ ExpireRequest(r)
      BY <2>1, SubmitRequestIInv, EnterIInv, CancelRequestIInv
    <2>2. CASE BeginDeferred \/ BeginReceived \/ Gather \/ StopGathering
      BY <2>2, BeginDeferredIInv, BeginReceivedIInv, GatherIInv, StopGatheringIInv
    <2>3. CASE Execute \/ BarrierDone \/ BarrierFails \/ BarriersRun
      BY <2>3, ExecuteIInv, BarrierDoneIInv, BarrierFailsIInv, BarriersRunIInv
    <2>4. CASE ReplyNext \/ NextBatch \/ Disconnect
      BY <2>4, ReplyNextIInv, DisconnectIInv
    <2>5. CASE UNCHANGED schedulerVars
      BY <2>5, StutterSchedulerIInv
    <2> QED BY <2>1, <2>2, <2>3, <2>4, <2>5 DEF SchedulerNext, Loop
  <1> QED BY <1>1, <1>2, PTL DEF SchedulerSpec

(* The scheduler's state keeps its types: the channel keeps to its depth,  *)
(* at most one request is put off, and an outcome names a barrier that ran.*)
THEOREM SchedulerTypeCorrect == SchedulerSpec => []SchedulerTypeOK
  <1>1. SchedulerIInv => SchedulerTypeOK
    BY DEF SchedulerIInv
  <1> QED BY <1>1, SchedulerInvariant, PTL

(* For every list of requests, number of devices and batch limit: a        *)
(* receipt of submit() stands for durable data on every target, an error   *)
(* says what happened, and batches keep the order of the channel and the   *)
(* limits.                                                                 *)
THEOREM SchedulerIsSound == SchedulerSpec => []SchedulerSound
  <1>1. SchedulerIInv => SchedulerSound
    BY DEF SchedulerIInv, SchedulerSound
  <1> QED BY <1>1, SchedulerInvariant, PTL
=============================================================================
