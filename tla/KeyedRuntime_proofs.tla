------------------------ MODULE KeyedRuntime_proofs -------------------------
(***************************************************************************)
(* Proofs about the keyed runtime, for any calls, workers, slots, limits   *)
(* and remaps: its type, and JobsInOrder.                                  *)
(***************************************************************************)
EXTENDS KeyedRuntime, FiniteSetTheorems, SequenceTheorems, NaturalsInduction, WellFoundedInduction, TLAPS

\* The worker that the mapping gives a key.
Owner(k) == OwnerOf(mapping[KeySlot(k)], k)
Loaded(d) == dispatch[d].at \in {"reserveKey", "reserveGlobal", "sending"}
JobAt(w, p) == channel[w][p].type = "job"
SlotAt(w, p) == KeySlot(KeyOf(channel[w][p].job))

\* A call under way is of its dispatcher, and its job is not sent before the call says so.
DispatchInv == \A d \in Dispatchers : dispatch[d].at # "idle" =>
    /\ dispatch[d].job \in JobIds /\ Calls[dispatch[d].job].by = d
    /\ dispatch[d].at # "sent" => jobs[dispatch[d].job].phase = "admitting"
    /\ dispatch[d].at = "sent" => jobs[dispatch[d].job].phase \in {"queued", "running", "done", "dropped"}

\* A job is where its phase says ..
PlaceInv ==
    /\ \A w \in Workers : \A p \in DOMAIN channel[w] : JobAt(w, p) => jobs[channel[w][p].job].phase = "queued"
    /\ \A w \in Workers, k \in Keys : \A p \in DOMAIN JobsOf(w, k) :
         KeyOf(JobsOf(w, k)[p]) = k /\ jobs[JobsOf(w, k)[p]].phase = "queued"
    /\ \A w \in Workers : \A j \in worker[w].tasks : jobs[j].phase = "running" /\ KeyOf(j) \in worker[w].active
FoundInv ==
    /\ \A j \in JobIds : jobs[j].phase = "queued" => \E w \in Workers :
         \/ \E p \in DOMAIN channel[w] : JobAt(w, p) /\ channel[w][p].job = j
         \/ \E p \in DOMAIN JobsOf(w, KeyOf(j)) : JobsOf(w, KeyOf(j))[p] = j
    /\ \A j \in JobIds : jobs[j].phase = "running" => \E w \in Workers : j \in worker[w].tasks

\* .. and in one place only.
UniqueInv ==
    /\ \A w, v \in Workers : \A p \in DOMAIN channel[w], q \in DOMAIN channel[v] :
         JobAt(w, p) /\ JobAt(v, q) /\ channel[w][p].job = channel[v][q].job => w = v /\ p = q
    /\ \A w, v \in Workers, k \in Keys : \A p \in DOMAIN channel[w], q \in DOMAIN JobsOf(v, k) :
         JobAt(w, p) => channel[w][p].job # JobsOf(v, k)[q]
    /\ \A w, v \in Workers, k \in Keys : \A p \in DOMAIN JobsOf(w, k), q \in DOMAIN JobsOf(v, k) :
         JobsOf(w, k)[p] = JobsOf(v, k)[q] => w = v /\ p = q
    /\ \A w, v \in Workers, j \in JobIds : j \in worker[w].tasks /\ j \in worker[v].tasks => w = v
    /\ \A w \in Workers : \A j, i \in worker[w].tasks : KeyOf(j) = KeyOf(i) => j = i

\* The jobs accepted before a call are of its key, and their calls have returned.
AfterInv == \A j \in JobIds : \A i \in jobs[j].after :
    /\ KeyOf(i) = KeyOf(j) /\ jobs[i].phase \in {"queued", "running", "done", "dropped"} /\ jobs[j].phase # "none"
    /\ \A d \in Dispatchers : dispatch[d].at # "idle" => dispatch[d].job # i

\* What was accepted before is not behind.
OrderInv ==
    /\ \A w \in Workers, k \in Keys : \A p, q \in DOMAIN JobsOf(w, k) :
         JobsOf(w, k)[q] \in jobs[JobsOf(w, k)[p]].after => q < p
    /\ \A w \in Workers, k \in Keys : \A p \in DOMAIN JobsOf(w, k), q \in DOMAIN channel[w] :
         JobAt(w, q) => channel[w][q].job \notin jobs[JobsOf(w, k)[p]].after
    /\ \A w \in Workers : \A p, q \in DOMAIN channel[w] :
         JobAt(w, p) /\ JobAt(w, q) /\ channel[w][q].job \in jobs[channel[w][p].job].after => q < p

\* All that there is of a key is at its owner.
OwnerInv ==
    /\ \A w \in Workers : \A p \in DOMAIN channel[w] :
         JobAt(w, p) /\ OneDefault(SlotAt(w, p)) => w = Owner(KeyOf(channel[w][p].job))
    /\ \A w \in Workers, k \in Keys :
         OneDefault(KeySlot(k)) /\ (JobsOf(w, k) # <<>> \/ k \in worker[w].active) => w = Owner(k)
    /\ \A d \in Dispatchers : Loaded(d) /\ OneDefault(SlotOf(d)) => dispatch[d].worker = Owner(KeyOf(dispatch[d].job))

\* No call has read the mapping of the slot; nothing of the slot is at worker w.
NoneOnWay(s) == \A d \in Dispatchers : Loaded(d) => SlotOf(d) # s
Clear(w, s) ==
    /\ \A p \in DOMAIN channel[w] : JobAt(w, p) => SlotAt(w, p) # s
    /\ \A k \in Keys : KeySlot(k) = s => JobsOf(w, k) = <<>> /\ k \notin worker[w].active

\* A remap has its slot to itself; once it waits for its barrier no call is on its way, once it is drained nothing is left.
RemapInv ==
    /\ \A r \in Remappers : remap[r].at # "idle" =>
         /\ mapping[remap[r].slot].draining /\ remap[r].call \in 1 .. remaps
         /\ OneDefault(remap[r].slot) => \A k \in Keys : KeySlot(k) = remap[r].slot => remap[r].old = Owner(k)
    /\ \A r, o \in Remappers : r # o /\ remap[r].at # "idle" /\ remap[o].at # "idle" =>
         remap[r].slot # remap[o].slot /\ remap[r].call # remap[o].call
    /\ \A r \in Remappers : remap[r].at \in {"awaiting", "drained"} => NoneOnWay(remap[r].slot)
    /\ \A r \in Remappers : remap[r].at = "drained" => Clear(remap[r].old, remap[r].slot)

\* A barrier stands behind every job of its slot, at the worker that the remap drains.
BarrierOf(w, slot, call) == call <= remaps /\ \A r \in Remappers : remap[r].at # "idle" /\ remap[r].call = call =>
    remap[r].at # "waiting" /\ remap[r].slot = slot /\ remap[r].old = w
BarrierInv ==
    /\ \A w \in Workers : \A p \in DOMAIN channel[w] : channel[w][p].type = "barrier" =>
         /\ BarrierOf(w, channel[w][p].slot, channel[w][p].call)
         /\ \A r \in Remappers : remap[r].at # "idle" /\ remap[r].call = channel[w][p].call =>
              \A q \in DOMAIN channel[w] : JobAt(w, q) /\ q > p => SlotAt(w, q) # remap[r].slot
    /\ \A w \in Workers : \A b \in worker[w].barriers :
         /\ BarrierOf(w, b.slot, b.call)
         /\ \A r \in Remappers : remap[r].at # "idle" /\ remap[r].call = b.call =>
              \A q \in DOMAIN channel[w] : JobAt(w, q) => SlotAt(w, q) # remap[r].slot

\* The counters count at least what runs.
Counted(s) == {d \in Dispatchers : dispatch[d].at # "idle" /\ SlotOf(d) = s}
OfClass(w, c) == {j \in worker[w].tasks : ClassOf(j) = c}
CountInv ==
    /\ \A s \in Slots : Cardinality(Counted(s)) <= inflight[s]
    /\ \A w \in Workers, c \in Classes : Cardinality(OfClass(w, c)) <= worker[w].byClass[c]

\* A key stands in a ready queue exactly if it may be taken from there.
ReadyInv == \A w \in Workers, c \in Classes :
    /\ \A p, q \in DOMAIN worker[w].ready[c] : worker[w].ready[c][p] = worker[w].ready[c][q] => p = q
    /\ \A k \in Keys : Takable(w, c, k) <=> \E p \in DOMAIN worker[w].ready[c] : worker[w].ready[c][p] = k

DoneInv == \A j \in JobIds : Ordered(j) /\ jobs[j].phase \in {"running", "done"} =>
    \A i \in jobs[j].after : jobs[i].phase \in {"done", "dropped"}

KeyedInv ==
    /\ KeyedTypeOK /\ DispatchInv /\ PlaceInv /\ FoundInv /\ UniqueInv /\ AfterInv /\ OrderInv /\ OwnerInv
    /\ RemapInv /\ BarrierInv /\ CountInv /\ ReadyInv /\ DoneInv /\ BudgetsExact

-----------------------------------------------------------------------------
(* Constants, sequences, counting.                                         *)

LEMMA ModRange ==
    ASSUME NEW a \in Nat, NEW n \in Nat \ {0}
    PROVE  a % n \in 0 .. n - 1
  OBVIOUS

LEMMA ConstantFacts ==
    /\ Keys \subseteq Nat
    /\ \A j \in JobIds : KeyOf(j) \in Keys /\ ClassOf(j) \in Classes /\ Calls[j].by \in Dispatchers
    /\ \A k \in Nat : KeySlot(k) \in Slots
    /\ \A state \in [worker : 0 .. WorkerCount, draining : BOOLEAN], k \in Nat : OwnerOf(state, k) \in Workers
    /\ 0 \in Slots /\ 0 \in Workers /\ 0 \in 0 .. MaxRemaps /\ 0 \in 0 .. WorkerCount /\ 0 \in 0 .. Len(FairCycle) - 1
    /\ IsFiniteSet(JobIds) /\ IsFiniteSet(Dispatchers)
  <1> USE CallsAssumption, LimitsAssumption, CycleAssumption
  <1>1. Keys \subseteq Nat /\ \A j \in JobIds : KeyOf(j) \in Keys /\ ClassOf(j) \in Classes /\ Calls[j].by \in Dispatchers
    BY DEF Keys, KeyOf, ClassOf, Dispatchers
  <1>2. \A k \in Nat : KeySlot(k) \in Slots
    BY ModRange DEF KeySlot, Slots
  <1>3. \A state \in [worker : 0 .. WorkerCount, draining : BOOLEAN], k \in Nat : OwnerOf(state, k) \in Workers
    <2> SUFFICES ASSUME NEW state \in [worker : 0 .. WorkerCount, draining : BOOLEAN], NEW k \in Nat
                 PROVE  OwnerOf(state, k) \in Workers
      OBVIOUS
    <2>1. CASE state.worker = 0
      BY <2>1, ModRange DEF OwnerOf, Workers
    <2>2. CASE state.worker # 0
      <3>1. state.worker - 1 \in Nat /\ WorkerCount \in Nat \ {0}
        BY <2>2
      <3>2. (state.worker - 1) % WorkerCount \in 0 .. WorkerCount - 1
        BY <3>1, ModRange
      <3> QED BY <2>2, <3>2 DEF OwnerOf, Workers
    <2> QED BY <2>1, <2>2
  <1>4. 0 \in Slots /\ 0 \in Workers /\ 0 \in 0 .. MaxRemaps /\ 0 \in 0 .. WorkerCount
    BY DEF Slots, Workers
  <1>5. 0 \in 0 .. Len(FairCycle) - 1
    BY EmptySeq, LenProperties
  <1>6. IsFiniteSet(Dispatchers)
    <2> DEFINE f == [j \in JobIds |-> Calls[j].by]
    <2>1. f \in Surjection(JobIds, Dispatchers)
      BY DEF Dispatchers, Surjection
    <2> QED BY <2>1, FS_Surjection
  <1> QED BY <1>1, <1>2, <1>3, <1>4, <1>5, <1>6

\* An element more.
LEMMA Appended ==
    ASSUME NEW S, NEW s \in Seq(S), NEW e \in S
    PROVE  /\ Append(s, e) \in Seq(S) /\ Len(Append(s, e)) = Len(s) + 1 /\ DOMAIN s = 1 .. Len(s) /\ Len(s) \in Nat
           /\ DOMAIN Append(s, e) = 1 .. Len(s) + 1 /\ Append(s, e)[Len(s) + 1] = e /\ Append(s, e) # <<>>
           /\ \A p \in DOMAIN s : p \in DOMAIN Append(s, e) /\ Append(s, e)[p] = s[p] /\ p <= Len(s) /\ p \in Nat
           /\ \A p \in DOMAIN Append(s, e) : p \in DOMAIN s \/ p = Len(s) + 1
           /\ Len(s) + 1 \notin DOMAIN s /\ Len(s) + 1 \in DOMAIN Append(s, e)
           /\ s # <<>> => Head(Append(s, e)) = Head(s)
           /\ s = <<>> => Head(Append(s, e)) = e
  <1>1. /\ Append(s, e) \in Seq(S) /\ Len(Append(s, e)) = Len(s) + 1 /\ DOMAIN s = 1 .. Len(s) /\ Len(s) \in Nat
        /\ \A p \in 1 .. Len(s) : Append(s, e)[p] = s[p]
        /\ Append(s, e)[Len(s) + 1] = e /\ Append(s, e) # <<>>
    BY AppendProperties, LenProperties
  <1>2. DOMAIN Append(s, e) = 1 .. Len(s) + 1
    BY <1>1, LenProperties
  <1>3. /\ s # <<>> => Head(Append(s, e)) = Head(s)
        /\ s = <<>> => Head(Append(s, e)) = e
    BY HeadTailAppend
  <1> QED BY <1>1, <1>2, <1>3

\* The first element less.
LEMMA Shortened ==
    ASSUME NEW S, NEW s \in Seq(S), s # <<>>
    PROVE  /\ Tail(s) \in Seq(S) /\ Len(Tail(s)) = Len(s) - 1 /\ Head(s) \in S /\ Head(s) = s[1] /\ Len(s) \in Nat
           /\ 1 \in DOMAIN s /\ DOMAIN s = 1 .. Len(s) /\ DOMAIN Tail(s) = 1 .. Len(s) - 1
           /\ \A p \in DOMAIN Tail(s) : p \in Nat /\ p + 1 \in DOMAIN s /\ Tail(s)[p] = s[p + 1] /\ p + 1 # 1
           /\ \A p \in DOMAIN s : p = 1 \/ (p - 1 \in DOMAIN Tail(s) /\ Tail(s)[p - 1] = s[p])
  OBVIOUS

\* A nonempty set of naturals has a least element.
LEMMA LeastNatural ==
    ASSUME NEW T \in SUBSET Nat, T # {}
    PROVE  \E m \in T : \A n \in T : m <= n
  <1>1. PICK m \in T : \A n \in T : ~(<<n, m>> \in OpToRel(<, Nat))
    BY NatLessThanWellFounded, WFMin
  <1>2. \A n \in T : ~(n < m)
    BY <1>1 DEF OpToRel
  <1> QED BY <1>2

LEMMA OneMore ==
    ASSUME NEW S, IsFiniteSet(S), NEW x, x \notin S
    PROVE  IsFiniteSet(S \cup {x}) /\ Cardinality(S \cup {x}) = Cardinality(S) + 1 /\ Cardinality(S) \in Nat
  BY FS_AddElement, FS_CardinalityType

LEMMA OneLess ==
    ASSUME NEW S, IsFiniteSet(S), NEW x \in S
    PROVE  IsFiniteSet(S \ {x}) /\ Cardinality(S \ {x}) = Cardinality(S) - 1 /\ Cardinality(S) \in Nat /\ Cardinality(S) > 0
  <1>1. IsFiniteSet(S \ {x}) /\ Cardinality(S \ {x}) = Cardinality(S) - 1
    BY FS_RemoveElement
  <1>2. Cardinality(S) \in Nat /\ Cardinality(S \ {x}) \in Nat
    BY <1>1, FS_CardinalityType
  <1> QED BY <1>1, <1>2

-----------------------------------------------------------------------------
(* What the state's type says, and what the workers' actions do.           *)

LEMMA TypeFacts ==
    ASSUME KeyedTypeOK
    PROVE  /\ \A j \in JobIds : jobs[j] \in [phase : Phases, after : SUBSET JobIds]
           /\ \A w \in Workers : channel[w] \in Seq(Message) /\ DOMAIN channel[w] = 1 .. Len(channel[w]) /\ Len(channel[w]) \in Nat
           /\ \A w \in Workers : \A p \in DOMAIN channel[w] : channel[w][p] \in Message /\ p \in Nat /\ p > 0
           /\ \A w \in Workers : \A p \in DOMAIN channel[w] : JobAt(w, p) =>
                channel[w][p].job \in JobIds /\ channel[w][p] = [type |-> "job", job |-> channel[w][p].job]
           /\ \A w \in Workers : worker[w] \in WorkerState
           /\ \A w \in Workers, k \in Keys : JobsOf(w, k) \in Seq(JobIds) /\ DOMAIN JobsOf(w, k) = 1 .. Len(JobsOf(w, k))
                                              /\ Len(JobsOf(w, k)) \in Nat
           /\ \A w \in Workers, k \in Keys : \A p \in DOMAIN JobsOf(w, k) : JobsOf(w, k)[p] \in JobIds /\ p \in Nat /\ p > 0
           /\ \A w \in Workers, c \in Classes : worker[w].ready[c] \in Seq(Keys)
           /\ \A w \in Workers : worker[w].tasks \subseteq JobIds /\ IsFiniteSet(worker[w].tasks)
           /\ remaps \in Nat /\ faults \in Nat
  <1>1. /\ \A j \in JobIds : jobs[j] \in [phase : Phases, after : SUBSET JobIds]
        /\ \A w \in Workers : channel[w] \in Seq(Message) /\ DOMAIN channel[w] = 1 .. Len(channel[w]) /\ Len(channel[w]) \in Nat
        /\ \A w \in Workers : worker[w] \in WorkerState
    BY LenProperties DEF KeyedTypeOK
  <1>2. \A w \in Workers : \A p \in DOMAIN channel[w] : channel[w][p] \in Message /\ p \in Nat /\ p > 0
    BY <1>1, ElementOfSeq
  <1>3. \A m \in Message : m.type = "job" => m.job \in JobIds /\ m = [type |-> "job", job |-> m.job]
    BY DEF Message
  <1>4. \A w \in Workers, k \in Keys : JobsOf(w, k) \in Seq(JobIds) /\ DOMAIN JobsOf(w, k) = 1 .. Len(JobsOf(w, k))
                                              /\ Len(JobsOf(w, k)) \in Nat
    BY <1>1, LenProperties DEF WorkerState, JobsOf
  <1>5. \A w \in Workers, k \in Keys : \A p \in DOMAIN JobsOf(w, k) : JobsOf(w, k)[p] \in JobIds /\ p \in Nat /\ p > 0
    BY <1>4, ElementOfSeq
  <1>6. \A w \in Workers, c \in Classes : worker[w].ready[c] \in Seq(Keys)
    BY <1>1 DEF WorkerState
  <1>7. \A w \in Workers : worker[w].tasks \subseteq JobIds /\ IsFiniteSet(worker[w].tasks)
    BY <1>1, FS_Subset, CallsAssumption DEF WorkerState
  <1>8. remaps \in Nat /\ faults \in Nat
    BY LimitsAssumption DEF KeyedTypeOK
  <1>9. \A w \in Workers : \A p \in DOMAIN channel[w] : JobAt(w, p) =>
                channel[w][p].job \in JobIds /\ channel[w][p] = [type |-> "job", job |-> channel[w][p].job]
    BY <1>2, <1>3 DEF JobAt
  <1> QED BY <1>1, <1>2, <1>4, <1>5, <1>6, <1>7, <1>8, <1>9

\* The jobs in a channel are jobs.
LEMMA ChannelJobs ==
    ASSUME KeyedTypeOK
    PROVE  \A w \in Workers : \A p \in DOMAIN channel[w] : p \in Nat /\ (JobAt(w, p) => channel[w][p].job \in JobIds)
  BY TypeFacts

\* take_ready() takes the first key of its class, job j.
Started(w, c, k, j) ==
    /\ c \in Classes /\ k \in Keys /\ j \in JobIds /\ k \notin worker[w].active
    /\ JobsOf(w, k) # <<>> /\ j = Head(JobsOf(w, k)) /\ ClassOf(j) = c
    /\ worker[w].ready[c] # <<>> /\ k = Head(worker[w].ready[c]) /\ Cardinality(worker[w].tasks) < ActivePerWorker
    /\ \A v \in Workers \ {w} : worker'[v] = worker[v]
    /\ worker'[w].keys = [worker[w].keys EXCEPT ![k] = Tail(@)]
    /\ worker'[w].ready = [worker[w].ready EXCEPT ![c] = Tail(@)]
    /\ worker'[w].active = worker[w].active \cup {k}
    /\ worker'[w].byClass = [worker[w].byClass EXCEPT ![c] = @ + 1]
    /\ worker'[w].tasks = worker[w].tasks \cup {j}
    /\ worker'[w].barriers = worker[w].barriers
    /\ jobs' = [jobs EXCEPT ![j].phase = "running"]
    /\ worker' \in [Workers -> WorkerState]

LEMMA StartEffect ==
    ASSUME KeyedTypeOK, ReadyInv, NEW w \in Workers, Start(w)
    PROVE  \E c \in Classes, k \in Keys, j \in JobIds : Started(w, c, k, j)
  <1> DEFINE i == CHOOSE n \in 0 .. Len(FairCycle) - 1 : Turn(w, n) /\ \A m \in 0 .. n - 1 : ~Turn(w, m)
             c == CycleClass(w, i)
             first == CHOOSE n \in Candidates(w, c) : \A m \in Candidates(w, c) : n <= m
             k == worker[w].ready[c][first]
             j == Head(JobsOf(w, k))
  <1>t. worker[w] \in WorkerState /\ worker \in [Workers -> WorkerState] /\ Len(FairCycle) \in Nat
        /\ worker[w].cursor \in 0 .. Len(FairCycle) - 1 /\ FairCycle \in Seq(Classes) /\ Len(FairCycle) \in Nat \ {0}
    <2>1. FairCycle \in Seq(Classes) /\ Len(FairCycle) \in Nat \ {0}
      BY CycleAssumption, LenProperties, EmptySeq
    <2>2. worker[w] \in WorkerState /\ worker \in [Workers -> WorkerState]
      BY DEF KeyedTypeOK
    <2>3. worker[w].cursor \in 0 .. Len(FairCycle) - 1
      BY <2>2 DEF WorkerState
    <2> QED BY <2>1, <2>2, <2>3
  <1>1. CanStart(w)
    BY DEF Start
  <1>2. \E n \in 0 .. Len(FairCycle) - 1 : Turn(w, n) /\ \A m \in 0 .. n - 1 : ~Turn(w, m)
    <2> DEFINE T == {n \in 0 .. Len(FairCycle) - 1 : Turn(w, n)}
    <2>1. T # {} /\ T \subseteq Nat
      BY <1>1, <1>t DEF CanStart
    <2>2. \E n \in T : \A m \in T : n <= m
      BY <2>1, LeastNatural
    <2> QED BY <2>2, <1>t
  <1>3. i \in 0 .. Len(FairCycle) - 1 /\ Turn(w, i)
    BY <1>2
  <1>4. c \in Classes
    <2>1. worker[w].cursor + i \in Nat
      BY <1>3, <1>t
    <2>2. (worker[w].cursor + i) % Len(FairCycle) \in 0 .. Len(FairCycle) - 1
      BY <2>1, <1>t, ModRange
    <2>3. ((worker[w].cursor + i) % Len(FairCycle)) + 1 \in 1 .. Len(FairCycle)
      BY <2>2, <1>t
    <2>4. FairCycle[((worker[w].cursor + i) % Len(FairCycle)) + 1] \in Classes
      BY <2>3, <1>t, ElementOfSeq
    <2> QED BY <2>4 DEF CycleClass
  <1>5. Candidates(w, c) # {} /\ worker[w].ready[c] \in Seq(Keys)
    BY <1>3, <1>4, TypeFacts DEF Turn
  <1>6. 1 \in DOMAIN worker[w].ready[c] /\ worker[w].ready[c] # <<>> /\ DOMAIN worker[w].ready[c] = 1 .. Len(worker[w].ready[c])
        /\ Len(worker[w].ready[c]) \in Nat
    <2>1. PICK p \in DOMAIN worker[w].ready[c] : TRUE
      BY <1>5 DEF Candidates
    <2>2. DOMAIN worker[w].ready[c] = 1 .. Len(worker[w].ready[c]) /\ Len(worker[w].ready[c]) \in Nat
      BY <1>5, LenProperties
    <2> QED BY <2>1, <2>2, EmptySeq
  <1>7. \A p \in DOMAIN worker[w].ready[c] : worker[w].ready[c][p] \in Keys /\ Takable(w, c, worker[w].ready[c][p])
    <2>1. \A p \in DOMAIN worker[w].ready[c] : worker[w].ready[c][p] \in Keys
      BY <1>5, <1>6, ElementOfSeq
    <2> QED BY <1>4, <2>1 DEF ReadyInv
  <1>8. Candidates(w, c) = DOMAIN worker[w].ready[c]
    BY <1>7 DEF Candidates
  <1>9. first = 1
    <2>1. \A m \in Candidates(w, c) : 1 <= m
      BY <1>6, <1>8
    <2>2. 1 \in Candidates(w, c)
      BY <1>6, <1>8
    <2>3. first \in Candidates(w, c) /\ \A m \in Candidates(w, c) : first <= m
      BY <2>1, <2>2
    <2> HIDE DEF first
    <2>4. first <= 1 /\ 1 <= first
      BY <2>1, <2>2, <2>3
    <2>5. first \in Nat
      BY <2>3, <1>6, <1>8
    <2> QED BY <2>4, <2>5
  <1> HIDE DEF i, first
  <1>10. k \in Keys /\ Takable(w, c, k) /\ k = worker[w].ready[c][1] /\ k = Head(worker[w].ready[c])
    BY <1>6, <1>7, <1>9, <1>5, HeadTailProperties
  <1>11. /\ worker' = [worker EXCEPT ![w].ready[c] = SubSeq(@, first + 1, Len(@)),
                                      ![w].keys[k] = Tail(@),
                                      ![w].active = @ \cup {k},
                                      ![w].byClass[c] = @ + 1,
                                      ![w].tasks = @ \cup {j},
                                      ![w].cursor = (@ + i + 1) % Len(FairCycle)]
         /\ jobs' = [jobs EXCEPT ![j].phase = "running"]
    BY DEF Start, i, first, Phase
  <1>12. SubSeq(worker[w].ready[c], first + 1, Len(worker[w].ready[c])) = Tail(worker[w].ready[c])
    BY <1>5, <1>6, <1>9, TailIsSubSeq
  <1>13. JobsOf(w, k) \in Seq(JobIds) /\ JobsOf(w, k) # <<>> /\ j \in JobIds /\ k \notin worker[w].active /\ ClassOf(j) = c
    BY <1>10, TypeFacts, HeadTailProperties DEF Takable
  <1>14. (worker[w].cursor + i + 1) % Len(FairCycle) \in 0 .. Len(FairCycle) - 1
    <2>1. worker[w].cursor + i + 1 \in Nat
      BY <1>3, <1>t
    <2> QED BY <2>1, <1>t, ModRange
  <1>15. Tail(JobsOf(w, k)) \in Seq(JobIds) /\ Tail(worker[w].ready[c]) \in Seq(Keys)
    BY <1>13, <1>5, <1>6, HeadTailProperties
  <1> HIDE DEF c, k, j
  <1>16. /\ \A v \in Workers \ {w} : worker'[v] = worker[v]
         /\ worker'[w] = [worker[w] EXCEPT !.ready[c] = Tail(@), !.keys[k] = Tail(@), !.active = @ \cup {k},
                                           !.byClass[c] = @ + 1, !.tasks = @ \cup {j},
                                           !.cursor = (@ + i + 1) % Len(FairCycle)]
         /\ DOMAIN worker' = Workers /\ worker' = [v \in Workers |-> worker'[v]]
    BY <1>11, <1>12, <1>t, ZenonT(60) DEF WorkerState
  <1>17. /\ worker'[w].keys = [worker[w].keys EXCEPT ![k] = Tail(@)]
         /\ worker'[w].ready = [worker[w].ready EXCEPT ![c] = Tail(@)]
         /\ worker'[w].active = worker[w].active \cup {k}
         /\ worker'[w].byClass = [worker[w].byClass EXCEPT ![c] = @ + 1]
         /\ worker'[w].tasks = worker[w].tasks \cup {j}
         /\ worker'[w].barriers = worker[w].barriers
    BY <1>16, <1>t DEF WorkerState
  <1>18. worker'[w] \in WorkerState
    <2>1. worker[w].keys[k] = JobsOf(w, k)
      BY DEF JobsOf
    <2>2. [worker[w].keys EXCEPT ![k] = Tail(@)] \in [Keys -> Seq(JobIds)]
      BY <1>t, <1>15, <2>1 DEF WorkerState
    <2>3. [worker[w].ready EXCEPT ![c] = Tail(@)] \in [Classes -> Seq(Keys)]
      BY <1>t, <1>15 DEF WorkerState
    <2>4. [worker[w].byClass EXCEPT ![c] = @ + 1] \in [Classes -> Nat]
      BY <1>t, <1>4 DEF WorkerState
    <2>5. worker[w].active \cup {k} \in SUBSET Keys /\ worker[w].tasks \cup {j} \in SUBSET JobIds
      BY <1>t, <1>10, <1>13 DEF WorkerState
    <2>6. worker'[w] = [worker[w] EXCEPT !.ready = [worker[w].ready EXCEPT ![c] = Tail(@)], !.keys = [worker[w].keys EXCEPT ![k] = Tail(@)],
                           !.active = @ \cup {k}, !.byClass = [worker[w].byClass EXCEPT ![c] = @ + 1], !.tasks = @ \cup {j},
                           !.cursor = (@ + i + 1) % Len(FairCycle)]
      BY <1>16, <1>t DEF WorkerState
    <2> QED BY <2>2, <2>3, <2>4, <2>5, <2>6, <1>t, <1>14, ZenonT(60) DEF WorkerState
  <1>19. worker' \in [Workers -> WorkerState]
    BY <1>16, <1>18, <1>t
  <1>20. Cardinality(worker[w].tasks) < ActivePerWorker /\ j = Head(JobsOf(w, k))
    BY <1>1 DEF CanStart, j
  <1>21. Started(w, c, k, j)
    BY <1>4, <1>6, <1>10, <1>11, <1>13, <1>16, <1>17, <1>19, <1>20 DEF Started
  <1> QED BY <1>21, <1>4, <1>10, <1>13

\* Only worker w's state changes.
Only(w) == (\A v \in Workers \ {w} : worker'[v] = worker[v]) /\ worker' \in [Workers -> WorkerState]

LEMMA CompleteEffect ==
    ASSUME KeyedTypeOK, PlaceInv, CountInv, NEW w \in Workers, NEW j \in JobIds, Complete(w, j)
    PROVE  /\ Only(w) /\ j \in worker[w].tasks /\ KeyOf(j) \in Keys /\ KeyOf(j) \in worker[w].active
           /\ worker'[w].keys = worker[w].keys /\ worker'[w].barriers = worker[w].barriers
           /\ worker'[w].ready = MadeReady(w, KeyOf(j)) /\ worker'[w].active = worker[w].active \ {KeyOf(j)}
           /\ worker'[w].byClass = [worker[w].byClass EXCEPT ![ClassOf(j)] = @ - 1]
           /\ worker'[w].tasks = worker[w].tasks \ {j}
           /\ jobs' = [jobs EXCEPT ![j].phase = "done"] /\ jobs[j].phase = "running"
  <1> DEFINE k == KeyOf(j)
             x == [worker[w] EXCEPT !.tasks = @ \ {j}, !.active = @ \ {k}, !.byClass[ClassOf(j)] = @ - 1,
                                    !.ready = MadeReady(w, k)]
  <1>t. worker \in [Workers -> WorkerState] /\ worker[w] \in WorkerState
    BY DEF KeyedTypeOK
  <1>1. /\ j \in worker[w].tasks /\ k \in Keys /\ k \in worker[w].active /\ ClassOf(j) \in Classes
        /\ jobs[j].phase = "running" /\ jobs' = [jobs EXCEPT ![j].phase = "done"]
    BY ConstantFacts DEF Complete, PlaceInv, Phase
  <1>2. worker' = [worker EXCEPT ![w].tasks = @ \ {j}, ![w].active = @ \ {k}, ![w].byClass[ClassOf(j)] = @ - 1,
                                 ![w].ready = MadeReady(w, k)]
    BY DEF Complete
  <1>3. worker' = [worker EXCEPT ![w] = x]
    BY <1>2, <1>t DEF WorkerState
  <1>4. worker[w].byClass[ClassOf(j)] - 1 \in Nat
    <2>1. IsFiniteSet(OfClass(w, ClassOf(j)))
      BY TypeFacts, FS_Subset DEF OfClass
    <2>2. j \in OfClass(w, ClassOf(j))
      BY <1>1 DEF OfClass
    <2>3. Cardinality(OfClass(w, ClassOf(j))) > 0 /\ Cardinality(OfClass(w, ClassOf(j))) \in Nat
      BY <2>1, <2>2, OneLess
    <2>4. Cardinality(OfClass(w, ClassOf(j))) <= worker[w].byClass[ClassOf(j)] /\ worker[w].byClass[ClassOf(j)] \in Nat
      BY <1>1, <1>t DEF CountInv, WorkerState
    <2> QED BY <2>3, <2>4
  <1>5. MadeReady(w, k) \in [Classes -> Seq(Keys)]
    <2>1. CASE JobsOf(w, k) = <<>>
      BY <2>1, <1>t DEF MadeReady, WorkerState
    <2>2. CASE JobsOf(w, k) # <<>>
      <3>1. Head(JobsOf(w, k)) \in JobIds
        BY <2>2, <1>1, TypeFacts, HeadTailProperties
      <3>2. ClassOf(Head(JobsOf(w, k))) \in Classes
        BY <3>1, ConstantFacts
      <3>3. worker[w].ready \in [Classes -> Seq(Keys)]
        BY <1>t DEF WorkerState
      <3>4. Append(worker[w].ready[ClassOf(Head(JobsOf(w, k)))], k) \in Seq(Keys)
        BY <3>2, <3>3, <1>1, AppendProperties
      <3> HIDE DEF k
      <3> QED BY <2>2, <3>2, <3>3, <3>4 DEF MadeReady
    <2> QED BY <2>1, <2>2
  <1>6. [worker[w].byClass EXCEPT ![ClassOf(j)] = @ - 1] \in [Classes -> Nat]
    BY <1>t, <1>4, <1>1 DEF WorkerState
  <1> HIDE DEF k
  <1>7. x = [worker[w] EXCEPT !.tasks = @ \ {j}, !.active = @ \ {k},
                              !.byClass = [worker[w].byClass EXCEPT ![ClassOf(j)] = @ - 1], !.ready = MadeReady(w, k)]
    BY <1>t DEF WorkerState
  <1> HIDE DEF x
  <1>8. x \in WorkerState
    BY <1>t, <1>5, <1>6, <1>7 DEF WorkerState
  <1>9. Only(w) /\ worker'[w] = x
    BY <1>3, <1>8, <1>t DEF Only
  <1>10. /\ x.keys = worker[w].keys /\ x.barriers = worker[w].barriers /\ x.ready = MadeReady(w, k)
         /\ x.active = worker[w].active \ {k} /\ x.byClass = [worker[w].byClass EXCEPT ![ClassOf(j)] = @ - 1]
         /\ x.tasks = worker[w].tasks \ {j}
    BY <1>7, <1>t DEF WorkerState
  <1> QED BY <1>1, <1>9, <1>10 DEF k

LEMMA PanicEffect ==
    ASSUME KeyedTypeOK, PlaceInv, NEW w \in Workers, NEW j \in JobIds, Panic(w, j)
    PROVE  /\ Only(w) /\ j \in worker[w].tasks /\ KeyOf(j) \in Keys /\ KeyOf(j) \in worker[w].active
           /\ worker'[w].keys = worker[w].keys /\ worker'[w].barriers = worker[w].barriers
           /\ worker'[w].ready = worker[w].ready /\ worker'[w].active = worker[w].active
           /\ worker'[w].byClass = worker[w].byClass
           /\ worker'[w].tasks = worker[w].tasks \ {j}
           /\ jobs' = [jobs EXCEPT ![j].phase = "dropped"] /\ jobs[j].phase = "running"
  <1>t. worker \in [Workers -> WorkerState] /\ worker[w] \in WorkerState
    BY DEF KeyedTypeOK
  <1>1. /\ j \in worker[w].tasks /\ KeyOf(j) \in Keys /\ KeyOf(j) \in worker[w].active
        /\ jobs[j].phase = "running" /\ jobs' = [jobs EXCEPT ![j].phase = "dropped"]
    BY ConstantFacts DEF Panic, PlaceInv, Phase
  <1>2. worker' = [worker EXCEPT ![w].tasks = @ \ {j}]
    BY DEF Panic
  <1>3. worker'[w] = [worker[w] EXCEPT !.tasks = @ \ {j}] /\ worker'[w] \in WorkerState
    BY <1>2, <1>t DEF WorkerState
  <1>4. Only(w)
    BY <1>2, <1>3, <1>t DEF Only
  <1> QED BY <1>1, <1>3, <1>4, <1>t DEF WorkerState

LEMMA NotifyEffect ==
    ASSUME KeyedTypeOK, NEW w \in Workers, Notify(w)
    PROVE  /\ Only(w)
           /\ worker'[w].keys = worker[w].keys /\ worker'[w].ready = worker[w].ready /\ worker'[w].active = worker[w].active
           /\ worker'[w].byClass = worker[w].byClass /\ worker'[w].tasks = worker[w].tasks
           /\ worker'[w].barriers \subseteq worker[w].barriers
  <1> DEFINE drained == {b \in worker[w].barriers : ~Busy(w, b.slot)}
  <1>t. worker \in [Workers -> WorkerState] /\ worker[w] \in WorkerState
    BY DEF KeyedTypeOK
  <1>2. worker' = [worker EXCEPT ![w].barriers = @ \ drained]
    BY DEF Notify
  <1> HIDE DEF drained
  <1>3. worker'[w] = [worker[w] EXCEPT !.barriers = @ \ drained] /\ worker'[w] \in WorkerState
    BY <1>2, <1>t DEF WorkerState
  <1>4. Only(w)
    BY <1>2, <1>3, <1>t DEF Only
  <1> QED BY <1>3, <1>4, <1>t DEF WorkerState

\* The first message leaves the channel of w.
Taken(w) ==
    /\ channel[w] # <<>> /\ channel[w][1] \in Message /\ 1 \in DOMAIN channel[w]
    /\ channel' \in [Workers -> Seq(Message)] /\ \A v \in Workers \ {w} : channel'[v] = channel[v]
    /\ Len(channel'[w]) = Len(channel[w]) - 1
    /\ \A p \in DOMAIN channel'[w] : p \in Nat /\ p + 1 \in DOMAIN channel[w] /\ channel'[w][p] = channel[w][p + 1] /\ p + 1 # 1
    /\ \A p \in DOMAIN channel[w] : p = 1 \/ (p - 1 \in DOMAIN channel'[w] /\ channel'[w][p - 1] = channel[w][p])

LEMMA ReceiveTakes ==
    ASSUME KeyedTypeOK, NEW w \in Workers, Receive(w)
    PROVE  Taken(w) /\ Head(channel[w]) = channel[w][1]
  <1>1. channel[w] # <<>> /\ channel' = [channel EXCEPT ![w] = Tail(@)] /\ channel \in [Workers -> Seq(Message)]
    BY DEF Receive, KeyedTypeOK
  <1>2. channel[w] \in Seq(Message)
    BY <1>1
  <1>3. /\ Tail(channel[w]) \in Seq(Message) /\ Len(Tail(channel[w])) = Len(channel[w]) - 1 /\ Head(channel[w]) \in Message
        /\ Head(channel[w]) = channel[w][1] /\ 1 \in DOMAIN channel[w]
        /\ \A p \in DOMAIN Tail(channel[w]) : p \in Nat /\ p + 1 \in DOMAIN channel[w] /\ Tail(channel[w])[p] = channel[w][p + 1] /\ p + 1 # 1
        /\ \A p \in DOMAIN channel[w] : p = 1 \/ (p - 1 \in DOMAIN Tail(channel[w]) /\ Tail(channel[w])[p - 1] = channel[w][p])
    BY <1>1, <1>2, Shortened
  <1>4. channel'[w] = Tail(channel[w])
    BY <1>1
  <1>5. channel' \in [Workers -> Seq(Message)] /\ \A v \in Workers \ {w} : channel'[v] = channel[v]
    BY <1>1, <1>3
  <1> QED BY <1>1, <1>3, <1>4, <1>5 DEF Taken

LEMMA ReceiveJobEffect ==
    ASSUME KeyedTypeOK, NEW w \in Workers, Receive(w), channel[w][1].type = "job"
    PROVE  LET j == channel[w][1].job
               k == KeyOf(j) IN
           /\ Only(w) /\ Taken(w) /\ j \in JobIds /\ k \in Keys /\ JobAt(w, 1)
           /\ worker'[w].keys = [worker[w].keys EXCEPT ![k] = Append(@, j)]
           /\ worker'[w].ready = ReadyWith(w, j) /\ worker'[w].active = worker[w].active
           /\ worker'[w].byClass = worker[w].byClass /\ worker'[w].tasks = worker[w].tasks
           /\ worker'[w].barriers = worker[w].barriers
  <1> DEFINE j == channel[w][1].job
             k == KeyOf(j)
             x == [worker[w] EXCEPT !.keys[k] = Append(@, j), !.ready = ReadyWith(w, j)]
  <1>t. worker \in [Workers -> WorkerState] /\ worker[w] \in WorkerState
    BY DEF KeyedTypeOK
  <1>1. Taken(w) /\ Head(channel[w]) = channel[w][1]
    BY ReceiveTakes
  <1>2. j \in JobIds /\ k \in Keys /\ ClassOf(j) \in Classes /\ JobAt(w, 1)
    BY <1>1, TypeFacts, ConstantFacts DEF Taken, JobAt
  <1>3. worker' = [worker EXCEPT ![w].keys[k] = Append(@, j), ![w].ready = ReadyWith(w, j)]
    BY <1>1 DEF Receive
  <1>4. ReadyWith(w, j) \in [Classes -> Seq(Keys)]
    <2>1. worker[w].ready \in [Classes -> Seq(Keys)]
      BY <1>t DEF WorkerState
    <2>2. Append(worker[w].ready[ClassOf(j)], k) \in Seq(Keys)
      BY <1>2, <2>1, AppendProperties
    <2> QED BY <2>1, <2>2, <1>2 DEF ReadyWith
  <1>5. [worker[w].keys EXCEPT ![k] = Append(@, j)] \in [Keys -> Seq(JobIds)]
    <2>1. worker[w].keys \in [Keys -> Seq(JobIds)]
      BY <1>t DEF WorkerState
    <2>2. Append(worker[w].keys[k], j) \in Seq(JobIds)
      BY <1>2, <2>1, AppendProperties
    <2> QED BY <2>1, <2>2
  <1> HIDE DEF k, j
  <1>6. worker' = [worker EXCEPT ![w] = x]
    BY <1>3, <1>t DEF WorkerState
  <1>7. x = [worker[w] EXCEPT !.keys = [worker[w].keys EXCEPT ![k] = Append(@, j)], !.ready = ReadyWith(w, j)]
    BY <1>t DEF WorkerState
  <1> HIDE DEF x
  <1>8. x \in WorkerState
    BY <1>t, <1>4, <1>5, <1>7 DEF WorkerState
  <1>9. Only(w) /\ worker'[w] = x
    BY <1>6, <1>8, <1>t DEF Only
  <1>10. /\ x.keys = [worker[w].keys EXCEPT ![k] = Append(@, j)] /\ x.ready = ReadyWith(w, j) /\ x.active = worker[w].active
         /\ x.byClass = worker[w].byClass /\ x.tasks = worker[w].tasks /\ x.barriers = worker[w].barriers
    BY <1>7, <1>t DEF WorkerState
  <1> QED BY <1>1, <1>2, <1>9, <1>10 DEF k, j

LEMMA ReceiveOtherEffect ==
    ASSUME KeyedTypeOK, NEW w \in Workers, Receive(w), channel[w][1].type # "job"
    PROVE  /\ Only(w) /\ Taken(w)
           /\ worker'[w].keys = worker[w].keys /\ worker'[w].ready = worker[w].ready /\ worker'[w].active = worker[w].active
           /\ worker'[w].byClass = worker[w].byClass /\ worker'[w].tasks = worker[w].tasks
           /\ \A b \in worker'[w].barriers : b \in worker[w].barriers \/
                (channel[w][1].type = "barrier" /\ b.slot = channel[w][1].slot /\ b.call = channel[w][1].call)
  <1>t. worker \in [Workers -> WorkerState] /\ worker[w] \in WorkerState
    BY DEF KeyedTypeOK
  <1>1. Taken(w) /\ Head(channel[w]) = channel[w][1] /\ channel[w][1] \in Message
    BY ReceiveTakes DEF Taken
  <1>2. \/ channel[w][1].type = "barrier" /\ channel[w][1].slot \in Slots /\ channel[w][1].call \in 1 .. MaxRemaps
        \/ channel[w][1].type = "shutdown"
    BY <1>1 DEF Message
  <1>3. CASE channel[w][1].type = "barrier" /\ channel[w][1].slot \in Slots /\ channel[w][1].call \in 1 .. MaxRemaps
    <2> DEFINE b == [slot |-> channel[w][1].slot, call |-> channel[w][1].call]
    <2>1. worker' = [worker EXCEPT ![w].barriers = @ \cup {b}]
      BY <1>1, <1>3 DEF Receive
    <2>2. b \in [slot : Slots, call : 1 .. MaxRemaps]
      BY <1>3
    <2>3. b.slot = channel[w][1].slot /\ b.call = channel[w][1].call
      OBVIOUS
    <2> HIDE DEF b
    <2>4. worker'[w] = [worker[w] EXCEPT !.barriers = @ \cup {b}] /\ worker'[w] \in WorkerState
      BY <2>1, <2>2, <1>t DEF WorkerState
    <2>5. Only(w)
      BY <2>1, <2>4, <1>t DEF Only
    <2> QED BY <1>1, <1>3, <2>3, <2>4, <2>5, <1>t DEF WorkerState
  <1>4. CASE channel[w][1].type = "shutdown"
    <2>1. worker' = [worker EXCEPT ![w].stopping = TRUE]
      BY <1>1, <1>4 DEF Receive
    <2>4. worker'[w] = [worker[w] EXCEPT !.stopping = TRUE] /\ worker'[w] \in WorkerState
      BY <2>1, <1>t DEF WorkerState
    <2>5. Only(w)
      BY <2>1, <2>4, <1>t DEF Only
    <2> QED BY <1>1, <2>4, <2>5, <1>t DEF WorkerState
  <1> QED BY <1>2, <1>3, <1>4

LEMMA CloseEffect ==
    ASSUME KeyedTypeOK, NEW w \in Workers, Close(w)
    PROVE  /\ Only(w)
           /\ worker'[w].keys = worker[w].keys /\ worker'[w].ready = worker[w].ready /\ worker'[w].active = worker[w].active
           /\ worker'[w].byClass = worker[w].byClass /\ worker'[w].tasks = worker[w].tasks /\ worker'[w].barriers = {}
           /\ channel' \in [Workers -> Seq(Message)] /\ channel'[w] = <<>> /\ \A v \in Workers \ {w} : channel'[v] = channel[v]
           /\ DOMAIN channel'[w] = {}
           /\ \A j \in JobIds : jobs'[j] = IF \E i \in DOMAIN channel[w] : JobAt(w, i) /\ channel[w][i].job = j
                                           THEN [jobs[j] EXCEPT !.phase = "dropped"] ELSE jobs[j]
           /\ jobs' \in [JobIds -> [phase : Phases, after : SUBSET JobIds]]
  <1>t. worker \in [Workers -> WorkerState] /\ worker[w] \in WorkerState /\ channel \in [Workers -> Seq(Message)]
    BY DEF KeyedTypeOK
  <1>1. worker' = [worker EXCEPT ![w].closed = TRUE, ![w].barriers = {}] /\ channel' = [channel EXCEPT ![w] = <<>>]
    BY DEF Close
  <1>2. worker'[w] = [worker[w] EXCEPT !.closed = TRUE, !.barriers = {}] /\ worker'[w] \in WorkerState
    BY <1>1, <1>t DEF WorkerState
  <1>3. Only(w)
    BY <1>1, <1>2, <1>t DEF Only
  <1>4. /\ channel' \in [Workers -> Seq(Message)] /\ channel'[w] = <<>> /\ \A v \in Workers \ {w} : channel'[v] = channel[v]
        /\ DOMAIN channel'[w] = {}
    BY <1>1, <1>t, EmptySeq
  <1>5. jobs' = [j \in JobIds |-> IF \E i \in DOMAIN channel[w] : channel[w][i] = [type |-> "job", job |-> j]
                                  THEN [jobs[j] EXCEPT !.phase = "dropped"] ELSE jobs[j]]
    BY DEF Close
  <1>6. \A j \in JobIds : (\E i \in DOMAIN channel[w] : channel[w][i] = [type |-> "job", job |-> j]) <=>
                          (\E i \in DOMAIN channel[w] : JobAt(w, i) /\ channel[w][i].job = j)
    BY TypeFacts DEF JobAt
  <1>7. \A j \in JobIds : [jobs[j] EXCEPT !.phase = "dropped"] \in [phase : Phases, after : SUBSET JobIds]
                          /\ jobs[j] \in [phase : Phases, after : SUBSET JobIds]
    BY TypeFacts DEF Phases
  <1>8. jobs' \in [JobIds -> [phase : Phases, after : SUBSET JobIds]]
    BY <1>5, <1>7
  <1> QED BY <1>2, <1>3, <1>4, <1>5, <1>6, <1>8, <1>t DEF WorkerState

-----------------------------------------------------------------------------
(* What a step does to the places where jobs are.                          *)

\* Only the phase of j changes, to x.
PhaseOnly(j, x) ==
    /\ \A i \in JobIds : jobs'[i].after = jobs[i].after
    /\ \A i \in JobIds \ {j} : jobs'[i].phase = jobs[i].phase
    /\ jobs'[j].phase = x
    /\ jobs' \in [JobIds -> [phase : Phases, after : SUBSET JobIds]]

LEMMA PhaseEffect ==
    ASSUME KeyedTypeOK, NEW j \in JobIds, NEW x \in Phases, jobs' = [jobs EXCEPT ![j].phase = x]
    PROVE  PhaseOnly(j, x)
  <1>1. jobs \in [JobIds -> [phase : Phases, after : SUBSET JobIds]]
    BY DEF KeyedTypeOK
  <1>2. jobs'[j] = [jobs[j] EXCEPT !.phase = x] /\ \A i \in JobIds \ {j} : jobs'[i] = jobs[i]
    BY <1>1
  <1>3. jobs'[j].phase = x /\ jobs'[j].after = jobs[j].after /\ jobs'[j] \in [phase : Phases, after : SUBSET JobIds]
    BY <1>1, <1>2
  <1> QED BY <1>1, <1>2, <1>3 DEF PhaseOnly

\* Messages stay where they are; what comes behind them is not a job.
QuietChannel == \A w \in Workers :
    /\ \A p \in DOMAIN channel[w] : p \in DOMAIN channel'[w] /\ channel'[w][p] = channel[w][p]
    /\ \A p \in DOMAIN channel'[w] : p \in DOMAIN channel[w] \/ (channel'[w][p].type # "job" /\ \A q \in DOMAIN channel[w] : q < p)
QuietWorkers == \A w \in Workers :
    /\ worker'[w].keys = worker[w].keys /\ worker'[w].ready = worker[w].ready /\ worker'[w].active = worker[w].active
    /\ worker'[w].tasks = worker[w].tasks /\ worker'[w].byClass = worker[w].byClass
\* Nobody begins or ceases to be queued or to run.
QuietJobs == \A j \in JobIds :
    /\ jobs'[j].phase = "queued" <=> jobs[j].phase = "queued"
    /\ jobs'[j].phase = "running" <=> jobs[j].phase = "running"
    /\ jobs'[j].after = jobs[j].after \/ jobs[j].phase = "none"

\* Messages stay where they are; message m comes last in the channel of w.
Pushed(w, m) ==
    /\ m \in Message
    /\ channel' \in [Workers -> Seq(Message)]
    /\ \A v \in Workers : \A p \in DOMAIN channel[v] : p \in DOMAIN channel'[v] /\ channel'[v][p] = channel[v][p]
    /\ \A v \in Workers : \A p \in DOMAIN channel'[v] : p \in DOMAIN channel[v] \/
         (v = w /\ p = Len(channel[w]) + 1 /\ channel'[v][p] = m /\ \A q \in DOMAIN channel[w] : q < p)
    /\ Len(channel[w]) + 1 \in DOMAIN channel'[w] /\ channel'[w][Len(channel[w]) + 1] = m
    /\ Len(channel'[w]) = Len(channel[w]) + 1 /\ \A v \in Workers \ {w} : channel'[v] = channel[v]

LEMMA PushEffect ==
    ASSUME KeyedTypeOK, NEW w \in Workers, NEW m \in Message, channel' = [channel EXCEPT ![w] = Append(@, m)]
    PROVE  Pushed(w, m)
  <1>1. channel \in [Workers -> Seq(Message)] /\ channel[w] \in Seq(Message)
    BY DEF KeyedTypeOK
  <1>2. channel'[w] = Append(channel[w], m) /\ \A v \in Workers \ {w} : channel'[v] = channel[v]
    BY <1>1
  <1>3. /\ Append(channel[w], m) \in Seq(Message) /\ Len(Append(channel[w], m)) = Len(channel[w]) + 1
        /\ \A p \in DOMAIN channel[w] : p \in DOMAIN Append(channel[w], m) /\ Append(channel[w], m)[p] = channel[w][p] /\ p <= Len(channel[w]) /\ p \in Nat
        /\ \A p \in DOMAIN Append(channel[w], m) : p \in DOMAIN channel[w] \/ p = Len(channel[w]) + 1
        /\ Append(channel[w], m)[Len(channel[w]) + 1] = m /\ Len(channel[w]) \in Nat
        /\ Len(channel[w]) + 1 \in DOMAIN Append(channel[w], m)
    BY <1>1, Appended
  <1>4. channel' \in [Workers -> Seq(Message)]
    BY <1>1, <1>2, <1>3
  <1>5. \A q \in DOMAIN channel[w] : q < Len(channel[w]) + 1
    BY <1>3
  <1>6. \A v \in Workers : \A p \in DOMAIN channel[v] : p \in DOMAIN channel'[v] /\ channel'[v][p] = channel[v][p]
    BY <1>2, <1>3
  <1>7. \A v \in Workers : \A p \in DOMAIN channel'[v] : p \in DOMAIN channel[v] \/
         (v = w /\ p = Len(channel[w]) + 1 /\ channel'[v][p] = m /\ \A q \in DOMAIN channel[w] : q < p)
    BY <1>2, <1>3, <1>5
  <1> QED BY <1>2, <1>3, <1>4, <1>6, <1>7 DEF Pushed

\* A call of dispatch() is under way, and it is its dispatcher's.
LEMMA CallFacts ==
    ASSUME KeyedTypeOK, DispatchInv, NEW d \in Dispatchers, dispatch[d].at # "idle"
    PROVE  /\ dispatch[d].job \in JobIds /\ Calls[dispatch[d].job].by = d /\ dispatch[d].worker \in Workers
           /\ KeyOf(dispatch[d].job) \in Keys /\ SlotOf(d) \in Slots
           /\ dispatch[d].at # "sent" => jobs[dispatch[d].job].phase = "admitting"
           /\ \A b \in Dispatchers : dispatch[b].at # "idle" /\ dispatch[b].job = dispatch[d].job => b = d
  <1>1. /\ dispatch[d].job \in JobIds /\ Calls[dispatch[d].job].by = d
        /\ dispatch[d].at # "sent" => jobs[dispatch[d].job].phase = "admitting"
        /\ \A b \in Dispatchers : dispatch[b].at # "idle" => Calls[dispatch[b].job].by = b
    BY DEF DispatchInv
  <1>2. dispatch[d].worker \in Workers
    BY DEF KeyedTypeOK
  <1>3. KeyOf(dispatch[d].job) \in Keys /\ SlotOf(d) \in Slots
    BY <1>1, ConstantFacts DEF SlotOf
  <1> QED BY <1>1, <1>2, <1>3

\* Job j of worker w ends, in phase x.
Ended(w, j, x) ==
    /\ Only(w) /\ j \in worker[w].tasks /\ KeyOf(j) \in Keys /\ KeyOf(j) \in worker[w].active /\ jobs[j].phase = "running"
    /\ PhaseOnly(j, x) /\ x \in {"done", "dropped"}
    /\ worker'[w].keys = worker[w].keys /\ worker'[w].barriers = worker[w].barriers
    /\ worker'[w].tasks = worker[w].tasks \ {j}
    /\ worker'[w].active \in {worker[w].active, worker[w].active \ {KeyOf(j)}}

LEMMA EndedEffect ==
    ASSUME KeyedTypeOK, PlaceInv, CountInv, NEW w \in Workers, NEW j \in JobIds, Complete(w, j) \/ Panic(w, j)
    PROVE  Ended(w, j, IF Complete(w, j) THEN "done" ELSE "dropped") /\ UNCHANGED channel
  <1>1. CASE Complete(w, j)
    <2>1. UNCHANGED channel
      BY <1>1 DEF Complete
    <2>2. PhaseOnly(j, "done")
      BY <1>1, CompleteEffect, PhaseEffect DEF Phases
    <2> QED BY <1>1, <2>1, <2>2, CompleteEffect DEF Ended
  <1>2. CASE Panic(w, j) /\ ~Complete(w, j)
    <2>1. UNCHANGED channel
      BY <1>2 DEF Panic
    <2>2. PhaseOnly(j, "dropped")
      BY <1>2, PanicEffect, PhaseEffect DEF Phases
    <2> QED BY <1>2, <2>1, <2>2, PanicEffect DEF Ended
  <1> QED BY <1>1, <1>2
-----------------------------------------------------------------------------
(* Where jobs are: PlaceInv, FoundInv, UniqueInv, OrderInv.                *)

PlacesInv == PlaceInv /\ FoundInv /\ UniqueInv /\ OrderInv

LEMMA QuietPlaces ==
    ASSUME KeyedTypeOK, PlacesInv, QuietChannel, QuietWorkers, QuietJobs
    PROVE  PlacesInv'
  <1>a. \A v \in Workers, m \in Keys : JobsOf(v, m)' = JobsOf(v, m)
    BY DEF QuietWorkers, JobsOf
  <1>b. \A v \in Workers : \A p \in DOMAIN channel'[v] : JobAt(v, p)' => p \in DOMAIN channel[v] /\ channel'[v][p] = channel[v][p] /\ JobAt(v, p)
                             /\ channel[v][p].job \in JobIds
    BY ChannelJobs DEF QuietChannel, JobAt
  <1>c. \A v \in Workers : \A p \in DOMAIN channel[v] : JobAt(v, p) => p \in DOMAIN channel'[v] /\ channel'[v][p] = channel[v][p] /\ JobAt(v, p)'
    BY DEF QuietChannel, JobAt
  <1>d. \A v \in Workers, m \in Keys : \A p \in DOMAIN JobsOf(v, m) : JobsOf(v, m)[p] \in JobIds
    BY TypeFacts
  <1>e. \A v \in Workers : worker[v].tasks \subseteq JobIds /\ worker'[v].tasks = worker[v].tasks /\ worker'[v].active = worker[v].active
    BY TypeFacts DEF QuietWorkers
  <1>f. \A j \in JobIds : jobs[j].phase = "queued" => jobs'[j].phase = "queued" /\ jobs'[j].after = jobs[j].after
    BY DEF QuietJobs
  <1>g. \A j \in JobIds : KeyOf(j) \in Keys
    BY ConstantFacts
  <1>1. PlaceInv'
    <2>1. \A w \in Workers : \A p \in DOMAIN channel'[w] : JobAt(w, p)' => jobs'[channel'[w][p].job].phase = "queued"
      BY <1>b, <1>f DEF PlacesInv, PlaceInv
    <2>2. \A w \in Workers, k \in Keys : \A p \in DOMAIN JobsOf(w, k)' :
            KeyOf(JobsOf(w, k)'[p]) = k /\ jobs'[JobsOf(w, k)'[p]].phase = "queued"
      BY <1>a, <1>d, <1>f DEF PlacesInv, PlaceInv
    <2>3. \A w \in Workers : \A j \in worker'[w].tasks : jobs'[j].phase = "running" /\ KeyOf(j) \in worker'[w].active
      BY <1>e DEF PlacesInv, PlaceInv, QuietJobs
    <2> QED BY <2>1, <2>2, <2>3 DEF PlaceInv
  <1>2. FoundInv'
    <2>1. ASSUME NEW j \in JobIds, jobs'[j].phase = "queued"
          PROVE  \E w \in Workers : \/ \E p \in DOMAIN channel'[w] : JobAt(w, p)' /\ channel'[w][p].job = j
                                    \/ \E p \in DOMAIN JobsOf(w, KeyOf(j))' : JobsOf(w, KeyOf(j))'[p] = j
      <3>1. PICK w \in Workers : \/ \E p \in DOMAIN channel[w] : JobAt(w, p) /\ channel[w][p].job = j
                                 \/ \E p \in DOMAIN JobsOf(w, KeyOf(j)) : JobsOf(w, KeyOf(j))[p] = j
        BY <2>1 DEF QuietJobs, PlacesInv, FoundInv
      <3> QED BY <3>1, <1>a, <1>c, <1>g
    <2>2. \A j \in JobIds : jobs'[j].phase = "running" => \E w \in Workers : j \in worker'[w].tasks
      BY <1>e DEF QuietJobs, PlacesInv, FoundInv
    <2> QED BY <2>1, <2>2 DEF FoundInv
  <1>3. UniqueInv'
    <2>1. \A w, v \in Workers : \A p \in DOMAIN channel'[w], q \in DOMAIN channel'[v] :
            JobAt(w, p)' /\ JobAt(v, q)' /\ channel'[w][p].job = channel'[v][q].job => w = v /\ p = q
      BY <1>b DEF PlacesInv, UniqueInv
    <2>2. \A w, v \in Workers, k \in Keys : \A p \in DOMAIN channel'[w], q \in DOMAIN JobsOf(v, k)' :
            JobAt(w, p)' => channel'[w][p].job # JobsOf(v, k)'[q]
      BY <1>a, <1>b DEF PlacesInv, UniqueInv
    <2>3. \A w, v \in Workers, k \in Keys : \A p \in DOMAIN JobsOf(w, k)', q \in DOMAIN JobsOf(v, k)' :
            JobsOf(w, k)'[p] = JobsOf(v, k)'[q] => w = v /\ p = q
      BY <1>a DEF PlacesInv, UniqueInv
    <2>4. \A w, v \in Workers, j \in JobIds : j \in worker'[w].tasks /\ j \in worker'[v].tasks => w = v
      BY <1>e DEF PlacesInv, UniqueInv
    <2>5. \A w \in Workers : \A j, i \in worker'[w].tasks : KeyOf(j) = KeyOf(i) => j = i
      BY <1>e DEF PlacesInv, UniqueInv
    <2> QED BY <2>1, <2>2, <2>3, <2>4, <2>5 DEF UniqueInv
  <1>4. OrderInv'
    <2>1. \A w \in Workers, k \in Keys : \A p, q \in DOMAIN JobsOf(w, k)' :
            JobsOf(w, k)'[q] \in jobs'[JobsOf(w, k)'[p]].after => q < p
      BY <1>a, <1>d, <1>f DEF PlacesInv, OrderInv, PlaceInv
    <2>2. \A w \in Workers, k \in Keys : \A p \in DOMAIN JobsOf(w, k)', q \in DOMAIN channel'[w] :
            JobAt(w, q)' => channel'[w][q].job \notin jobs'[JobsOf(w, k)'[p]].after
      BY <1>a, <1>b, <1>d, <1>f DEF PlacesInv, OrderInv, PlaceInv
    <2>3. \A w \in Workers : \A p, q \in DOMAIN channel'[w] :
            JobAt(w, p)' /\ JobAt(w, q)' /\ channel'[w][q].job \in jobs'[channel'[w][p].job].after => q < p
      BY <1>b, <1>f DEF PlacesInv, OrderInv, PlaceInv
    <2> QED BY <2>1, <2>2, <2>3 DEF OrderInv
  <1> QED BY <1>1, <1>2, <1>3, <1>4 DEF PlacesInv

LEMMA SendPlaces ==
    ASSUME KeyedTypeOK, PlacesInv, AfterInv, NEW w \in Workers, NEW j \in JobIds, jobs[j].phase = "admitting",
           \E d \in Dispatchers : dispatch[d].at # "idle" /\ dispatch[d].job = j,
           Pushed(w, [type |-> "job", job |-> j]), QuietWorkers, PhaseOnly(j, "queued")
    PROVE  PlacesInv'
  <1>0. PICK n \in Nat : n = Len(channel[w]) + 1
    BY TypeFacts
  <1>a. \A v \in Workers, m \in Keys : JobsOf(v, m)' = JobsOf(v, m)
    BY DEF QuietWorkers, JobsOf
  <1>b. \A v \in Workers : \A p \in DOMAIN channel'[v] : JobAt(v, p)' =>
          \/ p \in DOMAIN channel[v] /\ channel'[v][p] = channel[v][p] /\ JobAt(v, p)
             /\ channel[v][p].job \in JobIds /\ channel[v][p].job # j
          \/ v = w /\ p = n /\ channel'[v][p].job = j /\ \A q \in DOMAIN channel[w] : q < p
    <2>1. \A v \in Workers : \A p \in DOMAIN channel[v] : JobAt(v, p) => channel[v][p].job \in JobIds /\ channel[v][p].job # j
      BY ChannelJobs DEF PlacesInv, PlaceInv
    <2>2. \A v \in Workers : \A p \in DOMAIN channel'[v] :
          \/ p \in DOMAIN channel[v] /\ channel'[v][p] = channel[v][p]
          \/ v = w /\ p = n /\ channel'[v][p].job = j /\ \A q \in DOMAIN channel[w] : q < p
      BY <1>0 DEF Pushed
    <2> QED BY <2>1, <2>2 DEF JobAt
  <1>c. \A v \in Workers : \A p \in DOMAIN channel[v] : JobAt(v, p) => p \in DOMAIN channel'[v] /\ channel'[v][p] = channel[v][p] /\ JobAt(v, p)'
    BY DEF Pushed, JobAt
  <1>n. n \in DOMAIN channel'[w] /\ channel'[w][n].job = j /\ JobAt(w, n)'
    BY <1>0 DEF Pushed, JobAt
  <1>d. \A v \in Workers, m \in Keys : \A p \in DOMAIN JobsOf(v, m) : JobsOf(v, m)[p] \in JobIds \ {j}
    BY TypeFacts DEF PlacesInv, PlaceInv
  <1>e. \A v \in Workers : worker[v].tasks \subseteq JobIds \ {j} /\ worker'[v].tasks = worker[v].tasks /\ worker'[v].active = worker[v].active
    BY TypeFacts DEF QuietWorkers, PlacesInv, PlaceInv
  <1>f. /\ \A i \in JobIds : jobs'[i].after = jobs[i].after
        /\ \A i \in JobIds \ {j} : jobs'[i].phase = jobs[i].phase
        /\ jobs'[j].phase = "queued"
    BY DEF PhaseOnly
  <1>g. \A i \in JobIds : KeyOf(i) \in Keys /\ j \notin jobs[i].after
    BY ConstantFacts DEF AfterInv
  <1>1. PlaceInv'
    <2>1. \A v \in Workers : \A p \in DOMAIN channel'[v] : JobAt(v, p)' => jobs'[channel'[v][p].job].phase = "queued"
      BY <1>b, <1>f DEF PlacesInv, PlaceInv
    <2>2. \A v \in Workers, k \in Keys : \A p \in DOMAIN JobsOf(v, k)' :
            KeyOf(JobsOf(v, k)'[p]) = k /\ jobs'[JobsOf(v, k)'[p]].phase = "queued"
      BY <1>a, <1>d, <1>f DEF PlacesInv, PlaceInv
    <2>3. \A v \in Workers : \A i \in worker'[v].tasks : jobs'[i].phase = "running" /\ KeyOf(i) \in worker'[v].active
      BY <1>e, <1>f DEF PlacesInv, PlaceInv
    <2> QED BY <2>1, <2>2, <2>3 DEF PlaceInv
  <1>2. FoundInv'
    <2>1. ASSUME NEW i \in JobIds, jobs'[i].phase = "queued"
          PROVE  \E v \in Workers : \/ \E p \in DOMAIN channel'[v] : JobAt(v, p)' /\ channel'[v][p].job = i
                                    \/ \E p \in DOMAIN JobsOf(v, KeyOf(i))' : JobsOf(v, KeyOf(i))'[p] = i
      <3>1. CASE i = j
        BY <3>1, <1>n
      <3>2. CASE i # j
        <4>1. PICK v \in Workers : \/ \E p \in DOMAIN channel[v] : JobAt(v, p) /\ channel[v][p].job = i
                                   \/ \E p \in DOMAIN JobsOf(v, KeyOf(i)) : JobsOf(v, KeyOf(i))[p] = i
          BY <2>1, <3>2, <1>f DEF PlacesInv, FoundInv
        <4> QED BY <4>1, <1>a, <1>c, <1>g
      <3> QED BY <3>1, <3>2
    <2>2. \A i \in JobIds : jobs'[i].phase = "running" => \E v \in Workers : i \in worker'[v].tasks
      BY <1>e, <1>f DEF PlacesInv, FoundInv
    <2> QED BY <2>1, <2>2 DEF FoundInv
  <1>3. UniqueInv'
    <2>1. \A u, v \in Workers : \A p \in DOMAIN channel'[u], q \in DOMAIN channel'[v] :
            JobAt(u, p)' /\ JobAt(v, q)' /\ channel'[u][p].job = channel'[v][q].job => u = v /\ p = q
      BY <1>b DEF PlacesInv, UniqueInv
    <2>2. \A u, v \in Workers, k \in Keys : \A p \in DOMAIN channel'[u], q \in DOMAIN JobsOf(v, k)' :
            JobAt(u, p)' => channel'[u][p].job # JobsOf(v, k)'[q]
      BY <1>a, <1>b, <1>d DEF PlacesInv, UniqueInv
    <2>3. \A u, v \in Workers, k \in Keys : \A p \in DOMAIN JobsOf(u, k)', q \in DOMAIN JobsOf(v, k)' :
            JobsOf(u, k)'[p] = JobsOf(v, k)'[q] => u = v /\ p = q
      BY <1>a DEF PlacesInv, UniqueInv
    <2>4. \A u, v \in Workers, i \in JobIds : i \in worker'[u].tasks /\ i \in worker'[v].tasks => u = v
      BY <1>e DEF PlacesInv, UniqueInv
    <2>5. \A u \in Workers : \A h, i \in worker'[u].tasks : KeyOf(h) = KeyOf(i) => h = i
      BY <1>e DEF PlacesInv, UniqueInv
    <2> QED BY <2>1, <2>2, <2>3, <2>4, <2>5 DEF UniqueInv
  <1>4. OrderInv'
    <2>1. \A v \in Workers, k \in Keys : \A p, q \in DOMAIN JobsOf(v, k)' :
            JobsOf(v, k)'[q] \in jobs'[JobsOf(v, k)'[p]].after => q < p
      BY <1>a, <1>d, <1>f DEF PlacesInv, OrderInv
    <2>2. \A v \in Workers, k \in Keys : \A p \in DOMAIN JobsOf(v, k)', q \in DOMAIN channel'[v] :
            JobAt(v, q)' => channel'[v][q].job \notin jobs'[JobsOf(v, k)'[p]].after
      BY <1>a, <1>b, <1>d, <1>f, <1>g DEF PlacesInv, OrderInv
    <2>3. \A v \in Workers : \A p, q \in DOMAIN channel'[v] :
            JobAt(v, p)' /\ JobAt(v, q)' /\ channel'[v][q].job \in jobs'[channel'[v][p].job].after => q < p
      BY <1>b, <1>f, <1>g DEF PlacesInv, OrderInv
    <2> QED BY <2>1, <2>2, <2>3 DEF OrderInv
  <1> QED BY <1>1, <1>2, <1>3, <1>4 DEF PlacesInv

LEMMA StartPlaces ==
    ASSUME KeyedTypeOK, PlacesInv, NEW w \in Workers, NEW c \in Classes, NEW k \in Keys, NEW j \in JobIds,
           Started(w, c, k, j), UNCHANGED channel
    PROVE  PlacesInv'
  <1> DEFINE sh(v, m) == IF v = w /\ m = k THEN 1 ELSE 0
  <1>0. PhaseOnly(j, "running") /\ JobsOf(w, k) # <<>> /\ JobsOf(w, k) \in Seq(JobIds) /\ j = Head(JobsOf(w, k)) /\ k \notin worker[w].active
        /\ KeyOf(j) = k /\ jobs[j].phase = "queued" /\ j = JobsOf(w, k)[1] /\ 1 \in DOMAIN JobsOf(w, k)
    <2>1. PhaseOnly(j, "running")
      BY PhaseEffect DEF Started, Phases
    <2>2. JobsOf(w, k) # <<>> /\ JobsOf(w, k) \in Seq(JobIds) /\ j = Head(JobsOf(w, k)) /\ k \notin worker[w].active
      BY TypeFacts DEF Started
    <2>3. j = JobsOf(w, k)[1] /\ 1 \in DOMAIN JobsOf(w, k)
      BY <2>2, Shortened
    <2> QED BY <2>1, <2>2, <2>3 DEF PlacesInv, PlaceInv
  <1>a. \A v \in Workers, m \in Keys : ~(v = w /\ m = k) => JobsOf(v, m)' = JobsOf(v, m)
    <2>0. worker[w].keys \in [Keys -> Seq(JobIds)] /\ worker'[w].keys = [worker[w].keys EXCEPT ![k] = Tail(@)]
      BY TypeFacts DEF Started, WorkerState
    <2>1. \A m \in Keys \ {k} : worker'[w].keys[m] = worker[w].keys[m]
      BY <2>0
    <2> QED BY <2>1 DEF Started, JobsOf
  <1>b. JobsOf(w, k)' = Tail(JobsOf(w, k))
    <2>1. worker[w].keys \in [Keys -> Seq(JobIds)] /\ worker'[w].keys = [worker[w].keys EXCEPT ![k] = Tail(@)]
      BY TypeFacts DEF Started, WorkerState
    <2> QED BY <2>1 DEF JobsOf
  <1>c. \A v \in Workers, m \in Keys : \A p \in DOMAIN JobsOf(v, m)' :
          /\ p \in Nat /\ sh(v, m) \in Nat /\ p + sh(v, m) \in DOMAIN JobsOf(v, m) /\ JobsOf(v, m)'[p] = JobsOf(v, m)[p + sh(v, m)]
          /\ JobsOf(v, m)'[p] \in JobIds \ {j}
    <2> SUFFICES ASSUME NEW v \in Workers, NEW m \in Keys, NEW p \in DOMAIN JobsOf(v, m)'
                 PROVE  /\ p \in Nat /\ sh(v, m) \in Nat /\ p + sh(v, m) \in DOMAIN JobsOf(v, m) /\ JobsOf(v, m)'[p] = JobsOf(v, m)[p + sh(v, m)]
                        /\ JobsOf(v, m)'[p] \in JobIds \ {j}
      OBVIOUS
    <2>1. CASE v = w /\ m = k
      <3>1. p \in Nat /\ p + 1 \in DOMAIN JobsOf(w, k) /\ JobsOf(w, k)'[p] = JobsOf(w, k)[p + 1] /\ p + 1 # 1
        BY <2>1, <1>b, <1>0, Shortened
      <3>2. JobsOf(w, k)[p + 1] # j /\ JobsOf(w, k)[p + 1] \in JobIds
        BY <3>1, <1>0, TypeFacts DEF PlacesInv, UniqueInv
      <3> QED BY <2>1, <3>1, <3>2
    <2>2. CASE ~(v = w /\ m = k)
      <3>1. p \in Nat /\ p \in DOMAIN JobsOf(v, m) /\ JobsOf(v, m)'[p] = JobsOf(v, m)[p] /\ JobsOf(v, m)[p] \in JobIds
        BY <2>2, <1>a, TypeFacts
      <3>2. JobsOf(v, m)[p] # j
        <4>1. CASE m = k
          BY <4>1, <2>2, <3>1, <1>0 DEF PlacesInv, UniqueInv
        <4>2. CASE m # k
          BY <4>2, <3>1, <1>0 DEF PlacesInv, PlaceInv
        <4> QED BY <4>1, <4>2
      <3> QED BY <2>2, <3>1, <3>2
    <2> QED BY <2>1, <2>2
  <1>d. \A v \in Workers, m \in Keys : \A p \in DOMAIN JobsOf(v, m) : JobsOf(v, m)[p] # j =>
          \E q \in DOMAIN JobsOf(v, m)' : JobsOf(v, m)'[q] = JobsOf(v, m)[p]
    <2> SUFFICES ASSUME NEW v \in Workers, NEW m \in Keys, NEW p \in DOMAIN JobsOf(v, m), JobsOf(v, m)[p] # j
                 PROVE  \E q \in DOMAIN JobsOf(v, m)' : JobsOf(v, m)'[q] = JobsOf(v, m)[p]
      OBVIOUS
    <2>1. CASE v = w /\ m = k
      <3>1. p - 1 \in DOMAIN Tail(JobsOf(w, k)) /\ Tail(JobsOf(w, k))[p - 1] = JobsOf(w, k)[p]
        BY <2>1, <1>0, Shortened
      <3> QED BY <2>1, <3>1, <1>b
    <2>2. CASE ~(v = w /\ m = k)
      BY <2>2, <1>a
    <2> QED BY <2>1, <2>2
  <1>e. /\ \A v \in Workers \ {w} : worker'[v].tasks = worker[v].tasks /\ worker'[v].active = worker[v].active
        /\ worker'[w].tasks = worker[w].tasks \cup {j} /\ worker'[w].active = worker[w].active \cup {k}
        /\ \A v \in Workers : worker[v].tasks \subseteq JobIds \ {j}
    <2>1. \A v \in Workers : worker[v].tasks \subseteq JobIds \ {j}
      BY <1>0, TypeFacts DEF PlacesInv, PlaceInv
    <2> QED BY <2>1 DEF Started
  <1>f. /\ \A i \in JobIds : jobs'[i].after = jobs[i].after
        /\ \A i \in JobIds \ {j} : jobs'[i].phase = jobs[i].phase
        /\ jobs'[j].phase = "running"
    BY <1>0 DEF PhaseOnly
  <1>g. \A i \in JobIds : KeyOf(i) \in Keys
    BY ConstantFacts
  <1>h. channel' = channel /\ (\A v \in Workers : \A p \in DOMAIN channel[v] : (JobAt(v, p)' <=> JobAt(v, p)) /\
                                (JobAt(v, p) => channel[v][p].job \in JobIds \ {j}))
    <2>1. \A v \in Workers : \A p \in DOMAIN channel[v] : JobAt(v, p) => channel[v][p].job \in JobIds
      BY TypeFacts
    <2>2. \A v \in Workers : \A p \in DOMAIN channel[v] : JobAt(v, p) => channel[v][p].job # j
      BY <1>0 DEF PlacesInv, UniqueInv
    <2>3. \A v \in Workers : \A p \in DOMAIN channel[v] : JobAt(v, p)' <=> JobAt(v, p)
      BY DEF JobAt
    <2> QED BY <2>1, <2>2, <2>3
  <1> HIDE DEF sh
  <1>1. PlaceInv'
    <2>1. \A v \in Workers : \A p \in DOMAIN channel'[v] : JobAt(v, p)' => jobs'[channel'[v][p].job].phase = "queued"
      BY <1>h, <1>f DEF PlacesInv, PlaceInv
    <2>2. \A v \in Workers, m \in Keys : \A p \in DOMAIN JobsOf(v, m)' :
            KeyOf(JobsOf(v, m)'[p]) = m /\ jobs'[JobsOf(v, m)'[p]].phase = "queued"
      BY <1>c, <1>f DEF PlacesInv, PlaceInv
    <2>3. \A v \in Workers : \A i \in worker'[v].tasks : jobs'[i].phase = "running" /\ KeyOf(i) \in worker'[v].active
      BY <1>e, <1>f, <1>0 DEF PlacesInv, PlaceInv
    <2> QED BY <2>1, <2>2, <2>3 DEF PlaceInv
  <1>2. FoundInv'
    <2>1. ASSUME NEW i \in JobIds, jobs'[i].phase = "queued"
          PROVE  \E v \in Workers : \/ \E p \in DOMAIN channel'[v] : JobAt(v, p)' /\ channel'[v][p].job = i
                                    \/ \E p \in DOMAIN JobsOf(v, KeyOf(i))' : JobsOf(v, KeyOf(i))'[p] = i
      <3>0. i # j /\ jobs[i].phase = "queued" /\ KeyOf(i) \in Keys
        BY <2>1, <1>f, <1>g
      <3>1. PICK v \in Workers : \/ \E p \in DOMAIN channel[v] : JobAt(v, p) /\ channel[v][p].job = i
                                 \/ \E p \in DOMAIN JobsOf(v, KeyOf(i)) : JobsOf(v, KeyOf(i))[p] = i
        BY <3>0 DEF PlacesInv, FoundInv
      <3>2. CASE \E p \in DOMAIN channel[v] : JobAt(v, p) /\ channel[v][p].job = i
        BY <3>2, <1>h
      <3>3. CASE \E p \in DOMAIN JobsOf(v, KeyOf(i)) : JobsOf(v, KeyOf(i))[p] = i
        BY <3>3, <3>0, <1>d
      <3> QED BY <3>1, <3>2, <3>3
    <2>2. \A i \in JobIds : jobs'[i].phase = "running" => \E v \in Workers : i \in worker'[v].tasks
      BY <1>e, <1>f DEF PlacesInv, FoundInv
    <2> QED BY <2>1, <2>2 DEF FoundInv
  <1>3. UniqueInv'
    <2>1. \A u, v \in Workers : \A p \in DOMAIN channel'[u], q \in DOMAIN channel'[v] :
            JobAt(u, p)' /\ JobAt(v, q)' /\ channel'[u][p].job = channel'[v][q].job => u = v /\ p = q
      BY <1>h DEF PlacesInv, UniqueInv
    <2>2. \A u, v \in Workers, m \in Keys : \A p \in DOMAIN channel'[u], q \in DOMAIN JobsOf(v, m)' :
            JobAt(u, p)' => channel'[u][p].job # JobsOf(v, m)'[q]
      BY <1>c, <1>h DEF PlacesInv, UniqueInv
    <2>3. ASSUME NEW u \in Workers, NEW v \in Workers, NEW m \in Keys, NEW p \in DOMAIN JobsOf(u, m)', NEW q \in DOMAIN JobsOf(v, m)',
                 JobsOf(u, m)'[p] = JobsOf(v, m)'[q]
          PROVE  u = v /\ p = q
      <3>1. u = v /\ p + sh(u, m) = q + sh(v, m)
        BY <2>3, <1>c DEF PlacesInv, UniqueInv
      <3> QED BY <3>1, <1>c
    <2>4. \A u, v \in Workers, i \in JobIds : i \in worker'[u].tasks /\ i \in worker'[v].tasks => u = v
      BY <1>e DEF PlacesInv, UniqueInv
    <2>5. \A u \in Workers : \A h, i \in worker'[u].tasks : KeyOf(h) = KeyOf(i) => h = i
      BY <1>e, <1>0 DEF PlacesInv, UniqueInv, PlaceInv
    <2> QED BY <2>1, <2>2, <2>3, <2>4, <2>5 DEF UniqueInv
  <1>4. OrderInv'
    <2>1. ASSUME NEW v \in Workers, NEW m \in Keys, NEW p \in DOMAIN JobsOf(v, m)', NEW q \in DOMAIN JobsOf(v, m)',
                 JobsOf(v, m)'[q] \in jobs'[JobsOf(v, m)'[p]].after
          PROVE  q < p
      <3>1. JobsOf(v, m)[q + sh(v, m)] \in jobs[JobsOf(v, m)[p + sh(v, m)]].after
        BY <2>1, <1>c, <1>f
      <3>2. q + sh(v, m) < p + sh(v, m)
        BY <3>1, <1>c DEF PlacesInv, OrderInv
      <3> QED BY <3>2, <1>c
    <2>2. \A v \in Workers, m \in Keys : \A p \in DOMAIN JobsOf(v, m)', q \in DOMAIN channel'[v] :
            JobAt(v, q)' => channel'[v][q].job \notin jobs'[JobsOf(v, m)'[p]].after
      BY <1>c, <1>h, <1>f DEF PlacesInv, OrderInv
    <2>3. \A v \in Workers : \A p, q \in DOMAIN channel'[v] :
            JobAt(v, p)' /\ JobAt(v, q)' /\ channel'[v][q].job \in jobs'[channel'[v][p].job].after => q < p
      BY <1>h, <1>f DEF PlacesInv, OrderInv
    <2> QED BY <2>1, <2>2, <2>3 DEF OrderInv
  <1> QED BY <1>1, <1>2, <1>3, <1>4 DEF PlacesInv

LEMMA EndPlaces ==
    ASSUME KeyedTypeOK, PlacesInv, NEW w \in Workers, NEW j \in JobIds, NEW x, Ended(w, j, x), UNCHANGED channel
    PROVE  PlacesInv'
  <1>a. \A v \in Workers, m \in Keys : JobsOf(v, m)' = JobsOf(v, m)
    BY DEF Ended, Only, JobsOf
  <1>b. /\ \A i \in JobIds : jobs'[i].after = jobs[i].after
        /\ \A i \in JobIds \ {j} : jobs'[i].phase = jobs[i].phase
        /\ jobs'[j].phase = x /\ x \in {"done", "dropped"} /\ jobs[j].phase = "running"
    BY DEF Ended, PhaseOnly
  <1>c. \A v \in Workers, m \in Keys : \A p \in DOMAIN JobsOf(v, m) : JobsOf(v, m)[p] \in JobIds \ {j}
    BY <1>b, TypeFacts DEF PlacesInv, PlaceInv
  <1>d. channel' = channel /\ (\A v \in Workers : \A p \in DOMAIN channel[v] : (JobAt(v, p)' <=> JobAt(v, p)) /\
                                (JobAt(v, p) => channel[v][p].job \in JobIds \ {j}))
    <2>1. \A v \in Workers : \A p \in DOMAIN channel[v] : JobAt(v, p) => channel[v][p].job \in JobIds
      BY TypeFacts
    <2>2. \A v \in Workers : \A p \in DOMAIN channel[v] : JobAt(v, p) => channel[v][p].job # j
      BY <1>b DEF PlacesInv, PlaceInv
    <2>3. \A v \in Workers : \A p \in DOMAIN channel[v] : JobAt(v, p)' <=> JobAt(v, p)
      BY DEF JobAt
    <2> QED BY <2>1, <2>2, <2>3
  <1>e. /\ \A v \in Workers \ {w} : worker'[v].tasks = worker[v].tasks /\ worker'[v].active = worker[v].active
        /\ worker'[w].tasks = worker[w].tasks \ {j} /\ j \in worker[w].tasks /\ worker[w].active \ {KeyOf(j)} \subseteq worker'[w].active
        /\ \A v \in Workers : worker[v].tasks \subseteq JobIds
        /\ \A v \in Workers : worker'[v].tasks \subseteq worker[v].tasks
    BY TypeFacts DEF Ended, Only
  <1>1. PlaceInv'
    <2>1. \A v \in Workers : \A p \in DOMAIN channel'[v] : JobAt(v, p)' => jobs'[channel'[v][p].job].phase = "queued"
      BY <1>d, <1>b DEF PlacesInv, PlaceInv
    <2>2. \A v \in Workers, m \in Keys : \A p \in DOMAIN JobsOf(v, m)' :
            KeyOf(JobsOf(v, m)'[p]) = m /\ jobs'[JobsOf(v, m)'[p]].phase = "queued"
      BY <1>a, <1>b, <1>c DEF PlacesInv, PlaceInv
    <2>3. \A v \in Workers : \A i \in worker'[v].tasks : jobs'[i].phase = "running" /\ KeyOf(i) \in worker'[v].active
      <3> SUFFICES ASSUME NEW v \in Workers, NEW i \in worker'[v].tasks
                   PROVE  jobs'[i].phase = "running" /\ KeyOf(i) \in worker'[v].active
        OBVIOUS
      <3>1. i \in worker[v].tasks /\ i \in JobIds /\ i # j /\ jobs[i].phase = "running" /\ KeyOf(i) \in worker[v].active
        BY <1>e DEF PlacesInv, PlaceInv, UniqueInv
      <3>2. v = w => KeyOf(i) # KeyOf(j)
        BY <3>1, <1>e DEF PlacesInv, UniqueInv
      <3> QED BY <3>1, <3>2, <1>b, <1>e
    <2> QED BY <2>1, <2>2, <2>3 DEF PlaceInv
  <1>2. FoundInv'
    <2>1. ASSUME NEW i \in JobIds, jobs'[i].phase = "queued"
          PROVE  \E v \in Workers : \/ \E p \in DOMAIN channel'[v] : JobAt(v, p)' /\ channel'[v][p].job = i
                                    \/ \E p \in DOMAIN JobsOf(v, KeyOf(i))' : JobsOf(v, KeyOf(i))'[p] = i
      <3>0. i # j /\ jobs[i].phase = "queued" /\ KeyOf(i) \in Keys
        BY <2>1, <1>b, ConstantFacts
      <3>1. PICK v \in Workers : \/ \E p \in DOMAIN channel[v] : JobAt(v, p) /\ channel[v][p].job = i
                                 \/ \E p \in DOMAIN JobsOf(v, KeyOf(i)) : JobsOf(v, KeyOf(i))[p] = i
        BY <3>0 DEF PlacesInv, FoundInv
      <3> QED BY <3>0, <3>1, <1>a, <1>d
    <2>2. \A i \in JobIds : jobs'[i].phase = "running" => \E v \in Workers : i \in worker'[v].tasks
      BY <1>b, <1>e DEF PlacesInv, FoundInv
    <2> QED BY <2>1, <2>2 DEF FoundInv
  <1>3. UniqueInv'
    <2>1. \A u, v \in Workers : \A p \in DOMAIN channel'[u], q \in DOMAIN channel'[v] :
            JobAt(u, p)' /\ JobAt(v, q)' /\ channel'[u][p].job = channel'[v][q].job => u = v /\ p = q
      BY <1>d DEF PlacesInv, UniqueInv
    <2>2. \A u, v \in Workers, m \in Keys : \A p \in DOMAIN channel'[u], q \in DOMAIN JobsOf(v, m)' :
            JobAt(u, p)' => channel'[u][p].job # JobsOf(v, m)'[q]
      BY <1>a, <1>d DEF PlacesInv, UniqueInv
    <2>3. \A u, v \in Workers, m \in Keys : \A p \in DOMAIN JobsOf(u, m)', q \in DOMAIN JobsOf(v, m)' :
            JobsOf(u, m)'[p] = JobsOf(v, m)'[q] => u = v /\ p = q
      BY <1>a DEF PlacesInv, UniqueInv
    <2>4. \A u, v \in Workers, i \in JobIds : i \in worker'[u].tasks /\ i \in worker'[v].tasks => u = v
      BY <1>e DEF PlacesInv, UniqueInv
    <2>5. \A u \in Workers : \A h, i \in worker'[u].tasks : KeyOf(h) = KeyOf(i) => h = i
      BY <1>e DEF PlacesInv, UniqueInv
    <2> QED BY <2>1, <2>2, <2>3, <2>4, <2>5 DEF UniqueInv
  <1>4. OrderInv'
    <2>1. \A v \in Workers, m \in Keys : \A p, q \in DOMAIN JobsOf(v, m)' :
            JobsOf(v, m)'[q] \in jobs'[JobsOf(v, m)'[p]].after => q < p
      BY <1>a, <1>b, <1>c DEF PlacesInv, OrderInv
    <2>2. \A v \in Workers, m \in Keys : \A p \in DOMAIN JobsOf(v, m)', q \in DOMAIN channel'[v] :
            JobAt(v, q)' => channel'[v][q].job \notin jobs'[JobsOf(v, m)'[p]].after
      BY <1>a, <1>b, <1>c, <1>d DEF PlacesInv, OrderInv
    <2>3. \A v \in Workers : \A p, q \in DOMAIN channel'[v] :
            JobAt(v, p)' /\ JobAt(v, q)' /\ channel'[v][q].job \in jobs'[channel'[v][p].job].after => q < p
      BY <1>b, <1>d DEF PlacesInv, OrderInv
    <2> QED BY <2>1, <2>2, <2>3 DEF OrderInv
  <1> QED BY <1>1, <1>2, <1>3, <1>4 DEF PlacesInv

LEMMA OtherPlaces ==
    ASSUME KeyedTypeOK, PlacesInv, NEW w \in Workers, Taken(w), channel[w][1].type # "job", QuietWorkers, UNCHANGED jobs
    PROVE  PlacesInv'
  <1> DEFINE sh(v) == IF v = w THEN 1 ELSE 0
  <1>a. \A v \in Workers, m \in Keys : JobsOf(v, m)' = JobsOf(v, m)
    BY DEF QuietWorkers, JobsOf
  <1>b. \A v \in Workers : \A p \in DOMAIN channel'[v] : p \in Nat /\ sh(v) \in Nat /\ p + sh(v) \in DOMAIN channel[v]
          /\ channel'[v][p] = channel[v][p + sh(v)] /\ (JobAt(v, p)' => JobAt(v, p + sh(v)) /\ channel[v][p + sh(v)].job \in JobIds)
    <2> SUFFICES ASSUME NEW v \in Workers, NEW p \in DOMAIN channel'[v]
                 PROVE  p \in Nat /\ sh(v) \in Nat /\ p + sh(v) \in DOMAIN channel[v]
                        /\ channel'[v][p] = channel[v][p + sh(v)] /\ (JobAt(v, p)' => JobAt(v, p + sh(v)) /\ channel[v][p + sh(v)].job \in JobIds)
      OBVIOUS
    <2>1. p \in Nat /\ sh(v) \in Nat /\ p + sh(v) \in DOMAIN channel[v] /\ channel'[v][p] = channel[v][p + sh(v)]
      <3>1. CASE v = w
        BY <3>1 DEF Taken
      <3>2. CASE v # w
        <4>1. channel'[v] = channel[v]
          BY <3>2 DEF Taken
        <4>2. p \in Nat
          BY <4>1, TypeFacts
        <4> QED BY <3>2, <4>1, <4>2
      <3> QED BY <3>1, <3>2
    <2>2. JobAt(v, p)' => JobAt(v, p + sh(v))
      BY <2>1 DEF JobAt
    <2> QED BY <2>1, <2>2, TypeFacts
  <1>c. \A v \in Workers : \A p \in DOMAIN channel[v] : JobAt(v, p) => \E q \in DOMAIN channel'[v] : channel'[v][q] = channel[v][p] /\ JobAt(v, q)'
    <2> SUFFICES ASSUME NEW v \in Workers, NEW p \in DOMAIN channel[v], JobAt(v, p)
                 PROVE  \E q \in DOMAIN channel'[v] : channel'[v][q] = channel[v][p] /\ JobAt(v, q)'
      OBVIOUS
    <2>1. \E q \in DOMAIN channel'[v] : channel'[v][q] = channel[v][p]
      <3>1. CASE v = w
        <4>1. p # 1
          BY <3>1 DEF JobAt
        <4> QED BY <3>1, <4>1 DEF Taken
      <3>2. CASE v # w
        BY <3>2 DEF Taken
      <3> QED BY <3>1, <3>2
    <2> QED BY <2>1 DEF JobAt
  <1>d. \A v \in Workers, m \in Keys : \A p \in DOMAIN JobsOf(v, m) : JobsOf(v, m)[p] \in JobIds
    BY TypeFacts
  <1>e. \A v \in Workers : worker'[v].tasks = worker[v].tasks /\ worker'[v].active = worker[v].active
    BY DEF QuietWorkers
  <1> HIDE DEF sh
  <1>1. PlaceInv'
    <2>1. \A v \in Workers : \A p \in DOMAIN channel'[v] : JobAt(v, p)' => jobs'[channel'[v][p].job].phase = "queued"
      BY <1>b DEF PlacesInv, PlaceInv
    <2>2. \A v \in Workers, m \in Keys : \A p \in DOMAIN JobsOf(v, m)' :
            KeyOf(JobsOf(v, m)'[p]) = m /\ jobs'[JobsOf(v, m)'[p]].phase = "queued"
      BY <1>a DEF PlacesInv, PlaceInv
    <2>3. \A v \in Workers : \A i \in worker'[v].tasks : jobs'[i].phase = "running" /\ KeyOf(i) \in worker'[v].active
      BY <1>e DEF PlacesInv, PlaceInv
    <2> QED BY <2>1, <2>2, <2>3 DEF PlaceInv
  <1>2. FoundInv'
    <2>1. ASSUME NEW i \in JobIds, jobs'[i].phase = "queued"
          PROVE  \E v \in Workers : \/ \E p \in DOMAIN channel'[v] : JobAt(v, p)' /\ channel'[v][p].job = i
                                    \/ \E p \in DOMAIN JobsOf(v, KeyOf(i))' : JobsOf(v, KeyOf(i))'[p] = i
      <3>0. KeyOf(i) \in Keys
        BY ConstantFacts
      <3>1. PICK v \in Workers : \/ \E p \in DOMAIN channel[v] : JobAt(v, p) /\ channel[v][p].job = i
                                 \/ \E p \in DOMAIN JobsOf(v, KeyOf(i)) : JobsOf(v, KeyOf(i))[p] = i
        BY <2>1 DEF PlacesInv, FoundInv
      <3>2. CASE \E p \in DOMAIN channel[v] : JobAt(v, p) /\ channel[v][p].job = i
        BY <3>2, <1>c
      <3>3. CASE \E p \in DOMAIN JobsOf(v, KeyOf(i)) : JobsOf(v, KeyOf(i))[p] = i
        BY <3>3, <3>0, <1>a
      <3> QED BY <3>1, <3>2, <3>3
    <2>2. \A i \in JobIds : jobs'[i].phase = "running" => \E v \in Workers : i \in worker'[v].tasks
      BY <1>e DEF PlacesInv, FoundInv
    <2> QED BY <2>1, <2>2 DEF FoundInv
  <1>3. UniqueInv'
    <2>1. ASSUME NEW u \in Workers, NEW v \in Workers, NEW p \in DOMAIN channel'[u], NEW q \in DOMAIN channel'[v],
                 JobAt(u, p)', JobAt(v, q)', channel'[u][p].job = channel'[v][q].job
          PROVE  u = v /\ p = q
      <3>1. u = v /\ p + sh(u) = q + sh(v)
        BY <2>1, <1>b DEF PlacesInv, UniqueInv
      <3> QED BY <3>1, <1>b
    <2>2. \A u, v \in Workers, m \in Keys : \A p \in DOMAIN channel'[u], q \in DOMAIN JobsOf(v, m)' :
            JobAt(u, p)' => channel'[u][p].job # JobsOf(v, m)'[q]
      BY <1>a, <1>b DEF PlacesInv, UniqueInv
    <2>3. \A u, v \in Workers, m \in Keys : \A p \in DOMAIN JobsOf(u, m)', q \in DOMAIN JobsOf(v, m)' :
            JobsOf(u, m)'[p] = JobsOf(v, m)'[q] => u = v /\ p = q
      BY <1>a DEF PlacesInv, UniqueInv
    <2>4. \A u, v \in Workers, i \in JobIds : i \in worker'[u].tasks /\ i \in worker'[v].tasks => u = v
      BY <1>e DEF PlacesInv, UniqueInv
    <2>5. \A u \in Workers : \A h, i \in worker'[u].tasks : KeyOf(h) = KeyOf(i) => h = i
      BY <1>e DEF PlacesInv, UniqueInv
    <2> QED BY <2>1, <2>2, <2>3, <2>4, <2>5 DEF UniqueInv
  <1>4. OrderInv'
    <2>1. \A v \in Workers, m \in Keys : \A p, q \in DOMAIN JobsOf(v, m)' :
            JobsOf(v, m)'[q] \in jobs'[JobsOf(v, m)'[p]].after => q < p
      BY <1>a DEF PlacesInv, OrderInv
    <2>2. \A v \in Workers, m \in Keys : \A p \in DOMAIN JobsOf(v, m)', q \in DOMAIN channel'[v] :
            JobAt(v, q)' => channel'[v][q].job \notin jobs'[JobsOf(v, m)'[p]].after
      BY <1>a, <1>b DEF PlacesInv, OrderInv
    <2>3. ASSUME NEW v \in Workers, NEW p \in DOMAIN channel'[v], NEW q \in DOMAIN channel'[v],
                 JobAt(v, p)', JobAt(v, q)', channel'[v][q].job \in jobs'[channel'[v][p].job].after
          PROVE  q < p
      <3>1. q + sh(v) < p + sh(v)
        BY <2>3, <1>b DEF PlacesInv, OrderInv
      <3> QED BY <3>1, <1>b
    <2> QED BY <2>1, <2>2, <2>3 DEF OrderInv
  <1> QED BY <1>1, <1>2, <1>3, <1>4 DEF PlacesInv

LEMMA ReceivePlaces ==
    ASSUME KeyedTypeOK, PlacesInv, NEW w \in Workers, NEW j \in JobIds, Taken(w), JobAt(w, 1), channel[w][1].job = j, Only(w),
           worker'[w].keys = [worker[w].keys EXCEPT ![KeyOf(j)] = Append(@, j)],
           worker'[w].active = worker[w].active, worker'[w].tasks = worker[w].tasks, UNCHANGED jobs
    PROVE  PlacesInv'
  <1> DEFINE sh(v) == IF v = w THEN 1 ELSE 0
             k == KeyOf(j)
  <1>0. /\ k \in Keys /\ jobs[j].phase = "queued" /\ JobsOf(w, k) \in Seq(JobIds) /\ 1 \in DOMAIN channel[w]
        /\ \A i \in JobIds : KeyOf(i) \in Keys
    <2>1. k \in Keys /\ \A i \in JobIds : KeyOf(i) \in Keys
      BY ConstantFacts
    <2>2. 1 \in DOMAIN channel[w]
      BY DEF Taken
    <2>3. jobs[j].phase = "queued"
      BY <2>2 DEF PlacesInv, PlaceInv
    <2>4. JobsOf(w, k) \in Seq(JobIds)
      BY <2>1, TypeFacts
    <2> QED BY <2>1, <2>2, <2>3, <2>4
  <1>0n. PICK n \in Nat : n = Len(JobsOf(w, k)) + 1
    BY <1>0, TypeFacts
  <1>a. \A v \in Workers, m \in Keys : ~(v = w /\ m = k) => JobsOf(v, m)' = JobsOf(v, m)
    <2>0. worker[w].keys \in [Keys -> Seq(JobIds)] /\ worker'[w].keys = [worker[w].keys EXCEPT ![k] = Append(@, j)]
      BY TypeFacts DEF WorkerState
    <2>1. \A m \in Keys \ {k} : worker'[w].keys[m] = worker[w].keys[m]
      BY <2>0
    <2> QED BY <2>1 DEF Only, JobsOf
  <1>a2. JobsOf(w, k)' = Append(JobsOf(w, k), j)
    BY <1>0, TypeFacts DEF JobsOf, WorkerState
  <1>a3. \A v \in Workers, m \in Keys : \A p \in DOMAIN JobsOf(v, m) : p \in DOMAIN JobsOf(v, m)' /\ JobsOf(v, m)'[p] = JobsOf(v, m)[p]
                                                                /\ JobsOf(v, m)[p] \in JobIds \ {j}
    <2> SUFFICES ASSUME NEW v \in Workers, NEW m \in Keys, NEW p \in DOMAIN JobsOf(v, m)
                 PROVE  p \in DOMAIN JobsOf(v, m)' /\ JobsOf(v, m)'[p] = JobsOf(v, m)[p] /\ JobsOf(v, m)[p] \in JobIds \ {j}
      OBVIOUS
    <2>1. JobsOf(v, m)[p] \in JobIds \ {j}
      BY TypeFacts, <1>0 DEF PlacesInv, UniqueInv
    <2>2. CASE v = w /\ m = k
      BY <2>1, <2>2, <1>0, <1>a2, Appended
    <2>3. CASE ~(v = w /\ m = k)
      BY <2>1, <2>3, <1>a
    <2> QED BY <2>2, <2>3
  <1>a4. \A v \in Workers, m \in Keys : \A p \in DOMAIN JobsOf(v, m)' : p \in DOMAIN JobsOf(v, m) \/
          (v = w /\ m = k /\ p = n /\ JobsOf(v, m)'[p] = j /\ \A q \in DOMAIN JobsOf(v, m) : q < p)
    <2> SUFFICES ASSUME NEW v \in Workers, NEW m \in Keys, NEW p \in DOMAIN JobsOf(v, m)', p \notin DOMAIN JobsOf(v, m)
                 PROVE  v = w /\ m = k /\ p = n /\ JobsOf(v, m)'[p] = j /\ \A q \in DOMAIN JobsOf(v, m) : q < p
      OBVIOUS
    <2>1. v = w /\ m = k
      BY <1>a
    <2>2. p = n /\ JobsOf(w, k)'[p] = j
      BY <2>1, <1>0, <1>0n, <1>a2, Appended
    <2>3. \A q \in DOMAIN JobsOf(w, k) : q < n
      BY <1>0n, <1>0, TypeFacts
    <2> QED BY <2>1, <2>2, <2>3
  <1>a5. n \in DOMAIN JobsOf(w, k)' /\ JobsOf(w, k)'[n] = j
    BY <1>0, <1>0n, <1>a2, Appended
  <1>b. \A v \in Workers : \A p \in DOMAIN channel'[v] : p \in Nat /\ sh(v) \in Nat /\ p + sh(v) \in DOMAIN channel[v]
          /\ channel'[v][p] = channel[v][p + sh(v)] /\ (JobAt(v, p)' => JobAt(v, p + sh(v)) /\ channel[v][p + sh(v)].job \in JobIds)
    <2> SUFFICES ASSUME NEW v \in Workers, NEW p \in DOMAIN channel'[v]
                 PROVE  p \in Nat /\ sh(v) \in Nat /\ p + sh(v) \in DOMAIN channel[v]
                        /\ channel'[v][p] = channel[v][p + sh(v)] /\ (JobAt(v, p)' => JobAt(v, p + sh(v)) /\ channel[v][p + sh(v)].job \in JobIds)
      OBVIOUS
    <2>1. p \in Nat /\ sh(v) \in Nat /\ p + sh(v) \in DOMAIN channel[v] /\ channel'[v][p] = channel[v][p + sh(v)]
      <3>1. CASE v = w
        BY <3>1 DEF Taken
      <3>2. CASE v # w
        <4>1. channel'[v] = channel[v]
          BY <3>2 DEF Taken
        <4>2. p \in Nat
          BY <4>1, TypeFacts
        <4> QED BY <3>2, <4>1, <4>2
      <3> QED BY <3>1, <3>2
    <2>2. JobAt(v, p)' => JobAt(v, p + sh(v))
      BY <2>1 DEF JobAt
    <2> QED BY <2>1, <2>2, TypeFacts
  <1>c. \A v \in Workers : \A p \in DOMAIN channel[v] : JobAt(v, p) => channel[v][p].job = j \/
          \E q \in DOMAIN channel'[v] : channel'[v][q] = channel[v][p] /\ JobAt(v, q)'
    <2> SUFFICES ASSUME NEW v \in Workers, NEW p \in DOMAIN channel[v], JobAt(v, p), channel[v][p].job # j
                 PROVE  \E q \in DOMAIN channel'[v] : channel'[v][q] = channel[v][p] /\ JobAt(v, q)'
      OBVIOUS
    <2>1. \E q \in DOMAIN channel'[v] : channel'[v][q] = channel[v][p]
      <3>1. CASE v = w
        <4>1. p # 1
          BY <3>1
        <4> QED BY <3>1, <4>1 DEF Taken
      <3>2. CASE v # w
        BY <3>2 DEF Taken
      <3> QED BY <3>1, <3>2
    <2> QED BY <2>1 DEF JobAt
  <1>d. \A v \in Workers : \A p \in DOMAIN channel'[v] : JobAt(v, p)' => channel'[v][p].job # j
    <2> SUFFICES ASSUME NEW v \in Workers, NEW p \in DOMAIN channel'[v], JobAt(v, p)', channel'[v][p].job = j
                 PROVE  FALSE
      OBVIOUS
    <2>1. v = w /\ p + sh(v) = 1
      BY <1>b, <1>0 DEF PlacesInv, UniqueInv
    <2> QED BY <2>1 DEF Taken
  <1>e. \A v \in Workers : worker'[v].tasks = worker[v].tasks /\ worker'[v].active = worker[v].active
    BY DEF Only
  <1> HIDE DEF sh, k
  <1>1. PlaceInv'
    <2>1. \A v \in Workers : \A p \in DOMAIN channel'[v] : JobAt(v, p)' => jobs'[channel'[v][p].job].phase = "queued"
      BY <1>b DEF PlacesInv, PlaceInv
    <2>2. \A v \in Workers, m \in Keys : \A p \in DOMAIN JobsOf(v, m)' :
            KeyOf(JobsOf(v, m)'[p]) = m /\ jobs'[JobsOf(v, m)'[p]].phase = "queued"
      BY <1>0, <1>a3, <1>a4 DEF PlacesInv, PlaceInv, k
    <2>3. \A v \in Workers : \A i \in worker'[v].tasks : jobs'[i].phase = "running" /\ KeyOf(i) \in worker'[v].active
      BY <1>e DEF PlacesInv, PlaceInv
    <2> QED BY <2>1, <2>2, <2>3 DEF PlaceInv
  <1>2. FoundInv'
    <2>1. ASSUME NEW i \in JobIds, jobs'[i].phase = "queued"
          PROVE  \E v \in Workers : \/ \E p \in DOMAIN channel'[v] : JobAt(v, p)' /\ channel'[v][p].job = i
                                    \/ \E p \in DOMAIN JobsOf(v, KeyOf(i))' : JobsOf(v, KeyOf(i))'[p] = i
      <3>1. PICK v \in Workers : \/ \E p \in DOMAIN channel[v] : JobAt(v, p) /\ channel[v][p].job = i
                                 \/ \E p \in DOMAIN JobsOf(v, KeyOf(i)) : JobsOf(v, KeyOf(i))[p] = i
        BY <2>1 DEF PlacesInv, FoundInv
      <3>2. CASE i = j
        BY <3>2, <1>a5 DEF k
      <3>3. CASE i # j /\ \E p \in DOMAIN channel[v] : JobAt(v, p) /\ channel[v][p].job = i
        BY <3>3, <1>c
      <3>4. CASE \E p \in DOMAIN JobsOf(v, KeyOf(i)) : JobsOf(v, KeyOf(i))[p] = i
        BY <3>4, <1>0, <1>a3
      <3> QED BY <3>1, <3>2, <3>3, <3>4
    <2>2. \A i \in JobIds : jobs'[i].phase = "running" => \E v \in Workers : i \in worker'[v].tasks
      BY <1>e DEF PlacesInv, FoundInv
    <2> QED BY <2>1, <2>2 DEF FoundInv
  <1>3. UniqueInv'
    <2>1. ASSUME NEW u \in Workers, NEW v \in Workers, NEW p \in DOMAIN channel'[u], NEW q \in DOMAIN channel'[v],
                 JobAt(u, p)', JobAt(v, q)', channel'[u][p].job = channel'[v][q].job
          PROVE  u = v /\ p = q
      <3>1. u = v /\ p + sh(u) = q + sh(v)
        BY <2>1, <1>b DEF PlacesInv, UniqueInv
      <3> QED BY <3>1, <1>b
    <2>2. \A u, v \in Workers, m \in Keys : \A p \in DOMAIN channel'[u], q \in DOMAIN JobsOf(v, m)' :
            JobAt(u, p)' => channel'[u][p].job # JobsOf(v, m)'[q]
      BY <1>a3, <1>a4, <1>b, <1>d DEF PlacesInv, UniqueInv
    <2>3. \A u, v \in Workers, m \in Keys : \A p \in DOMAIN JobsOf(u, m)', q \in DOMAIN JobsOf(v, m)' :
            JobsOf(u, m)'[p] = JobsOf(v, m)'[q] => u = v /\ p = q
      BY <1>a3, <1>a4 DEF PlacesInv, UniqueInv
    <2>4. \A u, v \in Workers, i \in JobIds : i \in worker'[u].tasks /\ i \in worker'[v].tasks => u = v
      BY <1>e DEF PlacesInv, UniqueInv
    <2>5. \A u \in Workers : \A h, i \in worker'[u].tasks : KeyOf(h) = KeyOf(i) => h = i
      BY <1>e DEF PlacesInv, UniqueInv
    <2> QED BY <2>1, <2>2, <2>3, <2>4, <2>5 DEF UniqueInv
  <1>4. OrderInv'
    <2>0. \A p \in DOMAIN channel[w] : JobAt(w, p) => channel[w][p].job \notin jobs[j].after
      <3>1. \A p \in DOMAIN channel[w] : JobAt(w, p) /\ channel[w][p].job \in jobs[j].after => p < 1
        BY <1>0 DEF PlacesInv, OrderInv
      <3>2. \A p \in DOMAIN channel[w] : p \in Nat /\ p > 0
        BY TypeFacts
      <3> QED BY <3>1, <3>2
    <2>1. ASSUME NEW v \in Workers, NEW m \in Keys, NEW p \in DOMAIN JobsOf(v, m)', NEW q \in DOMAIN JobsOf(v, m)',
                 JobsOf(v, m)'[q] \in jobs'[JobsOf(v, m)'[p]].after
          PROVE  q < p
      <3>1. CASE p \in DOMAIN JobsOf(v, m) /\ q \in DOMAIN JobsOf(v, m)
        BY <2>1, <3>1, <1>a3 DEF PlacesInv, OrderInv
      <3>2. CASE p \in DOMAIN JobsOf(v, m) /\ q \notin DOMAIN JobsOf(v, m)
        <4>1. v = w /\ JobsOf(v, m)'[q] = j /\ j \in jobs[JobsOf(v, m)[p]].after
          BY <2>1, <3>2, <1>a3, <1>a4
        <4> QED BY <4>1, <3>2, <1>0 DEF PlacesInv, OrderInv
      <3>3. CASE p \notin DOMAIN JobsOf(v, m) /\ q \in DOMAIN JobsOf(v, m)
        BY <3>3, <1>a4
      <3>4. CASE p \notin DOMAIN JobsOf(v, m) /\ q \notin DOMAIN JobsOf(v, m)
        BY <2>1, <3>4, <1>a4, <2>0, <1>0
      <3> QED BY <3>1, <3>2, <3>3, <3>4
    <2>2. ASSUME NEW v \in Workers, NEW m \in Keys, NEW p \in DOMAIN JobsOf(v, m)', NEW q \in DOMAIN channel'[v], JobAt(v, q)'
          PROVE  channel'[v][q].job \notin jobs'[JobsOf(v, m)'[p]].after
      <3>1. CASE p \in DOMAIN JobsOf(v, m)
        BY <2>2, <3>1, <1>a3, <1>b DEF PlacesInv, OrderInv
      <3>2. CASE p \notin DOMAIN JobsOf(v, m)
        BY <2>2, <3>2, <1>a4, <1>b, <2>0
      <3> QED BY <3>1, <3>2
    <2>3. ASSUME NEW v \in Workers, NEW p \in DOMAIN channel'[v], NEW q \in DOMAIN channel'[v],
                 JobAt(v, p)', JobAt(v, q)', channel'[v][q].job \in jobs'[channel'[v][p].job].after
          PROVE  q < p
      <3>1. q + sh(v) < p + sh(v)
        BY <2>3, <1>b DEF PlacesInv, OrderInv
      <3> QED BY <3>1, <1>b
    <2> QED BY <2>1, <2>2, <2>3 DEF OrderInv
  <1> QED BY <1>1, <1>2, <1>3, <1>4 DEF PlacesInv

\* The jobs of a channel that is dropped.
Dropped(w) == {j \in JobIds : \E p \in DOMAIN channel[w] : JobAt(w, p) /\ channel[w][p].job = j}

LEMMA ClosePlaces ==
    ASSUME KeyedTypeOK, PlacesInv, NEW w \in Workers, Close(w)
    PROVE  PlacesInv'
  <1>a. \A v \in Workers, m \in Keys : JobsOf(v, m)' = JobsOf(v, m)
    BY CloseEffect DEF Only, JobsOf
  <1>b. /\ \A i \in JobIds : jobs'[i].after = jobs[i].after
        /\ \A i \in JobIds \ Dropped(w) : jobs'[i].phase = jobs[i].phase
        /\ \A i \in Dropped(w) : jobs'[i].phase = "dropped" /\ jobs[i].phase = "queued"
    <2>1. \A i \in JobIds : jobs[i] \in [phase : Phases, after : SUBSET JobIds]
      BY TypeFacts
    <2>2. \A i \in JobIds : jobs'[i] = IF i \in Dropped(w) THEN [jobs[i] EXCEPT !.phase = "dropped"] ELSE jobs[i]
      BY CloseEffect DEF Dropped
    <2>3. \A i \in Dropped(w) : jobs[i].phase = "queued" /\ i \in JobIds
      BY DEF Dropped, PlacesInv, PlaceInv
    <2> QED BY <2>1, <2>2, <2>3
  <1>c. /\ \A v \in Workers : \A p \in DOMAIN channel'[v] : v # w /\ channel'[v] = channel[v] /\ (JobAt(v, p)' => JobAt(v, p) /\
            channel[v][p].job \in JobIds /\ channel[v][p].job \notin Dropped(w))
        /\ \A v \in Workers \ {w} : channel'[v] = channel[v] /\ \A p \in DOMAIN channel[v] : JobAt(v, p) => JobAt(v, p)'
    <2>1. \A v \in Workers \ {w} : channel'[v] = channel[v] /\ \A p \in DOMAIN channel[v] : JobAt(v, p) <=> JobAt(v, p)'
      BY CloseEffect DEF JobAt
    <2>2. \A v \in Workers \ {w} : \A p \in DOMAIN channel[v] : JobAt(v, p) =>
            channel[v][p].job \in JobIds /\ channel[v][p].job \notin Dropped(w)
      BY TypeFacts DEF PlacesInv, UniqueInv, Dropped
    <2> QED BY <2>1, <2>2, CloseEffect
  <1>d. \A v \in Workers, m \in Keys : \A p \in DOMAIN JobsOf(v, m) : JobsOf(v, m)[p] \in JobIds \ Dropped(w)
    <2>1. \A v \in Workers, m \in Keys : \A p \in DOMAIN JobsOf(v, m) : JobsOf(v, m)[p] \in JobIds
      BY TypeFacts
    <2>2. \A v \in Workers, m \in Keys : \A p \in DOMAIN JobsOf(v, m) : JobsOf(v, m)[p] \notin Dropped(w)
      BY DEF PlacesInv, UniqueInv, Dropped
    <2> QED BY <2>1, <2>2
  <1>e. \A v \in Workers : worker'[v].tasks = worker[v].tasks /\ worker'[v].active = worker[v].active /\ worker[v].tasks \subseteq JobIds
    BY CloseEffect, TypeFacts DEF Only
  <1>1. PlaceInv'
    <2>1. \A v \in Workers : \A p \in DOMAIN channel'[v] : JobAt(v, p)' => jobs'[channel'[v][p].job].phase = "queued"
      BY <1>b, <1>c DEF PlacesInv, PlaceInv
    <2>2. \A v \in Workers, m \in Keys : \A p \in DOMAIN JobsOf(v, m)' :
            KeyOf(JobsOf(v, m)'[p]) = m /\ jobs'[JobsOf(v, m)'[p]].phase = "queued"
      BY <1>a, <1>b, <1>d DEF PlacesInv, PlaceInv
    <2>3. \A v \in Workers : \A i \in worker'[v].tasks : jobs'[i].phase = "running" /\ KeyOf(i) \in worker'[v].active
      BY <1>b, <1>e DEF PlacesInv, PlaceInv
    <2> QED BY <2>1, <2>2, <2>3 DEF PlaceInv
  <1>2. FoundInv'
    <2>1. ASSUME NEW i \in JobIds, jobs'[i].phase = "queued"
          PROVE  \E v \in Workers : \/ \E p \in DOMAIN channel'[v] : JobAt(v, p)' /\ channel'[v][p].job = i
                                    \/ \E p \in DOMAIN JobsOf(v, KeyOf(i))' : JobsOf(v, KeyOf(i))'[p] = i
      <3>0. KeyOf(i) \in Keys /\ jobs[i].phase = "queued" /\ i \notin Dropped(w)
        BY <2>1, <1>b, ConstantFacts
      <3>1. PICK v \in Workers : \/ \E p \in DOMAIN channel[v] : JobAt(v, p) /\ channel[v][p].job = i
                                 \/ \E p \in DOMAIN JobsOf(v, KeyOf(i)) : JobsOf(v, KeyOf(i))[p] = i
        BY <3>0 DEF PlacesInv, FoundInv
      <3>2. CASE \E p \in DOMAIN channel[v] : JobAt(v, p) /\ channel[v][p].job = i
        <4>1. v # w
          BY <3>0, <3>2 DEF Dropped
        <4> QED BY <3>2, <4>1, <1>c
      <3>3. CASE \E p \in DOMAIN JobsOf(v, KeyOf(i)) : JobsOf(v, KeyOf(i))[p] = i
        BY <3>3, <3>0, <1>a
      <3> QED BY <3>1, <3>2, <3>3
    <2>2. \A i \in JobIds : jobs'[i].phase = "running" => \E v \in Workers : i \in worker'[v].tasks
      BY <1>b, <1>e DEF PlacesInv, FoundInv
    <2> QED BY <2>1, <2>2 DEF FoundInv
  <1>3. UniqueInv'
    <2>1. \A u, v \in Workers : \A p \in DOMAIN channel'[u], q \in DOMAIN channel'[v] :
            JobAt(u, p)' /\ JobAt(v, q)' /\ channel'[u][p].job = channel'[v][q].job => u = v /\ p = q
      BY <1>c DEF PlacesInv, UniqueInv
    <2>2. \A u, v \in Workers, m \in Keys : \A p \in DOMAIN channel'[u], q \in DOMAIN JobsOf(v, m)' :
            JobAt(u, p)' => channel'[u][p].job # JobsOf(v, m)'[q]
      BY <1>a, <1>c DEF PlacesInv, UniqueInv
    <2>3. \A u, v \in Workers, m \in Keys : \A p \in DOMAIN JobsOf(u, m)', q \in DOMAIN JobsOf(v, m)' :
            JobsOf(u, m)'[p] = JobsOf(v, m)'[q] => u = v /\ p = q
      BY <1>a DEF PlacesInv, UniqueInv
    <2>4. \A u, v \in Workers, i \in JobIds : i \in worker'[u].tasks /\ i \in worker'[v].tasks => u = v
      BY <1>e DEF PlacesInv, UniqueInv
    <2>5. \A u \in Workers : \A h, i \in worker'[u].tasks : KeyOf(h) = KeyOf(i) => h = i
      BY <1>e DEF PlacesInv, UniqueInv
    <2> QED BY <2>1, <2>2, <2>3, <2>4, <2>5 DEF UniqueInv
  <1>4. OrderInv'
    <2>1. \A v \in Workers, m \in Keys : \A p, q \in DOMAIN JobsOf(v, m)' :
            JobsOf(v, m)'[q] \in jobs'[JobsOf(v, m)'[p]].after => q < p
      BY <1>a, <1>b, <1>d DEF PlacesInv, OrderInv
    <2>2. \A v \in Workers, m \in Keys : \A p \in DOMAIN JobsOf(v, m)', q \in DOMAIN channel'[v] :
            JobAt(v, q)' => channel'[v][q].job \notin jobs'[JobsOf(v, m)'[p]].after
      BY <1>a, <1>b, <1>c, <1>d DEF PlacesInv, OrderInv
    <2>3. \A v \in Workers : \A p, q \in DOMAIN channel'[v] :
            JobAt(v, p)' /\ JobAt(v, q)' /\ channel'[v][q].job \in jobs'[channel'[v][p].job].after => q < p
      BY <1>b, <1>c DEF PlacesInv, OrderInv
    <2> QED BY <2>1, <2>2, <2>3 DEF OrderInv
  <1> QED BY <1>1, <1>2, <1>3, <1>4 DEF PlacesInv

-----------------------------------------------------------------------------
(* What a step does to the calls.                                          *)

CallState == [at : {"idle", "counted", "reserveKey", "reserveGlobal", "sending", "sent"}, job : JobIds \cup {0}, worker : Workers]

\* The call of d goes on to place x.
GoesOn(d, x) ==
    /\ dispatch' \in [Dispatchers -> CallState] /\ \A b \in Dispatchers \ {d} : dispatch'[b] = dispatch[b]
    /\ dispatch'[d].at = x /\ dispatch'[d].job = dispatch[d].job

LEMMA ReturnedEffect ==
    ASSUME KeyedTypeOK, NEW d \in Dispatchers, Returned(d)
    PROVE  /\ dispatch' \in [Dispatchers -> CallState] /\ \A b \in Dispatchers \ {d} : dispatch'[b] = dispatch[b]
           /\ dispatch'[d].at = "idle"
  <1>1. NoDispatch \in CallState /\ NoDispatch.at = "idle"
    BY ConstantFacts DEF NoDispatch, CallState
  <1>2. dispatch \in [Dispatchers -> CallState] /\ dispatch' = [dispatch EXCEPT ![d] = NoDispatch]
    BY DEF KeyedTypeOK, CallState, Returned
  <1> QED BY <1>1, <1>2

LEMMA GoesOnEffect ==
    ASSUME KeyedTypeOK, NEW d \in Dispatchers, NEW x \in {"counted", "reserveKey", "reserveGlobal", "sending", "sent"},
           dispatch' = [dispatch EXCEPT ![d].at = x]
    PROVE  GoesOn(d, x) /\ dispatch'[d].worker = dispatch[d].worker
  <1>1. dispatch \in [Dispatchers -> CallState]
    BY DEF KeyedTypeOK, CallState
  <1>2. dispatch'[d] = [dispatch[d] EXCEPT !.at = x] /\ \A b \in Dispatchers \ {d} : dispatch'[b] = dispatch[b]
    BY <1>1
  <1>3. dispatch'[d] \in CallState /\ dispatch'[d].at = x /\ dispatch'[d].job = dispatch[d].job /\ dispatch'[d].worker = dispatch[d].worker
    BY <1>1, <1>2 DEF CallState
  <1> QED BY <1>1, <1>2, <1>3 DEF GoesOn

LEMMA LoadEffect ==
    ASSUME KeyedTypeOK, DispatchInv, NEW d \in Dispatchers, LoadMapping(d)
    PROVE  GoesOn(d, "reserveKey") /\ dispatch'[d].worker = Owner(KeyOf(dispatch[d].job)) /\ ~mapping[SlotOf(d)].draining
  <1> DEFINE x == Owner(KeyOf(dispatch[d].job))
  <1>1. dispatch \in [Dispatchers -> CallState]
    BY DEF KeyedTypeOK, CallState
  <1>2. dispatch[d].at = "counted" /\ ~mapping[SlotOf(d)].draining /\ dispatch' = [dispatch EXCEPT ![d].at = "reserveKey", ![d].worker = x]
    BY DEF LoadMapping, MayAdmit, Owner, SlotOf
  <1>3. KeyOf(dispatch[d].job) \in Keys /\ KeyOf(dispatch[d].job) \in Nat /\ SlotOf(d) \in Slots
    BY <1>2, CallFacts, ConstantFacts
  <1>4. mapping[SlotOf(d)] \in [worker : 0 .. WorkerCount, draining : BOOLEAN]
    BY <1>3 DEF KeyedTypeOK
  <1>5. x \in Workers
    BY <1>3, <1>4, ConstantFacts DEF Owner, SlotOf
  <1> HIDE DEF x
  <1>6. dispatch'[d] = [dispatch[d] EXCEPT !.at = "reserveKey", !.worker = x] /\ \A b \in Dispatchers \ {d} : dispatch'[b] = dispatch[b]
    BY <1>1, <1>2
  <1>7. dispatch'[d] \in CallState /\ dispatch'[d].at = "reserveKey" /\ dispatch'[d].job = dispatch[d].job /\ dispatch'[d].worker = x
    <2>1. dispatch[d] \in CallState
      BY <1>1
    <2>2. dispatch'[d].at = "reserveKey" /\ dispatch'[d].job = dispatch[d].job /\ dispatch'[d].worker = x
      BY <2>1, <1>6 DEF CallState
    <2>3. dispatch'[d] = [at |-> "reserveKey", job |-> dispatch[d].job, worker |-> x] /\ dispatch[d].job \in JobIds \cup {0}
      BY <2>1, <1>6 DEF CallState
    <2>4. dispatch'[d] \in CallState
      BY <2>3, <1>5 DEF CallState
    <2> QED BY <2>2, <2>4
  <1>8. dispatch' \in [Dispatchers -> CallState]
    BY <1>1, <1>2, <1>6, <1>7
  <1> QED BY <1>2, <1>6, <1>7, <1>8 DEF GoesOn, x

LEMMA BeginEffect ==
    ASSUME KeyedTypeOK, NEW j \in JobIds, BeginDispatch(j)
    PROVE  /\ Calls[j].by \in Dispatchers /\ dispatch[Calls[j].by].at = "idle" /\ jobs[j].phase = "none"
           /\ dispatch' \in [Dispatchers -> CallState] /\ \A b \in Dispatchers \ {Calls[j].by} : dispatch'[b] = dispatch[b]
           /\ dispatch'[Calls[j].by].at = "counted" /\ dispatch'[Calls[j].by].job = j
           /\ jobs' \in [JobIds -> [phase : Phases, after : SUBSET JobIds]] /\ \A i \in JobIds \ {j} : jobs'[i] = jobs[i]
           /\ jobs'[j].phase = "admitting" /\ jobs'[j].after = AcceptedBefore(KeyOf(j))
  <1>1. dispatch \in [Dispatchers -> CallState] /\ jobs \in [JobIds -> [phase : Phases, after : SUBSET JobIds]] /\ Calls[j].by \in Dispatchers
    BY ConstantFacts DEF KeyedTypeOK, CallState
  <1>2. /\ dispatch' = [dispatch EXCEPT ![Calls[j].by] = [at |-> "counted", job |-> j, worker |-> 0]]
        /\ jobs' = [jobs EXCEPT ![j] = [phase |-> "admitting", after |-> AcceptedBefore(KeyOf(j))]]
        /\ dispatch[Calls[j].by].at = "idle" /\ jobs[j].phase = "none"
    BY DEF BeginDispatch
  <1>3. [at |-> "counted", job |-> j, worker |-> 0] \in CallState
    BY ConstantFacts DEF CallState
  <1>4. [phase |-> "admitting", after |-> AcceptedBefore(KeyOf(j))] \in [phase : Phases, after : SUBSET JobIds]
    BY DEF AcceptedBefore, Phases
  <1>5. dispatch' \in [Dispatchers -> CallState] /\ jobs' \in [JobIds -> [phase : Phases, after : SUBSET JobIds]]
    BY <1>1, <1>2, <1>3, <1>4
  <1> QED BY <1>1, <1>2, <1>5

\* The call of d ends, before its job was sent.
Failed(d) == Phase(dispatch[d].job, "dropped") /\ Returned(d) /\ dispatch[d].at \in {"counted", "reserveKey", "reserveGlobal", "sending"}

\* A step that is not one of these leaves queues and tasks alone.
MovesJobs ==
    \/ \E d \in Dispatchers : Send(d)
    \/ \E w \in Workers : Start(w) \/ Receive(w) \/ Close(w) \/ \E j \in JobIds : Complete(w, j) \/ Panic(w, j)

LEMMA QuietStep ==
    ASSUME KeyedTypeOK, DispatchInv, [KeyedNext]_keyedVars, ~MovesJobs
    PROVE  QuietChannel /\ QuietWorkers /\ QuietJobs
  <1>q. UNCHANGED channel => QuietChannel
    BY DEF QuietChannel
  <1>w. UNCHANGED worker => QuietWorkers
    BY DEF QuietWorkers
  <1>j. UNCHANGED jobs => QuietJobs
    BY DEF QuietJobs
  <1>f. ASSUME NEW d \in Dispatchers, Failed(d) PROVE QuietJobs
    <2>1. dispatch[d].job \in JobIds /\ jobs[dispatch[d].job].phase = "admitting"
      BY <1>f, CallFacts DEF Failed
    <2>2. PhaseOnly(dispatch[d].job, "dropped")
      BY <1>f, <2>1, PhaseEffect DEF Failed, Phase, Phases
    <2> QED BY <2>1, <2>2 DEF PhaseOnly, QuietJobs
  <1>1. ASSUME NEW j \in JobIds, BeginDispatch(j) PROVE QuietJobs /\ UNCHANGED channel /\ UNCHANGED worker
    <2>1. UNCHANGED channel /\ UNCHANGED worker
      BY <1>1 DEF BeginDispatch
    <2> QED BY <1>1, <2>1, BeginEffect DEF QuietJobs
  <1>2. ASSUME NEW d \in Dispatchers, (DispatchStep(d) /\ ~Send(d)) \/ SendFails(d) \/ CancelDispatch(d)
        PROVE  QuietJobs /\ UNCHANGED channel /\ UNCHANGED worker
    <2>1. CASE LoadMapping(d) \/ Reserve(d) \/ FinishDispatch(d)
      <3>1. UNCHANGED jobs /\ UNCHANGED channel /\ UNCHANGED worker
        BY <2>1 DEF LoadMapping, Reserve, FinishDispatch
      <3> QED BY <3>1, <1>j
    <2>2. CASE RefuseDraining(d) \/ RefuseBudget(d) \/ SendFails(d) \/ CancelDispatch(d)
      <3>1. Failed(d) /\ UNCHANGED channel /\ UNCHANGED worker
        BY <2>2 DEF RefuseDraining, RefuseBudget, SendFails, CancelDispatch, Failed
      <3> QED BY <3>1, <1>f
    <2> QED BY <1>2, <2>1, <2>2 DEF DispatchStep
  <1>3. ASSUME NEW w \in Workers, Notify(w) PROVE QuietChannel /\ QuietWorkers /\ QuietJobs
    <2>1. UNCHANGED channel /\ UNCHANGED jobs
      BY <1>3 DEF Notify, dispatching
    <2>2. QuietWorkers
      BY <1>3, NotifyEffect DEF QuietWorkers, Only
    <2> QED BY <2>1, <2>2, <1>q, <1>j
  <1>4. ASSUME NEW r \in Remappers, (\E k \in Keys, target \in Workers : BeginRemap(r, k, target)) \/ RemapStep(r) \/ AbortRemap(r) \/ CancelRemap(r)
        PROVE  QuietChannel /\ QuietWorkers /\ QuietJobs
    <2>1. CASE ~SendBarrier(r)
      <3>1. UNCHANGED channel /\ UNCHANGED jobs /\ UNCHANGED worker
        BY <1>4, <2>1 DEF RemapStep, BeginRemap, FinishRemap, AbortRemap, CancelRemap, dispatching
      <3> QED BY <3>1, <1>q, <1>w, <1>j
    <2>2. CASE SendBarrier(r)
      <3>1. UNCHANGED worker /\ UNCHANGED jobs
        BY <2>2 DEF SendBarrier, dispatching
      <3>2. QuietChannel
        <4> DEFINE m == [type |-> "barrier", slot |-> remap[r].slot, call |-> remap[r].call]
        <4>1. \E w \in Workers, mm \in {m} : channel' = [channel EXCEPT ![w] = Append(@, mm)]
          BY <2>2 DEF SendBarrier, KeyedTypeOK
        <4>2. PICK w \in Workers : channel' = [channel EXCEPT ![w] = Append(@, m)]
          BY <4>1
        <4>3. channel[w] \in Seq(Message) /\ channel \in [Workers -> Seq(Message)] /\ m.type # "job"
          BY TypeFacts DEF KeyedTypeOK
        <4>4. channel'[w] = Append(channel[w], m) /\ \A v \in Workers \ {w} : channel'[v] = channel[v]
          BY <4>2, <4>3
        <4> HIDE DEF m
        <4>5. channel[w] \in Seq(Message \cup {m}) /\ m \in Message \cup {m}
          BY <4>3
        <4>6. /\ \A p \in DOMAIN channel[w] : p \in DOMAIN Append(channel[w], m) /\ Append(channel[w], m)[p] = channel[w][p] /\ p <= Len(channel[w]) /\ p \in Nat
              /\ \A p \in DOMAIN Append(channel[w], m) : p \in DOMAIN channel[w] \/ p = Len(channel[w]) + 1
              /\ Append(channel[w], m)[Len(channel[w]) + 1] = m /\ Len(channel[w]) \in Nat
          BY <4>5, Appended
        <4>7. \A q \in DOMAIN channel[w] : q < Len(channel[w]) + 1
          BY <4>6
        <4>8. /\ \A p \in DOMAIN channel[w] : p \in DOMAIN channel'[w] /\ channel'[w][p] = channel[w][p]
              /\ \A p \in DOMAIN channel'[w] : p \in DOMAIN channel[w] \/ (channel'[w][p].type # "job" /\ \A q \in DOMAIN channel[w] : q < p)
          BY <4>3, <4>4, <4>6, <4>7
        <4> QED BY <4>4, <4>8 DEF QuietChannel
      <3> QED BY <3>1, <3>2, <1>w, <1>j
    <2> QED BY <2>1, <2>2
  <1>5. ASSUME TryShutdown PROVE QuietChannel /\ QuietWorkers /\ QuietJobs
    <2>1. UNCHANGED worker /\ UNCHANGED jobs
      BY <1>5 DEF TryShutdown, dispatching
    <2>2. QuietChannel
      <3> SUFFICES ASSUME NEW w \in Workers
                   PROVE  /\ \A p \in DOMAIN channel[w] : p \in DOMAIN channel'[w] /\ channel'[w][p] = channel[w][p]
                          /\ \A p \in DOMAIN channel'[w] : p \in DOMAIN channel[w] \/ (channel'[w][p].type # "job" /\ \A q \in DOMAIN channel[w] : q < p)
        BY DEF QuietChannel
      <3> DEFINE m == [type |-> "shutdown"]
      <3>1. channel'[w] = channel[w] \/ channel'[w] = Append(channel[w], m)
        BY <1>5 DEF TryShutdown
      <3>2. channel[w] \in Seq(Message) /\ m \in Message /\ m.type # "job"
        BY TypeFacts DEF Message
      <3> HIDE DEF m
      <3>3. CASE channel'[w] = Append(channel[w], m)
        <4>6. /\ \A p \in DOMAIN channel[w] : p \in DOMAIN Append(channel[w], m) /\ Append(channel[w], m)[p] = channel[w][p] /\ p <= Len(channel[w]) /\ p \in Nat
              /\ \A p \in DOMAIN Append(channel[w], m) : p \in DOMAIN channel[w] \/ p = Len(channel[w]) + 1
              /\ Append(channel[w], m)[Len(channel[w]) + 1] = m /\ Len(channel[w]) \in Nat
          BY <3>2, Appended
        <4>7. \A q \in DOMAIN channel[w] : q < Len(channel[w]) + 1
          BY <4>6
        <4> QED BY <3>2, <3>3, <4>6, <4>7
      <3> QED BY <3>1, <3>3
    <2> QED BY <2>1, <2>2, <1>w, <1>j
  <1>6. CASE UNCHANGED keyedVars
    BY <1>6, <1>q, <1>w, <1>j DEF keyedVars
  <1> QED BY <1>1, <1>2, <1>3, <1>4, <1>5, <1>6, <1>q, <1>w DEF KeyedNext, WorkerStep, MovesJobs, DispatchStep

LEMMA SendEffect ==
    ASSUME KeyedTypeOK, DispatchInv, NEW d \in Dispatchers, Send(d)
    PROVE  /\ Pushed(dispatch[d].worker, [type |-> "job", job |-> dispatch[d].job]) /\ PhaseOnly(dispatch[d].job, "queued")
           /\ dispatch[d].job \in JobIds /\ dispatch[d].worker \in Workers /\ jobs[dispatch[d].job].phase = "admitting"
           /\ GoesOn(d, "sent") /\ UNCHANGED worker /\ dispatch[d].at = "sending"
  <1>1. dispatch[d].job \in JobIds /\ dispatch[d].worker \in Workers /\ jobs[dispatch[d].job].phase = "admitting" /\ dispatch[d].at = "sending"
    BY CallFacts DEF Send
  <1>2. [type |-> "job", job |-> dispatch[d].job] \in Message
    BY <1>1 DEF Message
  <1>3. channel' = [channel EXCEPT ![dispatch[d].worker] = Append(@, [type |-> "job", job |-> dispatch[d].job])] /\ UNCHANGED worker
        /\ jobs' = [jobs EXCEPT ![dispatch[d].job].phase = "queued"] /\ dispatch' = [dispatch EXCEPT ![d].at = "sent"]
    BY DEF Send, OwnerFor, Phase
  <1>4. Pushed(dispatch[d].worker, [type |-> "job", job |-> dispatch[d].job])
    BY <1>1, <1>2, <1>3, PushEffect
  <1>5. PhaseOnly(dispatch[d].job, "queued")
    BY <1>1, <1>3, PhaseEffect DEF Phases
  <1>6. GoesOn(d, "sent")
    BY <1>3, GoesOnEffect
  <1> QED BY <1>1, <1>3, <1>4, <1>5, <1>6

LEMMA PlacesKept ==
    ASSUME KeyedInv, [KeyedNext]_keyedVars
    PROVE  PlacesInv'
  <1> USE DEF KeyedInv
  <1>p. PlacesInv
    BY DEF PlacesInv
  <1>1. CASE ~MovesJobs
    BY <1>1, <1>p, QuietStep, QuietPlaces
  <1>2. ASSUME NEW d \in Dispatchers, Send(d) PROVE PlacesInv'
    <2>1. QuietWorkers
      BY <1>2, SendEffect DEF QuietWorkers
    <2>2. /\ Pushed(dispatch[d].worker, [type |-> "job", job |-> dispatch[d].job]) /\ PhaseOnly(dispatch[d].job, "queued")
          /\ dispatch[d].job \in JobIds /\ dispatch[d].worker \in Workers /\ jobs[dispatch[d].job].phase = "admitting"
          /\ dispatch[d].at # "idle"
      BY <1>2, SendEffect
    <2> QED BY <1>p, <2>1, <2>2, SendPlaces
  <1>3. ASSUME NEW w \in Workers, Start(w) PROVE PlacesInv'
    <2>1. UNCHANGED channel
      BY <1>3 DEF Start
    <2>2. PICK c \in Classes, k \in Keys, j \in JobIds : Started(w, c, k, j)
      BY <1>3, StartEffect
    <2> QED BY <1>p, <2>1, <2>2, StartPlaces
  <1>4. ASSUME NEW w \in Workers, Receive(w) PROVE PlacesInv'
    <2>1. UNCHANGED jobs
      BY <1>4 DEF Receive, dispatching
    <2>2. CASE channel[w][1].type = "job"
      <3> DEFINE j == channel[w][1].job
      <3>1. /\ Only(w) /\ Taken(w) /\ j \in JobIds /\ JobAt(w, 1)
            /\ worker'[w].keys = [worker[w].keys EXCEPT ![KeyOf(j)] = Append(@, j)]
            /\ worker'[w].active = worker[w].active /\ worker'[w].tasks = worker[w].tasks
        BY <1>4, <2>2, ReceiveJobEffect
      <3> QED BY <3>1, <2>1, <1>p, ReceivePlaces
    <2>3. CASE channel[w][1].type # "job"
      <3>1. QuietWorkers /\ Taken(w)
        BY <1>4, <2>3, ReceiveOtherEffect DEF QuietWorkers, Only
      <3> QED BY <3>1, <2>1, <2>3, <1>p, OtherPlaces
    <2> QED BY <2>2, <2>3
  <1>5. ASSUME NEW w \in Workers, Close(w) PROVE PlacesInv'
    BY <1>5, <1>p, ClosePlaces
  <1>6. ASSUME NEW w \in Workers, NEW j \in JobIds, Complete(w, j) \/ Panic(w, j) PROVE PlacesInv'
    BY <1>6, <1>p, EndedEffect, EndPlaces
  <1> QED BY <1>1, <1>2, <1>3, <1>4, <1>5, <1>6 DEF MovesJobs

-----------------------------------------------------------------------------
(* The calls and their jobs: DispatchInv, AfterInv; the order: DoneInv.    *)

\* Only jobs that were sent change, and they go on.
WorkOnly ==
    /\ UNCHANGED dispatch
    /\ \A i \in JobIds : jobs'[i].after = jobs[i].after /\ (jobs'[i].phase = jobs[i].phase \/
         (jobs[i].phase \in {"queued", "running"} /\ jobs'[i].phase \in {"running", "done", "dropped"}))
\* No job starts.
NoneStarts == \A i \in JobIds : jobs'[i].phase = jobs[i].phase \/ jobs'[i].phase # "running"

LEMMA WorkerWork ==
    ASSUME KeyedInv, NEW w \in Workers, WorkerStep(w) \/ \E j \in JobIds : Panic(w, j)
    PROVE  WorkOnly /\ (NoneStarts \/ Start(w)) /\ jobs' \in [JobIds -> [phase : Phases, after : SUBSET JobIds]]
           /\ UNCHANGED <<mapping, inflight, remaps>>
  <1> USE DEF KeyedInv
  <1>t. jobs \in [JobIds -> [phase : Phases, after : SUBSET JobIds]]
    BY DEF KeyedTypeOK
  <1>1. UNCHANGED dispatch /\ UNCHANGED <<mapping, inflight, remaps>>
    BY DEF WorkerStep, Start, Notify, Receive, Close, Complete, Panic, dispatching
  <1>2. CASE Start(w)
    <2>1. PICK c \in Classes, k \in Keys, j \in JobIds : Started(w, c, k, j)
      BY <1>2, StartEffect
    <2>2. JobsOf(w, k) # <<>> /\ JobsOf(w, k) \in Seq(JobIds) /\ j = Head(JobsOf(w, k)) /\ jobs' = [jobs EXCEPT ![j].phase = "running"]
      BY <2>1, TypeFacts DEF Started
    <2>3. j = JobsOf(w, k)[1] /\ 1 \in DOMAIN JobsOf(w, k)
      BY <2>2, Shortened
    <2>4. jobs[j].phase = "queued"
      BY <2>3 DEF PlaceInv
    <2>5. PhaseOnly(j, "running")
      BY <2>2, PhaseEffect DEF Phases
    <2> QED BY <1>1, <1>2, <2>4, <2>5 DEF WorkOnly, PhaseOnly
  <1>3. CASE Notify(w) \/ Receive(w)
    <2>1. UNCHANGED jobs
      BY <1>3 DEF Notify, Receive, dispatching
    <2> QED BY <1>1, <1>t, <2>1 DEF WorkOnly, NoneStarts
  <1>4. CASE Close(w)
    <2>1. \A i \in JobIds : jobs'[i] = jobs[i] \/ (jobs'[i] = [jobs[i] EXCEPT !.phase = "dropped"] /\ jobs[i].phase = "queued")
      <3>1. \A i \in JobIds : jobs'[i] = IF i \in Dropped(w) THEN [jobs[i] EXCEPT !.phase = "dropped"] ELSE jobs[i]
        BY <1>4, CloseEffect DEF Dropped
      <3>2. \A i \in Dropped(w) : jobs[i].phase = "queued"
        BY DEF Dropped, PlaceInv
      <3> QED BY <3>1, <3>2
    <2>2. \A i \in JobIds : jobs[i] \in [phase : Phases, after : SUBSET JobIds]
      BY TypeFacts
    <2>3. \A i \in JobIds : jobs'[i].after = jobs[i].after /\ (jobs'[i].phase = jobs[i].phase \/ (jobs[i].phase = "queued" /\ jobs'[i].phase = "dropped"))
      BY <2>1, <2>2
    <2> QED BY <1>1, <1>4, <2>3, CloseEffect DEF WorkOnly, NoneStarts
  <1>5. ASSUME NEW j \in JobIds, Complete(w, j) \/ Panic(w, j)
        PROVE  WorkOnly /\ NoneStarts /\ jobs' \in [JobIds -> [phase : Phases, after : SUBSET JobIds]]
    <2> DEFINE x == IF Complete(w, j) THEN "done" ELSE "dropped"
    <2>1. PhaseOnly(j, x) /\ jobs[j].phase = "running"
      BY <1>5, EndedEffect DEF Ended
    <2>2. x \in {"done", "dropped"}
      OBVIOUS
    <2> HIDE DEF x
    <2> QED BY <1>1, <2>1, <2>2 DEF WorkOnly, NoneStarts, PhaseOnly
  <1> QED BY <1>1, <1>2, <1>3, <1>4, <1>5 DEF WorkerStep

LEMMA OtherWork ==
    ASSUME KeyedTypeOK,
           \/ \E r \in Remappers : (\E k \in Keys, target \in Workers : BeginRemap(r, k, target)) \/ RemapStep(r) \/ AbortRemap(r) \/ CancelRemap(r)
           \/ TryShutdown
           \/ UNCHANGED keyedVars
    PROVE  WorkOnly /\ NoneStarts /\ UNCHANGED <<jobs, dispatch, inflight, usage, worker>>
  <1>1. UNCHANGED <<jobs, dispatch, inflight, usage, worker>>
    BY DEF RemapStep, BeginRemap, SendBarrier, FinishRemap, AbortRemap, CancelRemap, TryShutdown, dispatching, keyedVars
  <1> QED BY <1>1 DEF WorkOnly, NoneStarts

\* The call of d goes on, is over, or fails.
LEMMA CallWork ==
    ASSUME KeyedTypeOK, DispatchInv, NEW d \in Dispatchers, DispatchStep(d) \/ SendFails(d) \/ CancelDispatch(d)
    PROVE  /\ dispatch[d].at # "idle" /\ dispatch[d].job \in JobIds /\ dispatch' \in [Dispatchers -> CallState]
           /\ \A b \in Dispatchers \ {d} : dispatch'[b] = dispatch[b]
           /\ jobs' \in [JobIds -> [phase : Phases, after : SUBSET JobIds]]
           /\ \A i \in JobIds : jobs'[i].after = jobs[i].after
           /\ \A i \in JobIds \ {dispatch[d].job} : jobs'[i].phase = jobs[i].phase
           /\ \/ dispatch'[d].at = "idle" /\ dispatch[d].at # "sent" /\ jobs'[dispatch[d].job].phase = "dropped"
              \/ dispatch'[d].at = "idle" /\ dispatch[d].at = "sent" /\ UNCHANGED jobs
              \/ dispatch'[d].at \in {"reserveKey", "reserveGlobal", "sending"} /\ dispatch'[d].job = dispatch[d].job
                   /\ UNCHANGED jobs /\ dispatch[d].at # "sent"
              \/ dispatch'[d].at = "sent" /\ dispatch'[d].job = dispatch[d].job /\ jobs'[dispatch[d].job].phase = "queued" /\ dispatch[d].at = "sending"
           /\ jobs[dispatch[d].job].phase = "admitting" \/ UNCHANGED jobs
  <1>t. jobs \in [JobIds -> [phase : Phases, after : SUBSET JobIds]]
    BY DEF KeyedTypeOK
  <1>1. dispatch[d].at # "idle"
    BY DEF DispatchStep, LoadMapping, RefuseDraining, Reserve, RefuseBudget, Send, FinishDispatch, SendFails, CancelDispatch
  <1>2. dispatch[d].job \in JobIds /\ (dispatch[d].at # "sent" => jobs[dispatch[d].job].phase = "admitting")
    BY <1>1, CallFacts
  <1>3. CASE LoadMapping(d)
    <2>1. UNCHANGED jobs /\ dispatch[d].at = "counted"
      BY <1>3 DEF LoadMapping
    <2> QED BY <1>1, <1>2, <1>3, <1>t, <2>1, LoadEffect DEF GoesOn
  <1>4. CASE Reserve(d)
    <2>1. UNCHANGED jobs /\ dispatch[d].at # "sent" /\ \E x \in {"reserveGlobal", "sending"} : dispatch' = [dispatch EXCEPT ![d].at = x]
      BY <1>4 DEF Reserve
    <2>2. PICK x \in {"reserveGlobal", "sending"} : dispatch' = [dispatch EXCEPT ![d].at = x]
      BY <2>1
    <2>3. GoesOn(d, x)
      BY <2>2, GoesOnEffect
    <2> QED BY <1>1, <1>2, <1>t, <2>1, <2>2, <2>3 DEF GoesOn
  <1>5. CASE Send(d)
    BY <1>1, <1>2, <1>5, SendEffect DEF GoesOn, PhaseOnly
  <1>6. CASE FinishDispatch(d)
    <2>1. UNCHANGED jobs /\ Returned(d) /\ dispatch[d].at = "sent"
      BY <1>6 DEF FinishDispatch
    <2> QED BY <1>1, <1>2, <1>t, <2>1, ReturnedEffect
  <1>7. CASE RefuseDraining(d) \/ RefuseBudget(d) \/ SendFails(d) \/ CancelDispatch(d)
    <2>1. Failed(d)
      BY <1>7 DEF RefuseDraining, RefuseBudget, SendFails, CancelDispatch, Failed
    <2>2. PhaseOnly(dispatch[d].job, "dropped") /\ dispatch[d].at # "sent"
      BY <1>2, <2>1, PhaseEffect DEF Failed, Phase, Phases
    <2>3. Returned(d)
      BY <2>1 DEF Failed
    <2> QED BY <1>1, <1>2, <2>2, <2>3, ReturnedEffect DEF PhaseOnly
  <1> QED BY <1>3, <1>4, <1>5, <1>6, <1>7 DEF DispatchStep

LEMMA CallsKept ==
    ASSUME KeyedInv, [KeyedNext]_keyedVars
    PROVE  DispatchInv' /\ AfterInv'
  <1> USE DEF KeyedInv
  <1>1. CASE WorkOnly
    <2>1. DispatchInv'
      BY <1>1 DEF WorkOnly, DispatchInv
    <2>2. AfterInv'
      <3> SUFFICES ASSUME NEW j \in JobIds, NEW i \in jobs'[j].after
                   PROVE  /\ KeyOf(i) = KeyOf(j) /\ jobs'[i].phase \in {"queued", "running", "done", "dropped"} /\ jobs'[j].phase # "none"
                          /\ \A d \in Dispatchers : dispatch'[d].at # "idle" => dispatch'[d].job # i
        BY DEF AfterInv
      <3>1. i \in jobs[j].after /\ i \in JobIds
        BY <1>1, TypeFacts DEF WorkOnly
      <3>2. KeyOf(i) = KeyOf(j) /\ jobs[i].phase \in {"queued", "running", "done", "dropped"} /\ jobs[j].phase # "none"
                          /\ \A d \in Dispatchers : dispatch[d].at # "idle" => dispatch[d].job # i
        BY <3>1 DEF AfterInv
      <3> QED BY <3>1, <3>2, <1>1 DEF WorkOnly
    <2> QED BY <2>1, <2>2
  <1>2. ASSUME NEW d \in Dispatchers, DispatchStep(d) \/ SendFails(d) \/ CancelDispatch(d) PROVE DispatchInv' /\ AfterInv'
    <2> DEFINE h == dispatch[d].job
    <2>1. /\ dispatch[d].at # "idle" /\ h \in JobIds
          /\ \A b \in Dispatchers \ {d} : dispatch'[b] = dispatch[b]
          /\ \A i \in JobIds : jobs'[i].after = jobs[i].after
          /\ \A i \in JobIds \ {h} : jobs'[i].phase = jobs[i].phase
          /\ \/ dispatch'[d].at = "idle" /\ dispatch[d].at # "sent" /\ jobs'[h].phase = "dropped"
             \/ dispatch'[d].at = "idle" /\ dispatch[d].at = "sent" /\ UNCHANGED jobs
             \/ dispatch'[d].at \in {"reserveKey", "reserveGlobal", "sending"} /\ dispatch'[d].job = h
                  /\ UNCHANGED jobs /\ dispatch[d].at # "sent"
             \/ dispatch'[d].at = "sent" /\ dispatch'[d].job = h /\ jobs'[h].phase = "queued" /\ dispatch[d].at = "sending"
          /\ jobs[h].phase = "admitting" \/ UNCHANGED jobs
      BY <1>2, CallWork
    <2>2. Calls[h].by = d /\ (dispatch[d].at # "sent" => jobs[h].phase = "admitting") /\ \A b \in Dispatchers : dispatch[b].at # "idle" /\ dispatch[b].job = h => b = d
      BY <2>1, CallFacts
    <2> HIDE DEF h
    <2>3. DispatchInv'
      <3> SUFFICES ASSUME NEW b \in Dispatchers, dispatch'[b].at # "idle"
                   PROVE  /\ dispatch'[b].job \in JobIds /\ Calls[dispatch'[b].job].by = b
                          /\ dispatch'[b].at # "sent" => jobs'[dispatch'[b].job].phase = "admitting"
                          /\ dispatch'[b].at = "sent" => jobs'[dispatch'[b].job].phase \in {"queued", "running", "done", "dropped"}
        BY DEF DispatchInv
      <3>1. CASE b = d
        BY <3>1, <2>1, <2>2
      <3>2. CASE b # d
        <4>1. dispatch'[b] = dispatch[b] /\ dispatch[b].job \in JobIds \ {h}
          BY <3>2, <2>1, <2>2 DEF DispatchInv
        <4> QED BY <4>1, <2>1 DEF DispatchInv
      <3> QED BY <3>1, <3>2
    <2>4. AfterInv'
      <3> SUFFICES ASSUME NEW j \in JobIds, NEW i \in jobs'[j].after
                   PROVE  /\ KeyOf(i) = KeyOf(j) /\ jobs'[i].phase \in {"queued", "running", "done", "dropped"} /\ jobs'[j].phase # "none"
                          /\ \A b \in Dispatchers : dispatch'[b].at # "idle" => dispatch'[b].job # i
        BY DEF AfterInv
      <3>1. i \in jobs[j].after /\ i \in JobIds
        BY <2>1, TypeFacts
      <3>2. KeyOf(i) = KeyOf(j) /\ jobs[i].phase \in {"queued", "running", "done", "dropped"} /\ jobs[j].phase # "none"
                          /\ \A b \in Dispatchers : dispatch[b].at # "idle" => dispatch[b].job # i
        BY <3>1 DEF AfterInv
      <3>3. i # h
        BY <3>2, <2>1 DEF h
      <3>4. jobs'[j].phase # "none"
        BY <2>1, <3>2
      <3>5. \A b \in Dispatchers : dispatch'[b].at # "idle" => dispatch'[b].job # i
        BY <3>2, <3>3, <2>1
      <3> QED BY <3>1, <3>2, <3>3, <3>4, <3>5, <2>1
    <2> QED BY <2>3, <2>4
  <1>3. ASSUME NEW j \in JobIds, BeginDispatch(j) PROVE DispatchInv' /\ AfterInv'
    <2> DEFINE d == Calls[j].by
    <2>1. /\ d \in Dispatchers /\ dispatch[d].at = "idle" /\ jobs[j].phase = "none"
          /\ \A b \in Dispatchers \ {d} : dispatch'[b] = dispatch[b]
          /\ dispatch'[d].at = "counted" /\ dispatch'[d].job = j
          /\ \A i \in JobIds \ {j} : jobs'[i] = jobs[i]
          /\ jobs'[j].phase = "admitting" /\ jobs'[j].after = AcceptedBefore(KeyOf(j))
      BY <1>3, BeginEffect
    <2>2. DispatchInv'
      <3> SUFFICES ASSUME NEW b \in Dispatchers, dispatch'[b].at # "idle"
                   PROVE  /\ dispatch'[b].job \in JobIds /\ Calls[dispatch'[b].job].by = b
                          /\ dispatch'[b].at # "sent" => jobs'[dispatch'[b].job].phase = "admitting"
                          /\ dispatch'[b].at = "sent" => jobs'[dispatch'[b].job].phase \in {"queued", "running", "done", "dropped"}
        BY DEF DispatchInv
      <3>1. CASE b = d
        BY <3>1, <2>1
      <3>2. CASE b # d
        <4>1. dispatch'[b] = dispatch[b] /\ dispatch[b].job \in JobIds \ {j}
          BY <3>2, <2>1 DEF DispatchInv
        <4> QED BY <4>1, <2>1 DEF DispatchInv
      <3> QED BY <3>1, <3>2
    <2>3. AfterInv'
      <3> SUFFICES ASSUME NEW x \in JobIds, NEW i \in jobs'[x].after
                   PROVE  /\ KeyOf(i) = KeyOf(x) /\ jobs'[i].phase \in {"queued", "running", "done", "dropped"} /\ jobs'[x].phase # "none"
                          /\ \A b \in Dispatchers : dispatch'[b].at # "idle" => dispatch'[b].job # i
        BY DEF AfterInv
      <3>1. CASE x = j
        <4>1. i \in JobIds /\ KeyOf(i) = KeyOf(j) /\ jobs[i].phase \in {"queued", "running", "done"}
              /\ \A b \in Dispatchers : dispatch[b].at = "idle" \/ dispatch[b].job # i
          BY <3>1, <2>1 DEF AcceptedBefore
        <4>2. i # j
          BY <4>1, <2>1
        <4> QED BY <3>1, <4>1, <4>2, <2>1
      <3>2. CASE x # j
        <4>1. i \in jobs[x].after /\ i \in JobIds
          BY <3>2, <2>1, TypeFacts
        <4>2. KeyOf(i) = KeyOf(x) /\ jobs[i].phase \in {"queued", "running", "done", "dropped"} /\ jobs[x].phase # "none"
                          /\ \A b \in Dispatchers : dispatch[b].at # "idle" => dispatch[b].job # i
          BY <4>1 DEF AfterInv
        <4>3. i # j
          BY <4>2, <2>1
        <4> QED BY <3>2, <4>1, <4>2, <4>3, <2>1
      <3> QED BY <3>1, <3>2
    <2> QED BY <2>2, <2>3
  <1> QED BY <1>1, <1>2, <1>3, WorkerWork, OtherWork DEF KeyedNext

\* Nothing of a key that is about to start elsewhere, or before it in its queue.
LEMMA StartsInOrder ==
    ASSUME KeyedInv, NEW w \in Workers, NEW c \in Classes, NEW k \in Keys, NEW j \in JobIds, Started(w, c, k, j), Ordered(j),
           NEW i \in jobs[j].after
    PROVE  jobs[i].phase \in {"done", "dropped"}
  <1> USE DEF KeyedInv
  <1>1. JobsOf(w, k) # <<>> /\ JobsOf(w, k) \in Seq(JobIds) /\ j = Head(JobsOf(w, k)) /\ k \notin worker[w].active
    BY TypeFacts DEF Started
  <1>2. j = JobsOf(w, k)[1] /\ 1 \in DOMAIN JobsOf(w, k)
    BY <1>1, Shortened
  <1>3. KeyOf(j) = k /\ OneDefault(KeySlot(k))
    BY <1>2 DEF PlaceInv, Ordered
  <1>4. w = Owner(k)
    BY <1>1, <1>3 DEF OwnerInv
  <1>5. i \in JobIds /\ KeyOf(i) = k /\ jobs[i].phase \in {"queued", "running", "done", "dropped"}
    BY <1>3, TypeFacts DEF AfterInv
  <1>6. jobs[i].phase # "queued"
    <2> SUFFICES ASSUME jobs[i].phase = "queued" PROVE FALSE
      OBVIOUS
    <2>1. PICK v \in Workers : \/ \E p \in DOMAIN channel[v] : JobAt(v, p) /\ channel[v][p].job = i
                               \/ \E p \in DOMAIN JobsOf(v, k) : JobsOf(v, k)[p] = i
      BY <1>5 DEF FoundInv
    <2>2. CASE \E p \in DOMAIN channel[v] : JobAt(v, p) /\ channel[v][p].job = i
      <3>1. PICK p \in DOMAIN channel[v] : JobAt(v, p) /\ channel[v][p].job = i
        BY <2>2
      <3>2. v = w
        BY <3>1, <1>3, <1>4, <1>5 DEF OwnerInv, SlotAt
      <3> QED BY <3>1, <3>2, <1>2 DEF OrderInv
    <2>3. CASE \E p \in DOMAIN JobsOf(v, k) : JobsOf(v, k)[p] = i
      <3>1. PICK p \in DOMAIN JobsOf(v, k) : JobsOf(v, k)[p] = i
        BY <2>3
      <3>2. JobsOf(v, k) # <<>>
        BY <3>1, TypeFacts, EmptySeq
      <3>3. v = w
        BY <3>2, <1>3, <1>4 DEF OwnerInv
      <3>4. p < 1
        BY <3>1, <3>3, <1>2 DEF OrderInv
      <3> QED BY <3>1, <3>4, TypeFacts
    <2> QED BY <2>1, <2>2, <2>3
  <1>7. jobs[i].phase # "running"
    <2> SUFFICES ASSUME jobs[i].phase = "running" PROVE FALSE
      OBVIOUS
    <2>1. PICK v \in Workers : i \in worker[v].tasks
      BY <1>5 DEF FoundInv
    <2>2. k \in worker[v].active
      BY <1>5, <2>1 DEF PlaceInv
    <2> QED BY <2>2, <1>1, <1>3, <1>4 DEF OwnerInv
  <1> QED BY <1>5, <1>6, <1>7

LEMMA DoneKept ==
    ASSUME KeyedInv, [KeyedNext]_keyedVars
    PROVE  DoneInv'
  <1> USE DEF KeyedInv
  <1>0. SUFFICES ASSUME NEW j \in JobIds, Ordered(j), jobs'[j].phase \in {"running", "done"}, NEW i \in jobs'[j].after
                 PROVE  jobs'[i].phase \in {"done", "dropped"}
    BY DEF DoneInv, Ordered
  <1>1. CASE WorkOnly
    <2>1. i \in JobIds /\ i \in jobs[j].after
      BY <1>1, TypeFacts DEF WorkOnly
    <2>2. jobs[j].phase \in {"running", "done"} => jobs[i].phase \in {"done", "dropped"}
      BY <1>0, <2>1 DEF DoneInv
    <2>3. jobs[i].phase \in {"done", "dropped"} => jobs'[i].phase \in {"done", "dropped"}
      BY <1>1, <2>1 DEF WorkOnly
    <2>4. CASE jobs[j].phase \in {"running", "done"}
      BY <2>2, <2>3, <2>4
    <2>5. CASE jobs[j].phase = "queued" /\ \E w \in Workers : Start(w)
      <3>1. PICK w \in Workers : Start(w)
        BY <2>5
      <3>2. PICK c \in Classes, k \in Keys, h \in JobIds : Started(w, c, k, h)
        BY <3>1, StartEffect
      <3>3. PhaseOnly(h, "running")
        BY <3>2, PhaseEffect DEF Started, Phases
      <3>4. h = j
        BY <2>5, <3>3, <1>0 DEF PhaseOnly
      <3> QED BY <3>2, <3>4, <1>0, <2>1, <2>3, StartsInOrder
    <2>6. CASE jobs[j].phase = "queued" /\ ~\E w \in Workers : Start(w)
      <3>1. jobs'[j].phase # jobs[j].phase
        BY <1>0, <2>6
      <3>2. jobs'[j].phase # "running" => FALSE
        \* A queued job is done only after it ran.
        <4> SUFFICES ASSUME jobs'[j].phase = "done" PROVE FALSE
          BY <1>0
        <4>1. PICK w \in Workers : WorkerStep(w) \/ \E h \in JobIds : Panic(w, h)
          BY <3>1, <1>0, <2>6, OtherWork, CallWork, BeginEffect DEF KeyedNext
        <4>2. ASSUME NEW h \in JobIds, Complete(w, h) \/ Panic(w, h) PROVE FALSE
          BY <4>2, <2>6, <3>1, EndedEffect DEF Ended, PhaseOnly
        <4>3. CASE Notify(w) \/ Receive(w)
          BY <4>3, <3>1 DEF Notify, Receive, dispatching
        <4>4. CASE Close(w)
          <5>1. jobs'[j] = jobs[j] \/ jobs'[j] = [jobs[j] EXCEPT !.phase = "dropped"]
            BY <4>4, CloseEffect
          <5>2. jobs[j] \in [phase : Phases, after : SUBSET JobIds]
            BY TypeFacts
          <5> QED BY <5>1, <5>2, <3>1
        <4> QED BY <4>1, <4>2, <4>3, <4>4, <2>6 DEF WorkerStep
      <3>3. NoneStarts
        BY <2>6, <3>1, <1>0, WorkerWork, OtherWork, CallWork, BeginEffect DEF KeyedNext
      <3> QED BY <3>1, <3>2, <3>3 DEF NoneStarts
    <2> QED BY <1>0, <1>1, <2>4, <2>5, <2>6 DEF WorkOnly
  <1>2. ASSUME NEW d \in Dispatchers, DispatchStep(d) \/ SendFails(d) \/ CancelDispatch(d) PROVE jobs'[i].phase \in {"done", "dropped"}
    <2>1. /\ dispatch[d].job \in JobIds
          /\ \A x \in JobIds : jobs'[x].after = jobs[x].after
          /\ \A x \in JobIds \ {dispatch[d].job} : jobs'[x].phase = jobs[x].phase
          /\ jobs'[dispatch[d].job].phase \in {"dropped", "queued"} \/ UNCHANGED jobs
          /\ jobs[dispatch[d].job].phase = "admitting" \/ UNCHANGED jobs
      BY <1>2, CallWork
    <2>2. i \in JobIds /\ i \in jobs[j].after /\ jobs[j].phase = jobs'[j].phase
      BY <1>0, <2>1, TypeFacts
    <2>3. jobs[i].phase \in {"done", "dropped"}
      BY <1>0, <2>2 DEF DoneInv
    <2> QED BY <2>1, <2>2, <2>3
  <1>3. ASSUME NEW h \in JobIds, BeginDispatch(h) PROVE jobs'[i].phase \in {"done", "dropped"}
    <2>1. jobs[h].phase = "none" /\ jobs'[h].phase = "admitting" /\ \A x \in JobIds \ {h} : jobs'[x] = jobs[x]
      BY <1>3, BeginEffect
    <2>2. i \in JobIds /\ i \in jobs[j].after /\ jobs[j].phase = jobs'[j].phase
      BY <1>0, <2>1, TypeFacts
    <2>3. jobs[i].phase \in {"done", "dropped"}
      BY <1>0, <2>2 DEF DoneInv
    <2> QED BY <2>1, <2>2, <2>3
  <1> QED BY <1>1, <1>2, <1>3, WorkerWork, OtherWork DEF KeyedNext

-----------------------------------------------------------------------------
(* Where jobs come from: OwnerInv.                                         *)

ComesFrom ==
    /\ \A v \in Workers : \A p \in DOMAIN channel'[v] : JobAt(v, p)' =>
         \/ \E q \in DOMAIN channel[v] : JobAt(v, q) /\ channel[v][q].job = channel'[v][p].job
         \/ \E d \in Dispatchers : Loaded(d) /\ dispatch[d].worker = v /\ dispatch[d].job = channel'[v][p].job
    /\ \A v \in Workers, k \in Keys : JobsOf(v, k)' # <<>> \/ k \in worker'[v].active =>
         \/ JobsOf(v, k) # <<>> \/ k \in worker[v].active
         \/ \E q \in DOMAIN channel[v] : JobAt(v, q) /\ KeyOf(channel[v][q].job) = k
    /\ \A d \in Dispatchers : Loaded(d)' =>
         /\ dispatch'[d].job = dispatch[d].job /\ dispatch[d].at # "idle"
         /\ (Loaded(d) /\ dispatch'[d].worker = dispatch[d].worker) \/ LoadMapping(d)

LEMMA JobsComeFrom ==
    ASSUME KeyedInv, [KeyedNext]_keyedVars
    PROVE  ComesFrom
  <1> USE DEF KeyedInv
  <1>1. ASSUME NEW v \in Workers, NEW p \in DOMAIN channel'[v], JobAt(v, p)'
        PROVE  \/ \E q \in DOMAIN channel[v] : JobAt(v, q) /\ channel[v][q].job = channel'[v][p].job
               \/ \E d \in Dispatchers : Loaded(d) /\ dispatch[d].worker = v /\ dispatch[d].job = channel'[v][p].job
    <2>1. CASE QuietChannel
      <3>1. p \in DOMAIN channel[v] /\ channel'[v][p] = channel[v][p]
        BY <1>1, <2>1 DEF QuietChannel, JobAt
      <3> QED BY <3>1, <1>1 DEF JobAt
    <2>2. ASSUME NEW d \in Dispatchers, Send(d)
          PROVE  \/ \E q \in DOMAIN channel[v] : JobAt(v, q) /\ channel[v][q].job = channel'[v][p].job
                 \/ Loaded(d) /\ dispatch[d].worker = v /\ dispatch[d].job = channel'[v][p].job
      <3>1. Pushed(dispatch[d].worker, [type |-> "job", job |-> dispatch[d].job]) /\ Loaded(d)
        BY <2>2, SendEffect DEF Loaded
      <3>2. \/ p \in DOMAIN channel[v] /\ channel'[v][p] = channel[v][p]
            \/ v = dispatch[d].worker /\ channel'[v][p] = [type |-> "job", job |-> dispatch[d].job]
        BY <3>1 DEF Pushed
      <3> QED BY <3>1, <3>2, <1>1 DEF JobAt
    <2>3. ASSUME NEW w \in Workers, Receive(w) PROVE \E q \in DOMAIN channel[v] : channel[v][q] = channel'[v][p]
      <3>1. Taken(w)
        BY <2>3, ReceiveTakes
      <3> QED BY <3>1 DEF Taken
    <2>4. ASSUME NEW w \in Workers, Close(w) PROVE \E q \in DOMAIN channel[v] : channel[v][q] = channel'[v][p]
      BY <2>4, CloseEffect
    <2>5. (\E q \in DOMAIN channel[v] : channel[v][q] = channel'[v][p]) =>
             \E q \in DOMAIN channel[v] : JobAt(v, q) /\ channel[v][q].job = channel'[v][p].job
      BY <1>1 DEF JobAt
    <2>6. CASE UNCHANGED channel
      BY <2>6, <2>5
    <2>7. ASSUME NEW w \in Workers, Start(w) \/ \E j \in JobIds : Complete(w, j) \/ Panic(w, j) PROVE UNCHANGED channel
      BY <2>7 DEF Start, Complete, Panic
    <2> QED BY <2>1, <2>2, <2>3, <2>4, <2>5, <2>6, <2>7, QuietStep DEF MovesJobs
  <1>2. ASSUME NEW v \in Workers, NEW k \in Keys, JobsOf(v, k)' # <<>> \/ k \in worker'[v].active
        PROVE  \/ JobsOf(v, k) # <<>> \/ k \in worker[v].active
               \/ \E q \in DOMAIN channel[v] : JobAt(v, q) /\ KeyOf(channel[v][q].job) = k
    <2>1. CASE worker'[v].keys = worker[v].keys /\ worker'[v].active \subseteq worker[v].active
      BY <1>2, <2>1 DEF JobsOf
    <2>2. CASE ~MovesJobs
      BY <2>1, <2>2, QuietStep DEF QuietWorkers
    <2>3. CASE \E d \in Dispatchers : Send(d)
      BY <2>1, <2>3 DEF Send
    <2>4. ASSUME NEW w \in Workers, Start(w)
          PROVE  JobsOf(v, k) # <<>> \/ k \in worker[v].active
      <3>1. PICK c \in Classes, m \in Keys, j \in JobIds : Started(w, c, m, j)
        BY <2>4, StartEffect
      <3>2. CASE v = w /\ k = m
        BY <3>1, <3>2 DEF Started
      <3>3. CASE v # w
        BY <1>2, <3>1, <3>3 DEF Started, JobsOf
      <3>4. CASE v = w /\ k # m
        <4>1. worker[w].keys \in [Keys -> Seq(JobIds)] /\ worker'[w].keys = [worker[w].keys EXCEPT ![m] = Tail(@)]
              /\ worker'[w].active = worker[w].active \cup {m}
          BY <3>1, TypeFacts DEF Started, WorkerState
        <4>2. worker'[w].keys[k] = worker[w].keys[k]
          BY <4>1, <3>4
        <4> QED BY <1>2, <3>4, <4>1, <4>2 DEF JobsOf
      <3> QED BY <3>2, <3>3, <3>4
    <2>5. ASSUME NEW w \in Workers, NEW j \in JobIds, Complete(w, j) \/ Panic(w, j)
          PROVE  worker'[v].keys = worker[v].keys /\ worker'[v].active \subseteq worker[v].active
      BY <2>5, EndedEffect DEF Ended, Only
    <2>6. ASSUME NEW w \in Workers, Close(w)
          PROVE  worker'[v].keys = worker[v].keys /\ worker'[v].active \subseteq worker[v].active
      BY <2>6, CloseEffect DEF Only
    <2>7. ASSUME NEW w \in Workers, Receive(w), channel[w][1].type # "job"
          PROVE  worker'[v].keys = worker[v].keys /\ worker'[v].active \subseteq worker[v].active
      BY <2>7, ReceiveOtherEffect DEF Only
    <2>8. ASSUME NEW w \in Workers, Receive(w), channel[w][1].type = "job"
          PROVE  \/ JobsOf(v, k) # <<>> \/ k \in worker[v].active
                 \/ \E q \in DOMAIN channel[v] : JobAt(v, q) /\ KeyOf(channel[v][q].job) = k
      <3> DEFINE j == channel[w][1].job
      <3>1. /\ Only(w) /\ Taken(w) /\ JobAt(w, 1) /\ KeyOf(j) \in Keys
            /\ worker'[w].keys = [worker[w].keys EXCEPT ![KeyOf(j)] = Append(@, j)] /\ worker'[w].active = worker[w].active
        BY <2>8, ReceiveJobEffect
      <3>2. CASE v # w
        BY <1>2, <3>1, <3>2 DEF Only, JobsOf
      <3>3. CASE v = w /\ KeyOf(j) = k
        BY <3>1, <3>3 DEF Taken
      <3>4. CASE v = w /\ KeyOf(j) # k
        <4>1. worker[w].keys \in [Keys -> Seq(JobIds)]
          BY TypeFacts DEF WorkerState
        <4> HIDE DEF j
        <4>2. worker'[w].keys[k] = worker[w].keys[k]
          BY <3>1, <3>4, <4>1
        <4> QED BY <1>2, <3>1, <3>4, <4>2 DEF JobsOf
      <3> QED BY <3>2, <3>3, <3>4
    <2> QED BY <2>1, <2>2, <2>3, <2>4, <2>5, <2>6, <2>7, <2>8 DEF MovesJobs
  <1>3. ASSUME NEW d \in Dispatchers, Loaded(d)'
        PROVE  /\ dispatch'[d].job = dispatch[d].job /\ dispatch[d].at # "idle"
               /\ (Loaded(d) /\ dispatch'[d].worker = dispatch[d].worker) \/ LoadMapping(d)
    <2>0. dispatch'[d].at \in {"reserveKey", "reserveGlobal", "sending"}
      BY <1>3 DEF Loaded
    <2>1. CASE dispatch'[d] = dispatch[d]
      BY <2>0, <2>1 DEF Loaded
    <2>2. CASE WorkOnly
      BY <2>1, <2>2 DEF WorkOnly
    <2>3. ASSUME NEW j \in JobIds, BeginDispatch(j) PROVE dispatch'[d] = dispatch[d]
      BY <2>0, <2>3, BeginEffect
    <2>4. ASSUME NEW b \in Dispatchers, b # d, DispatchStep(b) \/ SendFails(b) \/ CancelDispatch(b) PROVE dispatch'[d] = dispatch[d]
      BY <2>4, CallWork
    <2>5. ASSUME DispatchStep(d) \/ SendFails(d) \/ CancelDispatch(d)
          PROVE  /\ dispatch'[d].job = dispatch[d].job /\ dispatch[d].at # "idle"
                 /\ (Loaded(d) /\ dispatch'[d].worker = dispatch[d].worker) \/ LoadMapping(d)
      <3>1. dispatch'[d].job = dispatch[d].job /\ dispatch[d].at # "idle"
        BY <2>0, <2>5, CallWork
      <3>2. CASE LoadMapping(d)
        BY <3>1, <3>2
      <3>3. CASE Reserve(d)
        <4>1. Loaded(d) /\ \E x \in {"reserveGlobal", "sending"} : dispatch' = [dispatch EXCEPT ![d].at = x]
          BY <3>3 DEF Reserve, Loaded
        <4>2. dispatch'[d].worker = dispatch[d].worker
          BY <4>1, GoesOnEffect
        <4> QED BY <3>1, <4>1, <4>2
      <3>4. CASE Send(d)
        BY <3>4, <2>0, SendEffect DEF GoesOn
      <3>5. CASE Returned(d)
        BY <3>5, <2>0, ReturnedEffect
      <3> QED BY <2>5, <3>2, <3>3, <3>4, <3>5 DEF DispatchStep, RefuseDraining, RefuseBudget, FinishDispatch, SendFails, CancelDispatch
    <2> QED BY <2>1, <2>2, <2>3, <2>4, <2>5, WorkerWork, OtherWork DEF KeyedNext
  <1> QED BY <1>1, <1>2, <1>3 DEF ComesFrom

\* What a remap does to the mapping.
RemapType == [at : {"idle", "waiting", "awaiting", "drained"}, call : 0 .. MaxRemaps, slot : Slots, target : Workers, old : Workers]
SlotType == [worker : 0 .. WorkerCount, draining : BOOLEAN]

\* The mapping of a slot decides the owner of its keys.
LEMMA SameOwner ==
    ASSUME NEW k, mapping'[KeySlot(k)].worker = mapping[KeySlot(k)].worker
    PROVE  Owner(k)' = Owner(k)
  BY DEF Owner, OwnerOf

LEMMA MappingEffect ==
    ASSUME KeyedTypeOK, [KeyedNext]_keyedVars
    PROVE  /\ (\A s \in Slots : mapping'[s].worker = mapping[s].worker) \/ \E r \in Remappers : FinishRemap(r)
           /\ \A r \in Remappers : FinishRemap(r) => \A s \in Slots \ {remap[r].slot} : mapping'[s] = mapping[s]
           /\ mapping' \in [Slots -> SlotType]
  <1>t. mapping \in [Slots -> SlotType] /\ remap \in [Remappers -> RemapType]
    BY DEF KeyedTypeOK, SlotType, RemapType
  <1>1. CASE UNCHANGED mapping
    BY <1>1, <1>t DEF FinishRemap
  <1>2. ASSUME NEW r \in Remappers, FinishRemap(r)
        PROVE  mapping' \in [Slots -> SlotType]
    <2>1. remap[r].slot \in Slots /\ remap[r].target + 1 \in 0 .. WorkerCount
      BY <1>t, LimitsAssumption DEF RemapType, Workers
    <2> QED BY <1>2, <1>t, <2>1 DEF FinishRemap, SlotType
  <1>3. ASSUME NEW s \in Slots, NEW b \in BOOLEAN, mapping' = [mapping EXCEPT ![s].draining = b]
        PROVE  mapping' \in [Slots -> SlotType] /\ \A x \in Slots : mapping'[x].worker = mapping[x].worker
    BY <1>3, <1>t DEF SlotType
  <1>4. ASSUME NEW r \in Remappers, NEW k \in Keys, NEW target \in Workers, BeginRemap(r, k, target)
        PROVE  mapping' \in [Slots -> SlotType] /\ \A x \in Slots : mapping'[x].worker = mapping[x].worker
    BY <1>3, <1>4, ConstantFacts DEF BeginRemap
  <1>5. ASSUME NEW r \in Remappers, AbortRemap(r)
        PROVE  mapping' \in [Slots -> SlotType] /\ \A x \in Slots : mapping'[x].worker = mapping[x].worker
    BY <1>3, <1>5, <1>t DEF AbortRemap, RemapType
  <1>6. \A r \in Remappers : FinishRemap(r) => \A s \in Slots \ {remap[r].slot} : mapping'[s] = mapping[s]
    BY <1>t DEF FinishRemap
  <1>7. ASSUME NEW j \in JobIds, BeginDispatch(j) PROVE UNCHANGED mapping
    BY <1>7 DEF BeginDispatch
  <1>8. ASSUME NEW d \in Dispatchers, DispatchStep(d) \/ SendFails(d) \/ CancelDispatch(d) PROVE UNCHANGED mapping
    BY <1>8 DEF DispatchStep, LoadMapping, RefuseDraining, Reserve, RefuseBudget, Send, FinishDispatch, SendFails, CancelDispatch
  <1>9. ASSUME NEW w \in Workers, WorkerStep(w) \/ \E j \in JobIds : Panic(w, j) PROVE UNCHANGED mapping
    BY <1>9 DEF WorkerStep, Start, Notify, Receive, Close, Complete, Panic
  <1>10. ASSUME NEW r \in Remappers, SendBarrier(r) \/ CancelRemap(r) PROVE UNCHANGED mapping
    BY <1>10 DEF SendBarrier, CancelRemap
  <1>11. ASSUME TryShutdown \/ UNCHANGED keyedVars PROVE UNCHANGED mapping
    BY <1>11 DEF TryShutdown, keyedVars
  <1> QED BY <1>1, <1>2, <1>4, <1>5, <1>6, <1>7, <1>8, <1>9, <1>10, <1>11 DEF KeyedNext, RemapStep

\* Nothing is left of a slot that is drained.
LEMMA Drained ==
    ASSUME KeyedInv, NEW r \in Remappers, remap[r].at = "drained", OneDefault(remap[r].slot)
    PROVE  /\ \A w \in Workers : \A p \in DOMAIN channel[w] : JobAt(w, p) => SlotAt(w, p) # remap[r].slot
           /\ \A w \in Workers, k \in Keys : KeySlot(k) = remap[r].slot => JobsOf(w, k) = <<>> /\ k \notin worker[w].active
           /\ \A d \in Dispatchers : Loaded(d) => SlotOf(d) # remap[r].slot
  <1> USE DEF KeyedInv
  <1>1. \A k \in Keys : KeySlot(k) = remap[r].slot => remap[r].old = Owner(k)
    BY DEF RemapInv
  <1>2. ASSUME NEW w \in Workers, NEW p \in DOMAIN channel[w], JobAt(w, p), SlotAt(w, p) = remap[r].slot PROVE FALSE
    <2>1. KeyOf(channel[w][p].job) \in Keys /\ KeySlot(KeyOf(channel[w][p].job)) = remap[r].slot
      BY <1>2, TypeFacts, ConstantFacts DEF SlotAt
    <2>2. w = remap[r].old
      BY <1>1, <1>2, <2>1 DEF OwnerInv
    <2> QED BY <1>2, <2>2 DEF RemapInv, Clear
  <1>3. ASSUME NEW w \in Workers, NEW k \in Keys, KeySlot(k) = remap[r].slot, JobsOf(w, k) # <<>> \/ k \in worker[w].active PROVE FALSE
    <2>1. w = remap[r].old
      BY <1>1, <1>3 DEF OwnerInv
    <2> QED BY <1>3, <2>1 DEF RemapInv, Clear
  <1>4. \A d \in Dispatchers : Loaded(d) => SlotOf(d) # remap[r].slot
    BY DEF RemapInv, NoneOnWay
  <1> QED BY <1>2, <1>3, <1>4

LEMMA OwnerKept ==
    ASSUME KeyedInv, [KeyedNext]_keyedVars
    PROVE  OwnerInv'
  <1> USE DEF KeyedInv
  <1>k. \A j \in JobIds : KeyOf(j) \in Keys /\ KeySlot(KeyOf(j)) \in Slots
    BY ConstantFacts
  <1>k2. \A k \in Keys : KeySlot(k) \in Slots
    BY ConstantFacts
  \* No key changes its owner while something is there.
  <1>1. ASSUME NEW k \in Keys, OneDefault(KeySlot(k)), ~\E r \in Remappers : FinishRemap(r) /\ remap[r].slot = KeySlot(k)
        PROVE  Owner(k)' = Owner(k)
    <2>1. mapping'[KeySlot(k)].worker = mapping[KeySlot(k)].worker
      BY <1>1, <1>k2, MappingEffect
    <2> QED BY <2>1, SameOwner
  <1>2. ASSUME NEW r \in Remappers, FinishRemap(r) PROVE OwnerInv'
    <2>1. remap[r].at = "drained" /\ UNCHANGED <<channel, worker, dispatch>>
      BY <1>2 DEF FinishRemap, dispatching
    <2>2. ASSUME NEW k \in Keys, KeySlot(k) # remap[r].slot PROVE Owner(k)' = Owner(k)
      <3>1. mapping'[KeySlot(k)].worker = mapping[KeySlot(k)].worker
        BY <1>2, <2>2, <1>k2, MappingEffect
      <3> QED BY <3>1, SameOwner
    <2>3. ASSUME NEW w \in Workers, NEW p \in DOMAIN channel'[w], JobAt(w, p)', OneDefault(SlotAt(w, p))'
          PROVE  w = Owner(KeyOf(channel[w][p].job))'
      <3>1. p \in DOMAIN channel[w] /\ JobAt(w, p) /\ OneDefault(SlotAt(w, p)) /\ channel'[w][p].job = channel[w][p].job /\ channel[w][p].job \in JobIds
        BY <2>1, <2>3, TypeFacts DEF JobAt, SlotAt, OneDefault
      <3>2. SlotAt(w, p) # remap[r].slot
        BY <2>1, <3>1, Drained
      <3>3. PICK k \in Keys : k = KeyOf(channel[w][p].job)
        BY <3>1, <1>k
      <3>4. w = Owner(k) /\ KeySlot(k) # remap[r].slot
        BY <3>1, <3>2, <3>3 DEF OwnerInv, SlotAt
      <3>5. w = Owner(k)'
        BY <3>4, <2>2
      <3> QED BY <3>1, <3>3, <3>5 DEF Owner
    <2>4. ASSUME NEW w \in Workers, NEW k \in Keys, OneDefault(KeySlot(k)), JobsOf(w, k)' # <<>> \/ k \in worker'[w].active
          PROVE  w = Owner(k)'
      <3>1. JobsOf(w, k) # <<>> \/ k \in worker[w].active
        BY <2>1, <2>4 DEF JobsOf
      <3>2. KeySlot(k) # remap[r].slot
        BY <2>1, <2>4, <3>1, Drained
      <3> QED BY <2>2, <2>4, <3>1, <3>2 DEF OwnerInv
    <2>5. ASSUME NEW d \in Dispatchers, Loaded(d)', OneDefault(SlotOf(d))'
          PROVE  dispatch'[d].worker = Owner(KeyOf(dispatch[d].job))'
      <3>1. Loaded(d) /\ OneDefault(SlotOf(d)) /\ dispatch'[d] = dispatch[d] /\ dispatch[d].at # "idle"
        BY <2>1, <2>5 DEF Loaded, SlotOf, OneDefault
      <3>2. PICK k \in Keys : k = KeyOf(dispatch[d].job)
        BY <3>1, CallFacts
      <3>3. KeySlot(k) # remap[r].slot
        BY <2>1, <3>1, <3>2, Drained DEF SlotOf
      <3>4. dispatch[d].worker = Owner(k)
        BY <3>1, <3>2 DEF OwnerInv
      <3>5. PICK o : o = Owner(k) /\ o = dispatch'[d].worker
        BY <3>1, <3>4
      <3>6. o = Owner(k)'
        BY <2>2, <3>3, <3>5
      <3> QED BY <3>1, <3>2, <3>5, <3>6 DEF Owner
    <2> QED BY <2>3, <2>4, <2>5 DEF OwnerInv, OneDefault
  <1>3. ASSUME ~\E r \in Remappers : FinishRemap(r) PROVE OwnerInv'
    <2>0. ComesFrom
      BY JobsComeFrom
    <2>2. ASSUME NEW k \in Keys PROVE Owner(k)' = Owner(k)
      <3>1. mapping'[KeySlot(k)].worker = mapping[KeySlot(k)].worker
        BY <1>3, <1>k2, MappingEffect
      <3> QED BY <3>1, SameOwner
    <2>3. ASSUME NEW w \in Workers, NEW p \in DOMAIN channel'[w], JobAt(w, p)', OneDefault(SlotAt(w, p))'
          PROVE  w = Owner(KeyOf(channel[w][p].job))'
      <3>1. \/ \E q \in DOMAIN channel[w] : JobAt(w, q) /\ channel[w][q].job = channel'[w][p].job
            \/ \E d \in Dispatchers : Loaded(d) /\ dispatch[d].worker = w /\ dispatch[d].job = channel'[w][p].job
        BY <2>0, <2>3 DEF ComesFrom
      <3>2. channel'[w][p].job \in JobIds
        BY <3>1, TypeFacts, CallFacts DEF Loaded
      <3>3. PICK j \in JobIds : j = channel'[w][p].job
        BY <3>2
      <3>4. PICK k \in Keys : k = KeyOf(j)
        BY <1>k
      <3>5. OneDefault(KeySlot(k))
        BY <2>3, <3>3, <3>4 DEF OneDefault, SlotAt
      <3>6. w = Owner(k)
        <4>1. CASE \E q \in DOMAIN channel[w] : JobAt(w, q) /\ channel[w][q].job = j
          BY <4>1, <3>4, <3>5 DEF OwnerInv, SlotAt
        <4>2. CASE \E d \in Dispatchers : Loaded(d) /\ dispatch[d].worker = w /\ dispatch[d].job = j
          BY <4>2, <3>4, <3>5 DEF OwnerInv, SlotOf
        <4> QED BY <3>1, <3>3, <4>1, <4>2
      <3>7. w = Owner(k)'
        BY <3>6, <2>2
      <3> QED BY <3>3, <3>4, <3>7 DEF Owner
    <2>4. ASSUME NEW w \in Workers, NEW k \in Keys, OneDefault(KeySlot(k)), JobsOf(w, k)' # <<>> \/ k \in worker'[w].active
          PROVE  w = Owner(k)'
      <3>1. \/ JobsOf(w, k) # <<>> \/ k \in worker[w].active
            \/ \E q \in DOMAIN channel[w] : JobAt(w, q) /\ KeyOf(channel[w][q].job) = k
        BY <2>0, <2>4 DEF ComesFrom
      <3>2. w = Owner(k)
        BY <2>4, <3>1 DEF OwnerInv, SlotAt
      <3> QED BY <2>2, <3>2
    <2>5. ASSUME NEW d \in Dispatchers, Loaded(d)', OneDefault(SlotOf(d))'
          PROVE  dispatch'[d].worker = Owner(KeyOf(dispatch[d].job))'
      <3>1. /\ dispatch'[d].job = dispatch[d].job /\ dispatch[d].at # "idle"
            /\ (Loaded(d) /\ dispatch'[d].worker = dispatch[d].worker) \/ LoadMapping(d)
        BY <2>0, <2>5 DEF ComesFrom
      <3>2. PICK k \in Keys : k = KeyOf(dispatch[d].job)
        BY <3>1, CallFacts
      <3>3. OneDefault(SlotOf(d))
        BY <2>5, <3>1 DEF OneDefault, SlotOf
      <3>4. dispatch'[d].worker = Owner(k)
        BY <3>1, <3>2, <3>3, LoadEffect DEF OwnerInv
      <3>5. PICK o : o = Owner(k) /\ o = dispatch'[d].worker
        BY <3>4
      <3>6. o = Owner(k)'
        BY <2>2, <3>5
      <3> QED BY <3>1, <3>2, <3>5, <3>6 DEF Owner
    <2> QED BY <2>3, <2>4, <2>5 DEF OwnerInv, OneDefault
  <1> QED BY <1>2, <1>3

-----------------------------------------------------------------------------
(* Remaps and their barriers: RemapInv, BarrierInv.                        *)

LEMMA ClearStays ==
    ASSUME KeyedInv, [KeyedNext]_keyedVars, NEW w \in Workers, NEW s \in Slots, NoneOnWay(s), mapping[s].draining
    PROVE  NoneOnWay(s)' /\ (Clear(w, s) => Clear(w, s)')
  <1>0. ComesFrom /\ KeyedTypeOK /\ DispatchInv
    BY JobsComeFrom DEF KeyedInv
  <1>1. ASSUME NEW d \in Dispatchers, Loaded(d)' PROVE SlotOf(d)' # s
    <2>1. /\ dispatch'[d].job = dispatch[d].job
          /\ Loaded(d) \/ LoadMapping(d)
      BY <1>0, <1>1 DEF ComesFrom
    <2>2. SlotOf(d)' = SlotOf(d)
      BY <2>1 DEF SlotOf
    <2>3. SlotOf(d) # s
      BY <2>1, <1>0, LoadEffect DEF NoneOnWay
    <2> QED BY <2>2, <2>3
  <1>2. ASSUME Clear(w, s), NEW p \in DOMAIN channel'[w], JobAt(w, p)' PROVE SlotAt(w, p)' # s
    <2>1. \/ \E q \in DOMAIN channel[w] : JobAt(w, q) /\ channel[w][q].job = channel'[w][p].job
          \/ \E d \in Dispatchers : Loaded(d) /\ dispatch[d].worker = w /\ dispatch[d].job = channel'[w][p].job
      BY <1>0, <1>2 DEF ComesFrom
    <2>2. CASE \E q \in DOMAIN channel[w] : JobAt(w, q) /\ channel[w][q].job = channel'[w][p].job
      BY <1>2, <2>2 DEF Clear, SlotAt
    <2>3. CASE \E d \in Dispatchers : Loaded(d) /\ dispatch[d].worker = w /\ dispatch[d].job = channel'[w][p].job
      BY <2>3 DEF NoneOnWay, SlotAt, SlotOf
    <2> QED BY <2>1, <2>2, <2>3
  <1>3. ASSUME Clear(w, s), NEW k \in Keys, KeySlot(k) = s PROVE JobsOf(w, k)' = <<>> /\ k \notin worker'[w].active
    <2>1. SUFFICES ASSUME JobsOf(w, k)' # <<>> \/ k \in worker'[w].active PROVE FALSE
      OBVIOUS
    <2>2. \/ JobsOf(w, k) # <<>> \/ k \in worker[w].active
          \/ \E q \in DOMAIN channel[w] : JobAt(w, q) /\ KeyOf(channel[w][q].job) = k
      BY <1>0, <2>1 DEF ComesFrom
    <2> QED BY <1>3, <2>2 DEF Clear, SlotAt
  <1> QED BY <1>1, <1>2, <1>3 DEF NoneOnWay, Clear

\* remap[r] is over, others go on; at most r's slot is mapped anew.
RemapEnds(r) ==
    /\ remap' \in [Remappers -> RemapType] /\ remap'[r].at = "idle" /\ \A o \in Remappers \ {r} : remap'[o] = remap[o]
    /\ remap[r].at # "idle" /\ UNCHANGED <<remaps, dispatch, channel, worker>>
    /\ \A s \in Slots \ {remap[r].slot} : mapping'[s] = mapping[s]

LEMMA RemapEndEffect ==
    ASSUME KeyedTypeOK, NEW r \in Remappers, FinishRemap(r) \/ AbortRemap(r) \/ CancelRemap(r)
    PROVE  RemapEnds(r)
  <1>1. remap \in [Remappers -> RemapType] /\ mapping \in [Slots -> SlotType]
    BY DEF KeyedTypeOK, RemapType, SlotType
  <1>2. NoRemap \in RemapType /\ NoRemap.at = "idle"
    BY ConstantFacts DEF NoRemap, RemapType
  <1>3. remap' = [remap EXCEPT ![r] = NoRemap] /\ remap[r].at # "idle" /\ UNCHANGED <<remaps, dispatch, channel, worker>>
    BY DEF FinishRemap, AbortRemap, CancelRemap, dispatching
  <1>4. remap' \in [Remappers -> RemapType] /\ remap'[r].at = "idle" /\ \A o \in Remappers \ {r} : remap'[o] = remap[o]
    BY <1>1, <1>2, <1>3
  <1>5. \A s \in Slots \ {remap[r].slot} : mapping'[s] = mapping[s]
    BY <1>1 DEF FinishRemap, AbortRemap, CancelRemap
  <1> QED BY <1>3, <1>4, <1>5 DEF RemapEnds

\* remap[r] begins on slot s, which nobody drains.
RemapBegins(r, k, target) ==
    /\ remap' \in [Remappers -> RemapType] /\ \A o \in Remappers \ {r} : remap'[o] = remap[o]
    /\ remap[r].at = "idle" /\ remap'[r].at = "waiting" /\ remap'[r].call = remaps + 1 /\ remaps + 1 \in 1 .. MaxRemaps
    /\ remap'[r].slot = KeySlot(k) /\ remap'[r].old = Owner(k) /\ remaps' = remaps + 1
    /\ ~mapping[KeySlot(k)].draining /\ mapping'[KeySlot(k)].draining
    /\ mapping' \in [Slots -> SlotType] /\ \A s \in Slots \ {KeySlot(k)} : mapping'[s] = mapping[s]
    /\ \A s \in Slots : mapping'[s].worker = mapping[s].worker
    /\ UNCHANGED <<dispatch, channel, worker>>

LEMMA RemapBeginEffect ==
    ASSUME KeyedTypeOK, NEW r \in Remappers, NEW k \in Keys, NEW target \in Workers, BeginRemap(r, k, target)
    PROVE  RemapBegins(r, k, target)
  <1>1. remap \in [Remappers -> RemapType] /\ mapping \in [Slots -> SlotType] /\ remaps \in 0 .. MaxRemaps /\ MaxRemaps \in Nat
    BY LimitsAssumption DEF KeyedTypeOK, RemapType, SlotType
  <1>2. KeySlot(k) \in Slots /\ Owner(k) \in Workers /\ k \in Nat
    BY <1>1, ConstantFacts DEF Owner, SlotType
  <1>3. /\ remap[r].at = "idle" /\ remaps < MaxRemaps /\ ~mapping[KeySlot(k)].draining /\ remaps' = remaps + 1
        /\ mapping' = [mapping EXCEPT ![KeySlot(k)].draining = TRUE]
        /\ remap' = [remap EXCEPT ![r] = [at |-> "waiting", call |-> remaps + 1, slot |-> KeySlot(k), target |-> target, old |-> Owner(k)]]
        /\ UNCHANGED <<dispatch, channel, worker>>
    BY DEF BeginRemap, Owner, dispatching
  <1>4. [at |-> "waiting", call |-> remaps + 1, slot |-> KeySlot(k), target |-> target, old |-> Owner(k)] \in RemapType
        /\ remaps + 1 \in 1 .. MaxRemaps
    BY <1>1, <1>2, <1>3 DEF RemapType
  <1>5. /\ remap' \in [Remappers -> RemapType] /\ \A o \in Remappers \ {r} : remap'[o] = remap[o]
        /\ remap'[r].at = "waiting" /\ remap'[r].call = remaps + 1 /\ remap'[r].slot = KeySlot(k) /\ remap'[r].old = Owner(k)
    BY <1>1, <1>3, <1>4
  <1>6. /\ mapping'[KeySlot(k)] = [mapping[KeySlot(k)] EXCEPT !.draining = TRUE] /\ \A s \in Slots \ {KeySlot(k)} : mapping'[s] = mapping[s]
        /\ mapping' \in [Slots -> SlotType]
    BY <1>1, <1>2, <1>3 DEF SlotType
  <1>7. mapping'[KeySlot(k)].draining /\ mapping'[KeySlot(k)].worker = mapping[KeySlot(k)].worker
    BY <1>1, <1>2, <1>6 DEF SlotType
  <1> QED BY <1>3, <1>4, <1>5, <1>6, <1>7 DEF RemapBegins

\* remap[r] waits for its barrier; or worker w answers those that it has.
LEMMA BarrierEffect ==
    ASSUME KeyedTypeOK, RemapInv, NEW r \in Remappers, SendBarrier(r)
    PROVE  /\ remap' \in [Remappers -> RemapType] /\ \A o \in Remappers \ {r} : remap'[o] = remap[o]
           /\ remap[r].at = "waiting" /\ remap'[r].at = "awaiting" /\ remap'[r].call = remap[r].call /\ remap'[r].slot = remap[r].slot
           /\ remap'[r].old = remap[r].old /\ inflight[remap[r].slot] = 0 /\ UNCHANGED <<dispatch, worker, mapping, remaps>>
           /\ Pushed(remap[r].old, [type |-> "barrier", slot |-> remap[r].slot, call |-> remap[r].call])
  <1>1. remap \in [Remappers -> RemapType] /\ remap[r] \in RemapType /\ remaps \in 0 .. MaxRemaps /\ MaxRemaps \in Nat
    BY LimitsAssumption DEF KeyedTypeOK, RemapType
  <1>2. /\ remap[r].at = "waiting" /\ inflight[remap[r].slot] = 0 /\ UNCHANGED <<dispatch, worker, mapping, remaps>>
        /\ remap' = [remap EXCEPT ![r].at = "awaiting"]
        /\ channel' = [channel EXCEPT ![remap[r].old] = Append(@, [type |-> "barrier", slot |-> remap[r].slot, call |-> remap[r].call])]
    BY DEF SendBarrier, dispatching
  <1>3. remap'[r] = [remap[r] EXCEPT !.at = "awaiting"] /\ \A o \in Remappers \ {r} : remap'[o] = remap[o]
    BY <1>1, <1>2
  <1>4. /\ remap'[r].at = "awaiting" /\ remap'[r].call = remap[r].call /\ remap'[r].slot = remap[r].slot /\ remap'[r].old = remap[r].old
        /\ remap'[r] \in RemapType
    BY <1>1, <1>3 DEF RemapType
  <1>5. remap[r].call \in 1 .. MaxRemaps
    BY <1>1, <1>2 DEF RemapInv
  <1>6. [type |-> "barrier", slot |-> remap[r].slot, call |-> remap[r].call] \in Message /\ remap[r].old \in Workers
    BY <1>1, <1>5 DEF Message, RemapType
  <1>7. Pushed(remap[r].old, [type |-> "barrier", slot |-> remap[r].slot, call |-> remap[r].call])
    BY <1>2, <1>6, PushEffect
  <1>8. remap' \in [Remappers -> RemapType]
    BY <1>1, <1>2, <1>3, <1>4
  <1> QED BY <1>2, <1>3, <1>4, <1>7, <1>8

LEMMA AnswerEffect ==
    ASSUME KeyedTypeOK, BarrierInv, NEW w \in Workers, Notify(w)
    PROVE  /\ remap' \in [Remappers -> RemapType] /\ UNCHANGED <<dispatch, channel, mapping, remaps>>
           /\ \A r \in Remappers : \/ remap'[r] = remap[r]
                                   \/ /\ remap[r].at = "awaiting" /\ remap'[r].at = "drained" /\ remap'[r].call = remap[r].call
                                      /\ remap'[r].slot = remap[r].slot /\ remap'[r].old = remap[r].old
                                      /\ Clear(remap[r].old, remap[r].slot)
  <1> DEFINE drained == {b \in worker[w].barriers : ~Busy(w, b.slot)}
  <1>1. remap \in [Remappers -> RemapType]
    BY DEF KeyedTypeOK, RemapType
  <1>2. /\ UNCHANGED <<dispatch, channel, mapping, remaps>>
        /\ remap' = [r \in Remappers |-> IF remap[r].at = "awaiting" /\ \E b \in drained : b.call = remap[r].call
                                         THEN [remap[r] EXCEPT !.at = "drained"] ELSE remap[r]]
    BY DEF Notify, dispatching
  <1>3. \A r \in Remappers : [remap[r] EXCEPT !.at = "drained"] \in RemapType
    BY <1>1 DEF RemapType
  <1>4. remap' \in [Remappers -> RemapType]
    BY <1>1, <1>2, <1>3
  <1>5. ASSUME NEW r \in Remappers, remap'[r] # remap[r]
        PROVE  /\ remap[r].at = "awaiting" /\ remap'[r].at = "drained" /\ remap'[r].call = remap[r].call
               /\ remap'[r].slot = remap[r].slot /\ remap'[r].old = remap[r].old
               /\ Clear(remap[r].old, remap[r].slot)
    <2>1. remap[r].at = "awaiting" /\ (\E b \in drained : b.call = remap[r].call) /\ remap'[r] = [remap[r] EXCEPT !.at = "drained"]
      BY <1>2, <1>5
    <2>2. /\ remap'[r].at = "drained" /\ remap'[r].call = remap[r].call
          /\ remap'[r].slot = remap[r].slot /\ remap'[r].old = remap[r].old
      BY <1>1, <2>1 DEF RemapType
    <2>3. PICK b \in worker[w].barriers : ~Busy(w, b.slot) /\ b.call = remap[r].call
      BY <2>1
    <2>4. remap[r].slot = b.slot /\ remap[r].old = w /\ \A q \in DOMAIN channel[w] : JobAt(w, q) => SlotAt(w, q) # remap[r].slot
      BY <2>1, <2>3 DEF BarrierInv, BarrierOf
    <2>5. \A k \in Keys : KeySlot(k) = b.slot => JobsOf(w, k) = <<>> /\ k \notin worker[w].active
      BY <2>3 DEF Busy
    <2>6. Clear(w, b.slot)
      BY <2>4, <2>5 DEF Clear
    <2> QED BY <2>1, <2>2, <2>4, <2>6
  <1> QED BY <1>2, <1>4, <1>5

\* No call is counted in a slot whose counter is zero.
LEMMA NoneCounted ==
    ASSUME KeyedTypeOK, DispatchInv, CountInv, NEW s \in Slots, inflight[s] = 0
    PROVE  \A d \in Dispatchers : dispatch[d].at # "idle" => SlotOf(d) # s
  <1>1. IsFiniteSet(Counted(s))
    BY ConstantFacts, FS_Subset DEF Counted
  <1>2. Cardinality(Counted(s)) <= 0 /\ Cardinality(Counted(s)) \in Nat
    BY <1>1, FS_CardinalityType DEF CountInv
  <1>3. Counted(s) = {}
    BY <1>1, <1>2, FS_EmptySet
  <1> QED BY <1>3 DEF Counted

\* A remap under way stays what it is: once no call is counted it may wait for its barrier, once its slot is clear it may be drained.
RemapStays(r) ==
    /\ remap[r].at # "idle" /\ remap'[r].call = remap[r].call /\ remap'[r].slot = remap[r].slot /\ remap'[r].old = remap[r].old
    /\ mapping'[remap[r].slot] = mapping[remap[r].slot]
    /\ remap'[r].at \in {"awaiting", "drained"} => remap[r].at \in {"awaiting", "drained"} \/ inflight[remap[r].slot] = 0
    /\ remap'[r].at = "drained" => remap[r].at \in {"awaiting", "drained"} /\ Clear(remap[r].old, remap[r].slot)
    /\ remap[r].at # "waiting" => remap'[r].at # "waiting"

LEMMA RemapSteps ==
    ASSUME KeyedInv, [KeyedNext]_keyedVars
    PROVE  /\ remaps' \in Nat /\ (remaps' = remaps \/ remaps' = remaps + 1) /\ remaps \in Nat
           /\ remap' \in [Remappers -> RemapType]
           /\ \A r \in Remappers : remap'[r].at # "idle" =>
                RemapStays(r) \/ \E k \in Keys, target \in Workers : RemapBegins(r, k, target)
  <1> USE DEF KeyedInv
  <1>t. remap \in [Remappers -> RemapType] /\ remaps \in Nat
    BY TypeFacts DEF KeyedTypeOK, RemapType
  <1>s. ASSUME NEW r \in Remappers, remap[r].at # "idle", remap'[r] = remap[r], mapping'[remap[r].slot] = mapping[remap[r].slot]
        PROVE  RemapStays(r)
    BY <1>s DEF RemapStays, RemapInv
  <1>1. CASE UNCHANGED <<remap, mapping, remaps>>
    BY <1>1, <1>t, <1>s
  <1>2. ASSUME NEW w \in Workers, Notify(w)
        PROVE  /\ remap' \in [Remappers -> RemapType] /\ remaps' = remaps
               /\ \A r \in Remappers : remap'[r].at # "idle" => RemapStays(r)
    <2>1. remap' \in [Remappers -> RemapType] /\ UNCHANGED <<mapping, remaps>>
      BY <1>2, AnswerEffect
    <2>2. ASSUME NEW r \in Remappers, remap'[r].at # "idle" PROVE RemapStays(r)
      <3>1. CASE remap'[r] = remap[r]
        BY <2>1, <2>2, <3>1, <1>s
      <3>2. CASE /\ remap[r].at = "awaiting" /\ remap'[r].at = "drained" /\ remap'[r].call = remap[r].call
                 /\ remap'[r].slot = remap[r].slot /\ remap'[r].old = remap[r].old
                 /\ Clear(remap[r].old, remap[r].slot)
        BY <2>1, <3>2 DEF RemapStays
      <3> QED BY <1>2, <3>1, <3>2, AnswerEffect
    <2> QED BY <2>1, <2>2
  <1>3. ASSUME NEW r \in Remappers, NEW k \in Keys, NEW target \in Workers, BeginRemap(r, k, target)
        PROVE  /\ remap' \in [Remappers -> RemapType] /\ remaps' = remaps + 1
               /\ \A o \in Remappers : remap'[o].at # "idle" => RemapStays(o) \/ RemapBegins(o, k, target)
    <2>1. RemapBegins(r, k, target)
      BY <1>3, RemapBeginEffect
    <2>2. ASSUME NEW o \in Remappers \ {r}, remap'[o].at # "idle" PROVE RemapStays(o)
      <3>1. remap'[o] = remap[o] /\ ~mapping[KeySlot(k)].draining /\ \A s \in Slots \ {KeySlot(k)} : mapping'[s] = mapping[s]
        BY <2>1, <2>2 DEF RemapBegins
      <3>2. mapping[remap[o].slot].draining /\ remap[o].slot \in Slots
        BY <2>2, <3>1, <1>t DEF RemapInv, RemapType
      <3> QED BY <2>2, <3>1, <3>2, <1>s
    <2> QED BY <2>1, <2>2 DEF RemapBegins
  <1>4. ASSUME NEW r \in Remappers, SendBarrier(r)
        PROVE  /\ remap' \in [Remappers -> RemapType] /\ remaps' = remaps
               /\ \A o \in Remappers : remap'[o].at # "idle" => RemapStays(o)
    <2>1. /\ remap' \in [Remappers -> RemapType] /\ \A o \in Remappers \ {r} : remap'[o] = remap[o]
          /\ remap[r].at = "waiting" /\ remap'[r].at = "awaiting" /\ remap'[r].call = remap[r].call /\ remap'[r].slot = remap[r].slot
          /\ remap'[r].old = remap[r].old /\ inflight[remap[r].slot] = 0 /\ UNCHANGED <<mapping, remaps>>
      BY <1>4, BarrierEffect
    <2>2. RemapStays(r)
      BY <2>1 DEF RemapStays
    <2>3. \A o \in Remappers \ {r} : remap'[o].at # "idle" => RemapStays(o)
      BY <2>1, <1>s
    <2> QED BY <2>1, <2>2, <2>3
  <1>5. ASSUME NEW r \in Remappers, FinishRemap(r) \/ AbortRemap(r) \/ CancelRemap(r)
        PROVE  /\ remap' \in [Remappers -> RemapType] /\ remaps' = remaps
               /\ \A o \in Remappers : remap'[o].at # "idle" => RemapStays(o)
    <2>1. RemapEnds(r)
      BY <1>5, RemapEndEffect
    <2>2. ASSUME NEW o \in Remappers, remap'[o].at # "idle" PROVE RemapStays(o)
      <3>1. o # r /\ remap'[o] = remap[o] /\ remap[r].at # "idle"
        BY <2>1, <2>2 DEF RemapEnds
      <3>2. remap[o].slot # remap[r].slot /\ remap[o].slot \in Slots
        BY <2>2, <3>1, <1>t DEF RemapInv, RemapType
      <3>3. mapping'[remap[o].slot] = mapping[remap[o].slot]
        BY <2>1, <3>2 DEF RemapEnds
      <3> QED BY <2>2, <3>1, <3>3, <1>s
    <2> QED BY <2>1, <2>2 DEF RemapEnds
  <1>7. ASSUME NEW j \in JobIds, BeginDispatch(j) PROVE UNCHANGED <<remap, mapping, remaps>>
    BY <1>7 DEF BeginDispatch
  <1>8. ASSUME NEW d \in Dispatchers, DispatchStep(d) \/ SendFails(d) \/ CancelDispatch(d) PROVE UNCHANGED <<remap, mapping, remaps>>
    BY <1>8 DEF DispatchStep, LoadMapping, RefuseDraining, Reserve, RefuseBudget, Send, FinishDispatch, SendFails, CancelDispatch
  <1>9. ASSUME NEW w \in Workers, (WorkerStep(w) /\ ~Notify(w)) \/ \E j \in JobIds : Panic(w, j) PROVE UNCHANGED <<remap, mapping, remaps>>
    BY <1>9 DEF WorkerStep, Start, Receive, Close, Complete, Panic
  <1>11. ASSUME TryShutdown \/ UNCHANGED keyedVars PROVE UNCHANGED <<remap, mapping, remaps>>
    BY <1>11 DEF TryShutdown, keyedVars
  <1> QED BY <1>t, <1>1, <1>2, <1>3, <1>4, <1>5, <1>7, <1>8, <1>9, <1>11 DEF KeyedNext, RemapStep, WorkerStep

LEMMA RemapKept ==
    ASSUME KeyedInv, [KeyedNext]_keyedVars
    PROVE  RemapInv'
  <1> USE DEF KeyedInv
  <1>t. remap \in [Remappers -> RemapType]
    BY DEF KeyedTypeOK, RemapType
  <1>r. /\ remaps' \in Nat /\ (remaps' = remaps \/ remaps' = remaps + 1) /\ remaps \in Nat
        /\ \A r \in Remappers : remap'[r].at # "idle" =>
                RemapStays(r) \/ \E k \in Keys, target \in Workers : RemapBegins(r, k, target)
    BY RemapSteps
  <1>1. ASSUME NEW r \in Remappers, remap'[r].at # "idle"
        PROVE  /\ mapping'[remap'[r].slot].draining /\ remap'[r].call \in 1 .. remaps'
               /\ OneDefault(remap'[r].slot) => \A k \in Keys : KeySlot(k) = remap'[r].slot => remap'[r].old = Owner(k)'
    <2>1. CASE RemapStays(r)
      <3>1. /\ remap[r].at # "idle" /\ remap'[r].call = remap[r].call /\ remap'[r].slot = remap[r].slot /\ remap'[r].old = remap[r].old
            /\ mapping'[remap[r].slot] = mapping[remap[r].slot]
        BY <2>1 DEF RemapStays
      <3>2. mapping'[remap'[r].slot].draining /\ remap'[r].call \in 1 .. remaps'
        BY <3>1, <1>r DEF RemapInv
      <3>3. ASSUME OneDefault(remap'[r].slot), NEW k \in Keys, KeySlot(k) = remap'[r].slot PROVE remap'[r].old = Owner(k)'
        <4>1. remap[r].old = Owner(k)
          BY <3>1, <3>3 DEF RemapInv
        <4>2. PICK o : o = Owner(k) /\ o = remap'[r].old
          BY <3>1, <4>1
        <4>3. o = Owner(k)'
          BY <3>1, <3>3, <4>2, SameOwner
        <4> QED BY <4>2, <4>3
      <3> QED BY <3>2, <3>3
    <2>2. ASSUME NEW k \in Keys, NEW target \in Workers, RemapBegins(r, k, target)
          PROVE  /\ mapping'[remap'[r].slot].draining /\ remap'[r].call \in 1 .. remaps'
                 /\ OneDefault(remap'[r].slot) => \A m \in Keys : KeySlot(m) = remap'[r].slot => remap'[r].old = Owner(m)'
      <3>1. mapping'[remap'[r].slot].draining /\ remap'[r].call \in 1 .. remaps'
        BY <2>2, <1>r DEF RemapBegins
      <3>2. ASSUME OneDefault(remap'[r].slot), NEW m \in Keys, KeySlot(m) = remap'[r].slot PROVE remap'[r].old = Owner(m)'
        <4>1. KeySlot(m) = KeySlot(k) /\ remap'[r].old = Owner(k) /\ mapping'[KeySlot(m)].worker = mapping[KeySlot(m)].worker
          BY <2>2, <3>2, ConstantFacts DEF RemapBegins
        <4>2. m % WorkerCount = k % WorkerCount
          BY <2>2, <3>2, <4>1 DEF OneDefault
        <4>3. Owner(m) = Owner(k)
          BY <4>1, <4>2 DEF Owner, OwnerOf
        <4>4. PICK o : o = Owner(m) /\ o = remap'[r].old
          BY <4>1, <4>3
        <4>5. o = Owner(m)'
          BY <4>1, <4>4, SameOwner
        <4> QED BY <4>4, <4>5
      <3> QED BY <3>1, <3>2
    <2> QED BY <1>1, <1>r, <2>1, <2>2
  <1>2. ASSUME NEW r \in Remappers, NEW o \in Remappers, r # o, remap'[r].at # "idle", remap'[o].at # "idle"
        PROVE  remap'[r].slot # remap'[o].slot /\ remap'[r].call # remap'[o].call
    <2>1. ASSUME NEW a \in Remappers, NEW b \in Remappers, a # b, NEW k \in Keys, NEW target \in Workers, RemapBegins(a, k, target), remap'[b].at # "idle"
          PROVE  remap'[a].slot # remap'[b].slot /\ remap'[a].call # remap'[b].call
      <3>1. remap'[b] = remap[b]
        BY <2>1 DEF RemapBegins
      <3>2. mapping[remap[b].slot].draining /\ remap[b].call \in 1 .. remaps
        BY <2>1, <3>1 DEF RemapInv
      <3> QED BY <2>1, <3>1, <3>2, <1>r DEF RemapBegins
    <2>2. CASE RemapStays(r) /\ RemapStays(o)
      BY <1>2, <2>2 DEF RemapStays, RemapInv
    <2> QED BY <1>2, <1>r, <2>1, <2>2
  <1>3. ASSUME NEW r \in Remappers, remap'[r].at \in {"awaiting", "drained"}
        PROVE  NoneOnWay(remap[r].slot)' /\ (remap'[r].at = "drained" => Clear(remap[r].old, remap[r].slot)')
    <2>1. RemapStays(r)
      BY <1>3, <1>r DEF RemapBegins
    <2>2. PICK w \in Workers, s \in Slots : w = remap[r].old /\ s = remap[r].slot
      BY <1>t DEF RemapType
    <2>3. w = remap'[r].old /\ s = remap'[r].slot /\ remap[r].at # "idle" /\ mapping[s].draining
      BY <2>1, <2>2 DEF RemapStays, RemapInv
    <2>4. NoneOnWay(s)
      <3>1. CASE remap[r].at \in {"awaiting", "drained"}
        BY <2>2, <3>1 DEF RemapInv
      <3>2. CASE inflight[s] = 0
        BY <3>2, NoneCounted DEF NoneOnWay, Loaded
      <3> QED BY <1>3, <2>1, <2>2, <3>1, <3>2 DEF RemapStays
    <2>5. remap'[r].at = "drained" => Clear(w, s)
      BY <2>1, <2>2 DEF RemapStays
    <2>6. NoneOnWay(s)' /\ (Clear(w, s) => Clear(w, s)')
      BY <2>3, <2>4, ClearStays
    <2>7. NoneOnWay(remap[r].slot)'
      BY <2>3, <2>6 DEF NoneOnWay
    <2>8. ASSUME remap'[r].at = "drained" PROVE Clear(remap[r].old, remap[r].slot)'
      <3>1. Clear(w, s)'
        BY <2>5, <2>6, <2>8
      <3> QED BY <2>3, <3>1 DEF Clear, JobAt, SlotAt, JobsOf
    <2> QED BY <2>7, <2>8
  <1> QED BY <1>1, <1>2, <1>3 DEF RemapInv, OneDefault

LEMMA BarrierKept ==
    ASSUME KeyedInv, [KeyedNext]_keyedVars
    PROVE  BarrierInv'
  <1> USE DEF KeyedInv
  <1>t. remap \in [Remappers -> RemapType]
    BY DEF KeyedTypeOK, RemapType
  <1>r. /\ remaps' \in Nat /\ (remaps' = remaps \/ remaps' = remaps + 1) /\ remaps \in Nat
        /\ \A r \in Remappers : remap'[r].at # "idle" =>
                RemapStays(r) \/ \E k \in Keys, target \in Workers : RemapBegins(r, k, target)
    BY RemapSteps
  \* The remap of a call that has begun is the one it was.
  <1>1. ASSUME NEW w \in Workers, NEW s \in Slots, NEW c \in Nat, BarrierOf(w, s, c)
        PROVE  BarrierOf(w, s, c)' /\ \A r \in Remappers : remap'[r].at # "idle" /\ remap'[r].call = c =>
                 RemapStays(r) /\ remap[r].at \in {"awaiting", "drained"} /\ remap[r].call = c /\ remap[r].slot = s /\ remap'[r].slot = s
    <2>1. c <= remaps'
      BY <1>1, <1>r DEF BarrierOf
    <2>2. ASSUME NEW r \in Remappers, remap'[r].at # "idle", remap'[r].call = c
          PROVE  /\ RemapStays(r) /\ remap[r].at \in {"awaiting", "drained"} /\ remap[r].call = c /\ remap[r].slot = s /\ remap'[r].slot = s
                 /\ remap'[r].at # "waiting" /\ remap'[r].old = w
      <3>1. RemapStays(r)
        BY <1>1, <1>r, <2>2 DEF BarrierOf, RemapBegins
      <3>2. remap[r].at # "idle" /\ remap[r].call = c
        BY <2>2, <3>1 DEF RemapStays
      <3>3. remap[r].at # "waiting" /\ remap[r].slot = s /\ remap[r].old = w
        BY <1>1, <3>2 DEF BarrierOf
      <3>4. remap[r].at \in {"awaiting", "drained"}
        BY <1>t, <3>2, <3>3 DEF RemapType
      <3> QED BY <3>1, <3>2, <3>3, <3>4 DEF RemapStays
    <2> QED BY <2>1, <2>2 DEF BarrierOf
  <1>m. \A w \in Workers : \A p \in DOMAIN channel[w] : channel[w][p].type = "barrier" =>
          channel[w][p].slot \in Slots /\ channel[w][p].call \in Nat /\ BarrierOf(w, channel[w][p].slot, channel[w][p].call)
    <2>1. \A m \in Message : m.type = "barrier" => m.slot \in Slots /\ m.call \in Nat
      BY LimitsAssumption DEF Message
    <2> QED BY <2>1, TypeFacts DEF BarrierInv
  <1>b. \A w \in Workers : \A b \in worker[w].barriers : b.slot \in Slots /\ b.call \in Nat /\ BarrierOf(w, b.slot, b.call)
    <2>1. \A w \in Workers : worker[w].barriers \subseteq [slot : Slots, call : 1 .. MaxRemaps]
      BY TypeFacts DEF WorkerState
    <2> QED BY <2>1, LimitsAssumption DEF BarrierInv
  \* A job that comes into the channel is not of a slot whose barrier is there.
  <1>2. ASSUME NEW d \in Dispatchers, Loaded(d), NEW r \in Remappers, remap[r].at \in {"awaiting", "drained"}
        PROVE  SlotOf(d) # remap[r].slot
    BY <1>2 DEF RemapInv, NoneOnWay
  <1>3. ASSUME NEW w \in Workers, NEW p \in DOMAIN channel'[w], channel'[w][p].type = "barrier"
        PROVE  /\ BarrierOf(w, channel[w][p].slot, channel[w][p].call)'
               /\ \A r \in Remappers : remap'[r].at # "idle" /\ remap'[r].call = channel'[w][p].call =>
                    \A q \in DOMAIN channel'[w] : JobAt(w, q)' /\ q > p => SlotAt(w, q)' # remap'[r].slot
    \* An old barrier, at position q0 before.
    <2>1. ASSUME NEW q0 \in DOMAIN channel[w], channel[w][q0] = channel'[w][p],
                 \A q \in DOMAIN channel'[w] : JobAt(w, q)' /\ q > p =>
                   \/ \E x \in DOMAIN channel[w] : channel[w][x] = channel'[w][q] /\ x > q0
                   \/ \E d \in Dispatchers : Loaded(d) /\ dispatch[d].job = channel'[w][q].job
          PROVE  /\ BarrierOf(w, channel[w][p].slot, channel[w][p].call)'
                 /\ \A r \in Remappers : remap'[r].at # "idle" /\ remap'[r].call = channel'[w][p].call =>
                      \A q \in DOMAIN channel'[w] : JobAt(w, q)' /\ q > p => SlotAt(w, q)' # remap'[r].slot
      <3>1. PICK s \in Slots, c \in Nat : s = channel[w][q0].slot /\ c = channel[w][q0].call /\ BarrierOf(w, s, c)
        BY <1>3, <2>1, <1>m
      <3>2. BarrierOf(w, s, c)' /\ \A r \in Remappers : remap'[r].at # "idle" /\ remap'[r].call = c =>
              RemapStays(r) /\ remap[r].at \in {"awaiting", "drained"} /\ remap[r].call = c /\ remap[r].slot = s /\ remap'[r].slot = s
        BY <1>1, <3>1
      <3>3. s = channel'[w][p].slot /\ c = channel'[w][p].call
        BY <2>1, <3>1
      <3>4. ASSUME NEW r \in Remappers, remap'[r].at # "idle", remap'[r].call = c, NEW q \in DOMAIN channel'[w], JobAt(w, q)', q > p
            PROVE  SlotAt(w, q)' # s
        <4>1. remap[r].at \in {"awaiting", "drained"} /\ remap[r].call = c /\ remap[r].slot = s
          BY <3>2, <3>4
        <4>2. CASE \E x \in DOMAIN channel[w] : channel[w][x] = channel'[w][q] /\ x > q0
          <5>1. PICK x \in DOMAIN channel[w] : channel[w][x] = channel'[w][q] /\ x > q0
            BY <4>2
          <5>2. JobAt(w, x) /\ SlotAt(w, x) = SlotAt(w, q)'
            BY <3>4, <5>1 DEF JobAt, SlotAt
          <5> QED BY <1>3, <2>1, <3>1, <4>1, <5>1, <5>2 DEF BarrierInv
        <4>3. CASE \E d \in Dispatchers : Loaded(d) /\ dispatch[d].job = channel'[w][q].job
          BY <1>2, <4>1, <4>3 DEF SlotAt, SlotOf
        <4> QED BY <2>1, <3>4, <4>2, <4>3
      <3> QED BY <3>2, <3>3, <3>4 DEF BarrierOf
    <2>2. CASE QuietChannel /\ p \in DOMAIN channel[w]
      <3>1. channel[w][p] = channel'[w][p]
        BY <2>2 DEF QuietChannel
      <3>2. \A q \in DOMAIN channel'[w] : JobAt(w, q)' => q \in DOMAIN channel[w] /\ channel[w][q] = channel'[w][q]
        BY <2>2 DEF QuietChannel, JobAt
      <3> QED BY <2>1, <2>2, <3>1, <3>2
    <2>3. CASE p \in DOMAIN channel[w] /\ \E d \in Dispatchers : Send(d)
      <3>1. PICK d \in Dispatchers : Send(d)
        BY <2>3
      <3>2. Pushed(dispatch[d].worker, [type |-> "job", job |-> dispatch[d].job]) /\ Loaded(d)
        BY <3>1, SendEffect DEF Loaded
      <3>3. channel[w][p] = channel'[w][p]
        BY <2>3, <3>2 DEF Pushed
      <3>4. \A q \in DOMAIN channel'[w] : (q \in DOMAIN channel[w] /\ channel[w][q] = channel'[w][q]) \/ dispatch[d].job = channel'[w][q].job
        BY <3>2 DEF Pushed
      <3> QED BY <2>1, <2>3, <3>2, <3>3, <3>4
    <2>4. CASE \E d \in Dispatchers : Send(d)
      <3>1. PICK d \in Dispatchers : Send(d)
        BY <2>4
      <3>2. Pushed(dispatch[d].worker, [type |-> "job", job |-> dispatch[d].job])
        BY <3>1, SendEffect
      <3>3. p \in DOMAIN channel[w]
        BY <1>3, <3>2 DEF Pushed
      <3> QED BY <2>3, <2>4, <3>3
    <2>5. ASSUME NEW v \in Workers, Receive(v) PROVE /\ BarrierOf(w, channel[w][p].slot, channel[w][p].call)'
                 /\ \A r \in Remappers : remap'[r].at # "idle" /\ remap'[r].call = channel'[w][p].call =>
                      \A q \in DOMAIN channel'[w] : JobAt(w, q)' /\ q > p => SlotAt(w, q)' # remap'[r].slot
      <3>1. Taken(v)
        BY <2>5, ReceiveTakes
      <3>2. CASE v = w
        <4>1. p \in Nat /\ p + 1 \in DOMAIN channel[w] /\ channel[w][p + 1] = channel'[w][p]
          BY <3>1, <3>2 DEF Taken
        <4>2. \A q \in DOMAIN channel'[w] : q \in Nat /\ q + 1 \in DOMAIN channel[w] /\ channel[w][q + 1] = channel'[w][q] /\ (q > p => q + 1 > p + 1)
          BY <3>1, <3>2, <4>1 DEF Taken
        <4> QED BY <2>1, <4>1, <4>2
      <3>3. CASE v # w
        <4>1. channel'[w] = channel[w]
          BY <3>1, <3>3 DEF Taken
        <4> QED BY <2>1, <4>1
      <3> QED BY <3>2, <3>3
    <2>6. ASSUME NEW v \in Workers, Close(v) PROVE channel'[w] = channel[w]
      BY <2>6, CloseEffect
    <2>7. ASSUME NEW v \in Workers, Start(v) \/ \E j \in JobIds : Complete(v, j) \/ Panic(v, j) PROVE channel'[w] = channel[w]
      BY <2>7 DEF Start, Complete, Panic
    <2>8. CASE channel'[w] = channel[w]
      BY <2>1, <2>8
    \* A new barrier stands last.
    <2>9. ASSUME NEW r \in Remappers, SendBarrier(r), p \notin DOMAIN channel[w]
          PROVE  /\ BarrierOf(w, channel[w][p].slot, channel[w][p].call)'
                 /\ \A o \in Remappers : remap'[o].at # "idle" /\ remap'[o].call = channel'[w][p].call =>
                      \A q \in DOMAIN channel'[w] : JobAt(w, q)' /\ q > p => SlotAt(w, q)' # remap'[o].slot
      <3>1. /\ \A o \in Remappers \ {r} : remap'[o] = remap[o]
            /\ remap[r].at = "waiting" /\ remap'[r].at = "awaiting" /\ remap'[r].call = remap[r].call /\ remap'[r].slot = remap[r].slot
            /\ remap'[r].old = remap[r].old /\ remaps' = remaps
            /\ Pushed(remap[r].old, [type |-> "barrier", slot |-> remap[r].slot, call |-> remap[r].call])
        BY <2>9, BarrierEffect
      <3>2. /\ w = remap[r].old /\ channel'[w][p].slot = remap[r].slot /\ channel'[w][p].call = remap[r].call
            /\ p = Len(channel[w]) + 1 /\ \A q \in DOMAIN channel'[w] : q \in DOMAIN channel[w] \/ q = p
            /\ \A q \in DOMAIN channel[w] : q < p
        BY <2>9, <3>1 DEF Pushed
      <3>3. \A o \in Remappers : remap'[o].at # "idle" /\ remap'[o].call = remap[r].call => o = r
        BY <3>1 DEF RemapInv
      <3>4. remap[r].call <= remaps
        BY <3>1, <1>r DEF RemapInv
      <3>5. BarrierOf(w, channel[w][p].slot, channel[w][p].call)'
        BY <3>1, <3>2, <3>3, <3>4 DEF BarrierOf
      <3>6. \A q \in DOMAIN channel'[w] : ~(q > p)
        <4>1. p \in Nat /\ \A q \in DOMAIN channel[w] : q \in Nat
          BY <3>2, TypeFacts, SMTT(30)
        <4> QED BY <3>2, <4>1
      <3> QED BY <3>5, <3>6
    <2>10. CASE QuietChannel /\ p \notin DOMAIN channel[w]
      <3>1. channel' # channel
        BY <2>10
      <3>2. ~TryShutdown
        <4> SUFFICES ASSUME TryShutdown PROVE FALSE
          OBVIOUS
        <4>1. channel'[w] = channel[w] \/ channel'[w] = Append(channel[w], [type |-> "shutdown"])
          BY DEF TryShutdown
        <4>2. channel'[w] = Append(channel[w], [type |-> "shutdown"]) /\ channel[w] \in Seq(Message) /\ [type |-> "shutdown"] \in Message
          BY <4>1, <2>10, TypeFacts DEF Message
        <4>3. channel'[w][p] = [type |-> "shutdown"]
          BY <4>2, <2>10, Appended
        <4> QED BY <4>3, <1>3
      <3>3. \E r \in Remappers : SendBarrier(r)
        <4>1. ASSUME NEW d \in Dispatchers, DispatchStep(d) \/ SendFails(d) \/ CancelDispatch(d), ~Send(d) PROVE UNCHANGED channel
          BY <4>1 DEF DispatchStep, LoadMapping, RefuseDraining, Reserve, RefuseBudget, FinishDispatch, SendFails, CancelDispatch
        <4>2. ASSUME NEW d \in Dispatchers, Send(d) PROVE FALSE
          <5>1. Pushed(dispatch[d].worker, [type |-> "job", job |-> dispatch[d].job])
            BY <4>2, SendEffect
          <5> QED BY <5>1, <1>3, <2>10 DEF Pushed
        <4>3. ASSUME NEW v \in Workers, Receive(v) PROVE FALSE
          <5>1. Taken(v) /\ Len(channel[v]) \in Nat /\ DOMAIN channel[v] = 1 .. Len(channel[v])
            BY <4>3, ReceiveTakes, TypeFacts
          <5>2. channel'[v] \in Seq(Message)
            BY <5>1 DEF Taken
          <5>3. DOMAIN channel'[v] = 1 .. Len(channel'[v]) /\ Len(channel'[v]) = Len(channel[v]) - 1
            BY <5>1, <5>2, LenProperties DEF Taken
          <5>4. 1 \in DOMAIN channel[v]
            BY <5>1 DEF Taken
          <5>5. Len(channel[v]) \in DOMAIN channel[v]
            BY <5>1, <5>4
          <5>6. Len(channel[v]) \in DOMAIN channel'[v]
            BY <5>5, <2>10 DEF QuietChannel
          <5> QED BY <5>1, <5>3, <5>6
        <4>4. ASSUME NEW v \in Workers, Close(v) PROVE FALSE
          <5>1. channel'[w] = channel[w] \/ DOMAIN channel'[w] = {}
            BY <4>4, CloseEffect
          <5> QED BY <5>1, <2>10
        <4>5. ASSUME NEW v \in Workers, Start(v) \/ Notify(v) \/ \E j \in JobIds : Complete(v, j) \/ Panic(v, j) PROVE UNCHANGED channel
          BY <4>5 DEF Start, Notify, Complete, Panic
        <4>6. ASSUME NEW r \in Remappers, (\E k \in Keys, target \in Workers : BeginRemap(r, k, target)) \/ FinishRemap(r) \/ AbortRemap(r) \/ CancelRemap(r)
              PROVE  UNCHANGED channel
          BY <4>6 DEF BeginRemap, FinishRemap, AbortRemap, CancelRemap
        <4>7. ASSUME NEW j \in JobIds, BeginDispatch(j) PROVE UNCHANGED channel
          BY <4>7 DEF BeginDispatch
        <4>8. ASSUME UNCHANGED keyedVars PROVE UNCHANGED channel
          BY <4>8 DEF keyedVars
        <4> QED BY <3>1, <3>2, <4>1, <4>2, <4>3, <4>4, <4>5, <4>6, <4>7, <4>8 DEF KeyedNext, WorkerStep, RemapStep, DispatchStep
      <3> QED BY <2>9, <2>10, <3>3
    <2> QED BY <2>2, <2>4, <2>5, <2>6, <2>7, <2>8, <2>10, QuietStep DEF MovesJobs
  <1>4. ASSUME NEW w \in Workers, NEW b \in worker'[w].barriers
        PROVE  /\ BarrierOf(w, b.slot, b.call)'
               /\ \A r \in Remappers : remap'[r].at # "idle" /\ remap'[r].call = b.call =>
                    \A q \in DOMAIN channel'[w] : JobAt(w, q)' => SlotAt(w, q)' # remap'[r].slot
    <2>1. CASE b \in worker[w].barriers
      <3>1. PICK s \in Slots, c \in Nat : s = b.slot /\ c = b.call /\ BarrierOf(w, s, c)
        BY <2>1, <1>b
      <3>2. BarrierOf(w, s, c)' /\ \A r \in Remappers : remap'[r].at # "idle" /\ remap'[r].call = c =>
              RemapStays(r) /\ remap[r].at \in {"awaiting", "drained"} /\ remap[r].call = c /\ remap[r].slot = s /\ remap'[r].slot = s
        BY <1>1, <3>1
      <3>3. ASSUME NEW r \in Remappers, remap'[r].at # "idle", remap'[r].call = c, NEW q \in DOMAIN channel'[w], JobAt(w, q)'
            PROVE  SlotAt(w, q)' # s
        <4>1. remap[r].at \in {"awaiting", "drained"} /\ remap[r].call = c /\ remap[r].slot = s
          BY <3>2, <3>3
        <4>2. \/ \E x \in DOMAIN channel[w] : JobAt(w, x) /\ channel[w][x].job = channel'[w][q].job
              \/ \E d \in Dispatchers : Loaded(d) /\ dispatch[d].worker = w /\ dispatch[d].job = channel'[w][q].job
          BY <3>3, JobsComeFrom DEF ComesFrom
        <4>3. CASE \E x \in DOMAIN channel[w] : JobAt(w, x) /\ channel[w][x].job = channel'[w][q].job
          BY <2>1, <3>1, <4>1, <4>3 DEF BarrierInv, SlotAt
        <4>4. CASE \E d \in Dispatchers : Loaded(d) /\ dispatch[d].worker = w /\ dispatch[d].job = channel'[w][q].job
          BY <1>2, <4>1, <4>4 DEF SlotAt, SlotOf
        <4> QED BY <4>2, <4>3, <4>4
      <3> QED BY <3>1, <3>2, <3>3
    <2>2. CASE b \notin worker[w].barriers
      <3>1. Receive(w) /\ channel[w][1].type = "barrier" /\ b.slot = channel[w][1].slot /\ b.call = channel[w][1].call
        <4>1. ASSUME NEW v \in Workers, Start(v) PROVE FALSE
          <5>1. PICK c \in Classes, m \in Keys, j \in JobIds : Started(v, c, m, j)
            BY <4>1, StartEffect
          <5> QED BY <5>1, <2>2 DEF Started
        <4>2. ASSUME NEW v \in Workers, Notify(v) PROVE FALSE
          BY <4>2, <2>2, NotifyEffect DEF Only
        <4>3. ASSUME NEW v \in Workers, Close(v) PROVE FALSE
          BY <4>3, <2>2, CloseEffect DEF Only
        <4>4. ASSUME NEW v \in Workers, NEW j \in JobIds, Complete(v, j) \/ Panic(v, j) PROVE FALSE
          BY <4>4, <2>2, EndedEffect DEF Ended, Only
        <4>5. ASSUME NEW v \in Workers, Receive(v), channel[v][1].type = "job" PROVE FALSE
          BY <4>5, <2>2, ReceiveJobEffect DEF Only
        <4>6. ASSUME NEW v \in Workers, Receive(v), channel[v][1].type # "job"
              PROVE  v = w /\ channel[w][1].type = "barrier" /\ b.slot = channel[w][1].slot /\ b.call = channel[w][1].call
          BY <4>6, <2>2, ReceiveOtherEffect DEF Only
        <4>7. ASSUME NEW d \in Dispatchers, DispatchStep(d) \/ SendFails(d) \/ CancelDispatch(d) PROVE UNCHANGED worker
          BY <4>7 DEF DispatchStep, LoadMapping, RefuseDraining, Reserve, RefuseBudget, FinishDispatch, SendFails, CancelDispatch, Send
        <4>8. ASSUME NEW j \in JobIds, BeginDispatch(j) PROVE UNCHANGED worker
          BY <4>8 DEF BeginDispatch
        <4> QED BY <2>2, <4>1, <4>2, <4>3, <4>4, <4>5, <4>6, <4>7, <4>8, OtherWork DEF KeyedNext, WorkerStep
      <3>2. Taken(w) /\ 1 \in DOMAIN channel[w]
        BY <3>1, ReceiveTakes DEF Taken
      <3>3. PICK s \in Slots, c \in Nat : s = b.slot /\ c = b.call /\ BarrierOf(w, s, c)
        BY <3>1, <3>2, <1>m
      <3>4. BarrierOf(w, s, c)' /\ \A r \in Remappers : remap'[r].at # "idle" /\ remap'[r].call = c =>
              RemapStays(r) /\ remap[r].at \in {"awaiting", "drained"} /\ remap[r].call = c /\ remap[r].slot = s /\ remap'[r].slot = s
        BY <1>1, <3>3
      <3>5. ASSUME NEW r \in Remappers, remap'[r].at # "idle", remap'[r].call = c, NEW q \in DOMAIN channel'[w], JobAt(w, q)'
            PROVE  SlotAt(w, q)' # s
        <4>1. remap[r].at \in {"awaiting", "drained"} /\ remap[r].call = c /\ remap[r].slot = s
          BY <3>4, <3>5
        <4>2. q \in Nat /\ q + 1 \in DOMAIN channel[w] /\ channel'[w][q] = channel[w][q + 1] /\ q + 1 # 1
          BY <3>2, <3>5 DEF Taken
        <4>3. q + 1 > 1 /\ JobAt(w, q + 1) /\ SlotAt(w, q + 1) = SlotAt(w, q)'
          BY <3>5, <4>2 DEF JobAt, SlotAt
        <4> QED BY <3>1, <3>2, <3>3, <4>1, <4>2, <4>3 DEF BarrierInv
      <3> QED BY <3>3, <3>4, <3>5
    <2> QED BY <2>1, <2>2
  <1> QED BY <1>3, <1>4 DEF BarrierInv

-----------------------------------------------------------------------------
(* Counters and ready queues: CountInv, ReadyInv.                          *)

LEMMA CountedFinite ==
    ASSUME NEW s \in Slots
    PROVE  IsFiniteSet(Counted(s)) /\ Cardinality(Counted(s)) \in Nat
  BY ConstantFacts, FS_Subset, FS_CardinalityType DEF Counted

LEMMA FewerCounted ==
    ASSUME NEW A, NEW B, IsFiniteSet(B), A \subseteq B
    PROVE  IsFiniteSet(A) /\ Cardinality(A) <= Cardinality(B) /\ Cardinality(A) \in Nat /\ Cardinality(B) \in Nat
  BY FS_Subset, FS_CardinalityType

LEMMA InflightKept ==
    ASSUME KeyedInv, [KeyedNext]_keyedVars
    PROVE  inflight' \in [Slots -> Nat] /\ \A s \in Slots : Cardinality(Counted(s)') <= inflight'[s]
  <1> USE DEF KeyedInv
  <1>t. inflight \in [Slots -> Nat] /\ \A s \in Slots : IsFiniteSet(Counted(s)) /\ Cardinality(Counted(s)) \in Nat /\ Cardinality(Counted(s)) <= inflight[s]
    BY CountedFinite DEF KeyedTypeOK, CountInv
  <1>1. ASSUME UNCHANGED inflight, \A s \in Slots : Counted(s)' \subseteq Counted(s)
        PROVE  inflight' \in [Slots -> Nat] /\ \A s \in Slots : Cardinality(Counted(s)') <= inflight'[s]
    <2>1. \A s \in Slots : Cardinality(Counted(s)') <= Cardinality(Counted(s)) /\ Cardinality(Counted(s)') \in Nat
      BY <1>1, <1>t, FewerCounted
    <2> QED BY <1>1, <1>t, <2>1
  <1>2. ASSUME UNCHANGED <<dispatch, inflight>>
        PROVE  inflight' \in [Slots -> Nat] /\ \A s \in Slots : Cardinality(Counted(s)') <= inflight'[s]
    BY <1>1, <1>2 DEF Counted, SlotOf
  <1>3. ASSUME NEW j \in JobIds, BeginDispatch(j)
        PROVE  inflight' \in [Slots -> Nat] /\ \A s \in Slots : Cardinality(Counted(s)') <= inflight'[s]
    <2> DEFINE d == Calls[j].by
               x == KeySlot(KeyOf(j))
    <2>1. /\ d \in Dispatchers /\ dispatch[d].at = "idle" /\ \A b \in Dispatchers \ {d} : dispatch'[b] = dispatch[b]
          /\ dispatch'[d].at = "counted" /\ dispatch'[d].job = j
      BY <1>3, BeginEffect
    <2>2. x \in Slots /\ inflight' = [inflight EXCEPT ![x] = @ + 1]
      BY <1>3, ConstantFacts DEF BeginDispatch
    <2>3. Counted(x)' = Counted(x) \cup {d} /\ d \notin Counted(x) /\ \A s \in Slots \ {x} : Counted(s)' = Counted(s)
      BY <2>1, <2>2 DEF Counted, SlotOf
    <2> HIDE DEF d, x
    <2>4. Cardinality(Counted(x)') = Cardinality(Counted(x)) + 1
      BY <2>2, <2>3, <1>t, OneMore
    <2>5. inflight'[x] = inflight[x] + 1 /\ inflight' \in [Slots -> Nat] /\ \A s \in Slots \ {x} : inflight'[s] = inflight[s]
      BY <2>2, <1>t
    <2>6. Cardinality(Counted(x)') <= inflight'[x]
      BY <2>2, <2>4, <2>5, <1>t
    <2>7. \A s \in Slots \ {x} : Cardinality(Counted(s)') <= inflight'[s]
      BY <2>3, <2>5, <1>t
    <2> QED BY <2>5, <2>6, <2>7
  <1>4. ASSUME NEW d \in Dispatchers, LoadMapping(d) \/ Reserve(d) \/ Send(d) \/ CancelDispatch(d)
        PROVE  inflight' \in [Slots -> Nat] /\ \A s \in Slots : Cardinality(Counted(s)') <= inflight'[s]
    <2>1. UNCHANGED inflight
      BY <1>4 DEF LoadMapping, Reserve, Send, CancelDispatch
    <2>2. \A b \in Dispatchers : dispatch'[b].at # "idle" => dispatch[b].at # "idle" /\ dispatch'[b].job = dispatch[b].job
      BY <1>4, CallWork DEF DispatchStep
    <2>3. \A s \in Slots : Counted(s)' \subseteq Counted(s)
      BY <2>2 DEF Counted, SlotOf
    <2> QED BY <1>1, <2>1, <2>3
  <1>5. ASSUME NEW d \in Dispatchers, RefuseDraining(d) \/ RefuseBudget(d) \/ SendFails(d) \/ FinishDispatch(d)
        PROVE  inflight' \in [Slots -> Nat] /\ \A s \in Slots : Cardinality(Counted(s)') <= inflight'[s]
    <2>0. dispatch[d].at # "idle" /\ Lower(SlotOf(d)) /\ Returned(d)
      BY <1>5 DEF RefuseDraining, RefuseBudget, SendFails, FinishDispatch
    <2>1. PICK x \in Slots : x = SlotOf(d)
      BY <2>0, CallFacts
    <2>2. inflight' = [inflight EXCEPT ![x] = @ - 1]
      BY <2>0, <2>1 DEF Lower
    <2>3. dispatch'[d].at = "idle" /\ \A b \in Dispatchers \ {d} : dispatch'[b] = dispatch[b]
      BY <2>0, ReturnedEffect
    <2>4. Counted(x)' = Counted(x) \ {d} /\ d \in Counted(x) /\ \A s \in Slots \ {x} : Counted(s)' = Counted(s)
      BY <2>0, <2>1, <2>3 DEF Counted, SlotOf
    <2>5. Cardinality(Counted(x)') = Cardinality(Counted(x)) - 1 /\ Cardinality(Counted(x)) > 0
      BY <2>4, <1>t, OneLess
    <2>6. inflight[x] - 1 \in Nat
      BY <2>5, <1>t
    <2>7. inflight'[x] = inflight[x] - 1 /\ inflight' \in [Slots -> Nat] /\ \A s \in Slots \ {x} : inflight'[s] = inflight[s]
      BY <2>2, <2>6, <1>t
    <2>8. Cardinality(Counted(x)') <= inflight'[x]
      BY <2>5, <2>7, <1>t
    <2>9. \A s \in Slots \ {x} : Cardinality(Counted(s)') <= inflight'[s]
      BY <2>4, <2>7, <1>t
    <2> QED BY <2>7, <2>8, <2>9
  <1>6. ASSUME NEW w \in Workers, WorkerStep(w) \/ \E j \in JobIds : Panic(w, j) PROVE UNCHANGED <<dispatch, inflight>>
    BY <1>6, WorkerWork DEF WorkOnly
  <1> QED BY <1>2, <1>3, <1>4, <1>5, <1>6, OtherWork DEF KeyedNext, DispatchStep

LEMMA ClassesKept ==
    ASSUME KeyedInv, [KeyedNext]_keyedVars
    PROVE  \A w \in Workers, c \in Classes : Cardinality(OfClass(w, c)') <= worker'[w].byClass[c]
  <1> USE DEF KeyedInv
  <1>t. \A w \in Workers : worker[w].byClass \in [Classes -> Nat]
    BY TypeFacts DEF WorkerState
  <1>f. \A w \in Workers, c \in Classes : IsFiniteSet(OfClass(w, c)) /\ Cardinality(OfClass(w, c)) \in Nat /\ Cardinality(OfClass(w, c)) <= worker[w].byClass[c]
    BY TypeFacts, FS_Subset, FS_CardinalityType DEF OfClass, CountInv
  <1>0. ASSUME NEW w \in Workers, NEW c \in Classes PROVE Cardinality(OfClass(w, c)') <= worker'[w].byClass[c]
    <2>1. CASE worker'[w].tasks \subseteq worker[w].tasks /\ worker'[w].byClass = worker[w].byClass
      <3>1. OfClass(w, c)' \subseteq OfClass(w, c)
        BY <2>1 DEF OfClass
      <3>2. Cardinality(OfClass(w, c)') <= Cardinality(OfClass(w, c)) /\ Cardinality(OfClass(w, c)') \in Nat
        BY <3>1, <1>f, FewerCounted
      <3>3. worker[w].byClass[c] \in Nat
        BY <1>t
      <3> QED BY <2>1, <3>2, <3>3, <1>f
    <2>2. CASE ~MovesJobs
      BY <2>1, <2>2, QuietStep DEF QuietWorkers
    <2>3. CASE \E d \in Dispatchers : Send(d)
      BY <2>1, <2>3, SendEffect
    <2>4. ASSUME NEW v \in Workers, Start(v) PROVE Cardinality(OfClass(w, c)') <= worker'[w].byClass[c]
      <3>1. PICK e \in Classes, k \in Keys, j \in JobIds : Started(v, e, k, j)
        BY <2>4, StartEffect
      <3>2. CASE v # w
        BY <2>1, <3>1, <3>2 DEF Started
      <3>3. CASE v = w
        <4>1. worker'[w].tasks = worker[w].tasks \cup {j} /\ ClassOf(j) = e /\ worker'[w].byClass = [worker[w].byClass EXCEPT ![e] = @ + 1]
          BY <3>1, <3>3 DEF Started
        <4>2. CASE c = e
          <5>1. OfClass(w, c)' = OfClass(w, c) \cup {j}
            BY <4>1, <4>2 DEF OfClass
          <5>2. Cardinality(OfClass(w, c)') <= Cardinality(OfClass(w, c)) + 1 /\ Cardinality(OfClass(w, c)') \in Nat
            <6>1. CASE j \in OfClass(w, c)
              <7>1. OfClass(w, c)' = OfClass(w, c)
                BY <5>1, <6>1
              <7> QED BY <7>1, <1>f
            <6>2. CASE j \notin OfClass(w, c)
              BY <5>1, <6>2, <1>f, OneMore
            <6> QED BY <6>1, <6>2
          <5>3. worker'[w].byClass[c] = worker[w].byClass[c] + 1 /\ worker[w].byClass[c] \in Nat
            BY <4>1, <4>2, <1>t
          <5> QED BY <5>2, <5>3, <1>f
        <4>3. CASE c # e
          <5>1. OfClass(w, c)' = OfClass(w, c)
            BY <4>1, <4>3 DEF OfClass
          <5>2. worker'[w].byClass[c] = worker[w].byClass[c]
            BY <4>1, <4>3, <1>t
          <5> QED BY <5>1, <5>2, <1>f
        <4> QED BY <4>2, <4>3
      <3> QED BY <3>2, <3>3
    <2>5. ASSUME NEW v \in Workers, NEW j \in JobIds, Complete(v, j) PROVE Cardinality(OfClass(w, c)') <= worker'[w].byClass[c]
      <3>1. /\ Only(v) /\ j \in worker[v].tasks
            /\ worker'[v].byClass = [worker[v].byClass EXCEPT ![ClassOf(j)] = @ - 1]
            /\ worker'[v].tasks = worker[v].tasks \ {j}
        BY <2>5, CompleteEffect
      <3>2. CASE v # w
        BY <2>1, <3>1, <3>2 DEF Only
      <3>3. CASE v = w /\ c = ClassOf(j)
        <4>1. OfClass(w, c)' = OfClass(w, c) \ {j} /\ j \in OfClass(w, c)
          BY <3>1, <3>3 DEF OfClass
        <4>2. Cardinality(OfClass(w, c)') = Cardinality(OfClass(w, c)) - 1
          BY <4>1, <1>f, OneLess
        <4>3. worker'[w].byClass[c] = worker[w].byClass[c] - 1 /\ worker[w].byClass[c] \in Nat
          BY <3>1, <3>3, <1>t
        <4> QED BY <4>2, <4>3, <1>f
      <3>4. CASE v = w /\ c # ClassOf(j)
        <4>1. OfClass(w, c)' = OfClass(w, c)
          BY <3>1, <3>4 DEF OfClass
        <4>2. worker'[w].byClass[c] = worker[w].byClass[c]
          BY <3>1, <3>4, <1>t
        <4> QED BY <4>1, <4>2, <1>f
      <3> QED BY <3>2, <3>3, <3>4
    <2>6. ASSUME NEW v \in Workers, NEW j \in JobIds, Panic(v, j) PROVE worker'[w].tasks \subseteq worker[w].tasks /\ worker'[w].byClass = worker[w].byClass
      BY <2>6, PanicEffect DEF Only
    <2>7. ASSUME NEW v \in Workers, Close(v) PROVE worker'[w].tasks \subseteq worker[w].tasks /\ worker'[w].byClass = worker[w].byClass
      BY <2>7, CloseEffect DEF Only
    <2>8. ASSUME NEW v \in Workers, Receive(v), channel[v][1].type = "job" PROVE worker'[w].tasks \subseteq worker[w].tasks /\ worker'[w].byClass = worker[w].byClass
      BY <2>8, ReceiveJobEffect DEF Only
    <2>9. ASSUME NEW v \in Workers, Receive(v), channel[v][1].type # "job" PROVE worker'[w].tasks \subseteq worker[w].tasks /\ worker'[w].byClass = worker[w].byClass
      BY <2>9, ReceiveOtherEffect DEF Only
    <2> QED BY <2>1, <2>2, <2>3, <2>4, <2>5, <2>6, <2>7, <2>8, <2>9 DEF MovesJobs
  <1> QED BY <1>0

LEMMA CountKept ==
    ASSUME KeyedInv, [KeyedNext]_keyedVars
    PROVE  CountInv'
  BY InflightKept, ClassesKept DEF CountInv

\* A key in a ready queue comes out at its head, or goes in at its end.
InQueue(q, k) == \E p \in DOMAIN q : q[p] = k
OnceEach(q) == \A p, n \in DOMAIN q : q[p] = q[n] => p = n

LEMMA QueueAppend ==
    ASSUME NEW q \in Seq(Keys), NEW k \in Keys, OnceEach(q), ~InQueue(q, k)
    PROVE  OnceEach(Append(q, k)) /\ \A m \in Keys : InQueue(Append(q, k), m) <=> (InQueue(q, m) \/ m = k)
  <1>1. /\ DOMAIN q = 1 .. Len(q) /\ Len(q) \in Nat /\ DOMAIN Append(q, k) = 1 .. Len(q) + 1 /\ Append(q, k)[Len(q) + 1] = k
        /\ \A p \in DOMAIN q : p \in DOMAIN Append(q, k) /\ Append(q, k)[p] = q[p]
        /\ \A p \in DOMAIN Append(q, k) : p \in DOMAIN q \/ p = Len(q) + 1
        /\ Len(q) + 1 \in DOMAIN Append(q, k)
    BY Appended
  <1> QED BY <1>1 DEF OnceEach, InQueue

LEMMA QueueTail ==
    ASSUME NEW q \in Seq(Keys), q # <<>>, OnceEach(q)
    PROVE  OnceEach(Tail(q)) /\ \A m \in Keys : InQueue(Tail(q), m) <=> (InQueue(q, m) /\ m # Head(q))
  <1>1. /\ Head(q) = q[1] /\ 1 \in DOMAIN q
        /\ \A p \in DOMAIN Tail(q) : p \in Nat /\ p + 1 \in DOMAIN q /\ Tail(q)[p] = q[p + 1] /\ p + 1 # 1
        /\ \A p \in DOMAIN q : p = 1 \/ (p - 1 \in DOMAIN Tail(q) /\ Tail(q)[p - 1] = q[p])
    BY Shortened
  <1>2. ASSUME NEW p \in DOMAIN Tail(q), NEW n \in DOMAIN Tail(q), Tail(q)[p] = Tail(q)[n] PROVE p = n
    <2>1. p + 1 = n + 1
      BY <1>1, <1>2 DEF OnceEach
    <2> QED BY <1>1, <2>1
  <1>3. ASSUME NEW m \in Keys, InQueue(Tail(q), m) PROVE InQueue(q, m) /\ m # Head(q)
    <2>1. PICK p \in DOMAIN Tail(q) : Tail(q)[p] = m
      BY <1>3 DEF InQueue
    <2>2. p + 1 \in DOMAIN q /\ q[p + 1] = m /\ p + 1 # 1
      BY <1>1, <2>1
    <2> QED BY <1>1, <2>2 DEF InQueue, OnceEach
  <1>4. ASSUME NEW m \in Keys, InQueue(q, m), m # Head(q) PROVE InQueue(Tail(q), m)
    BY <1>1, <1>4 DEF InQueue
  <1> QED BY <1>2, <1>3, <1>4 DEF OnceEach

ReadyAt(w, c) == OnceEach(worker[w].ready[c]) /\ \A k \in Keys : Takable(w, c, k) <=> InQueue(worker[w].ready[c], k)

LEMMA ReadyKept ==
    ASSUME KeyedInv, [KeyedNext]_keyedVars
    PROVE  ReadyInv'
  <1> USE DEF KeyedInv
  <1>r. \A w \in Workers, c \in Classes : ReadyAt(w, c) /\ worker[w].ready[c] \in Seq(Keys)
    BY TypeFacts DEF ReadyInv, ReadyAt, OnceEach, InQueue
  <1>s. SUFFICES ASSUME NEW w \in Workers, NEW c \in Classes PROVE ReadyAt(w, c)'
    BY DEF ReadyInv, ReadyAt, OnceEach, InQueue
  <1>1. CASE worker'[w].keys = worker[w].keys /\ worker'[w].active = worker[w].active /\ worker'[w].ready = worker[w].ready
    <2>1. \A k \in Keys : Takable(w, c, k)' <=> Takable(w, c, k)
      BY <1>1 DEF Takable, JobsOf
    <2> QED BY <1>1, <2>1, <1>r DEF ReadyAt
  <1>2. CASE ~MovesJobs
    BY <1>1, <1>2, QuietStep DEF QuietWorkers
  <1>3. CASE \E d \in Dispatchers : Send(d)
    BY <1>1, <1>3, SendEffect
  <1>4. ASSUME NEW v \in Workers, Start(v) PROVE ReadyAt(w, c)'
    <2>1. PICK e \in Classes, k \in Keys, j \in JobIds : Started(v, e, k, j)
      BY <1>4, StartEffect
    <2>2. CASE v # w
      BY <1>1, <2>1, <2>2 DEF Started
    <2>3. CASE v = w
      <3>1. /\ k \notin worker[w].active /\ JobsOf(w, k) # <<>> /\ ClassOf(Head(JobsOf(w, k))) = e
            /\ worker[w].ready[e] # <<>> /\ k = Head(worker[w].ready[e])
            /\ worker'[w].keys = [worker[w].keys EXCEPT ![k] = Tail(@)]
            /\ worker'[w].ready = [worker[w].ready EXCEPT ![e] = Tail(@)]
            /\ worker'[w].active = worker[w].active \cup {k}
        BY <2>1, <2>3 DEF Started
      <3>2. worker[w].keys \in [Keys -> Seq(JobIds)] /\ worker[w].ready \in [Classes -> Seq(Keys)]
        BY TypeFacts DEF WorkerState
      <3>3. \A m \in Keys \ {k} : JobsOf(w, m)' = JobsOf(w, m)
        <4>1. \A m \in Keys \ {k} : worker'[w].keys[m] = worker[w].keys[m]
          BY <3>1, <3>2
        <4> QED BY <4>1 DEF JobsOf
      <3>4. \A m \in Keys : Takable(w, c, m)' <=> (Takable(w, c, m) /\ m # k)
        <4>1. \A m \in Keys \ {k} : m \in worker'[w].active <=> m \in worker[w].active
          BY <3>1
        <4>2. k \in worker'[w].active
          BY <3>1
        <4> QED BY <3>3, <4>1, <4>2 DEF Takable
      <3>5. CASE c = e
        <4>1. worker'[w].ready[c] = Tail(worker[w].ready[c])
          BY <3>1, <3>2, <3>5
        <4>2. OnceEach(Tail(worker[w].ready[c])) /\ \A m \in Keys : InQueue(Tail(worker[w].ready[c]), m) <=> (InQueue(worker[w].ready[c], m) /\ m # k)
          BY <1>r, <3>1, <3>5, QueueTail DEF ReadyAt
        <4> QED BY <1>r, <3>4, <4>1, <4>2 DEF ReadyAt
      <3>6. CASE c # e
        <4>1. worker'[w].ready[c] = worker[w].ready[c]
          BY <3>1, <3>2, <3>6
        <4>2. ~Takable(w, c, k)
          BY <3>1, <3>6 DEF Takable
        <4> QED BY <1>r, <3>4, <4>1, <4>2 DEF ReadyAt
      <3> QED BY <3>5, <3>6
    <2> QED BY <2>2, <2>3
  <1>5. ASSUME NEW v \in Workers, NEW j \in JobIds, Complete(v, j) PROVE ReadyAt(w, c)'
    <2> DEFINE k == KeyOf(j)
    <2>1. /\ Only(v) /\ k \in Keys /\ k \in worker[v].active
          /\ worker'[v].keys = worker[v].keys
          /\ worker'[v].ready = MadeReady(v, k) /\ worker'[v].active = worker[v].active \ {k}
      BY <1>5, CompleteEffect
    <2> HIDE DEF k
    <2>2. CASE v # w
      BY <1>1, <2>1, <2>2 DEF Only
    <2>3. CASE v = w
      <3>2. worker[w].ready \in [Classes -> Seq(Keys)]
        BY TypeFacts DEF WorkerState
      <3>3. \A m \in Keys : JobsOf(w, m)' = JobsOf(w, m)
        BY <2>1, <2>3 DEF JobsOf
      <3>4. \A m \in Keys \ {k} : Takable(w, c, m)' <=> Takable(w, c, m)
        BY <2>1, <2>3, <3>3 DEF Takable
      <3>5. Takable(w, c, k)' <=> JobsOf(w, k) # <<>> /\ ClassOf(Head(JobsOf(w, k))) = c
        BY <2>1, <2>3, <3>3 DEF Takable
      <3>6. ~Takable(w, c, k) /\ ~InQueue(worker[w].ready[c], k)
        BY <1>r, <2>1, <2>3 DEF Takable, ReadyAt
      <3>7. CASE JobsOf(w, k) # <<>> /\ ClassOf(Head(JobsOf(w, k))) = c
        <4>1. worker'[w].ready[c] = Append(worker[w].ready[c], k)
          BY <2>1, <2>3, <3>2, <3>7 DEF MadeReady
        <4>2. OnceEach(Append(worker[w].ready[c], k)) /\ \A m \in Keys : InQueue(Append(worker[w].ready[c], k), m) <=> (InQueue(worker[w].ready[c], m) \/ m = k)
          BY <1>r, <2>1, <3>6, QueueAppend DEF ReadyAt
        <4> QED BY <1>r, <3>4, <3>5, <3>7, <4>1, <4>2 DEF ReadyAt
      <3>8. CASE ~(JobsOf(w, k) # <<>> /\ ClassOf(Head(JobsOf(w, k))) = c)
        <4>1. worker'[w].ready[c] = worker[w].ready[c]
          BY <2>1, <2>3, <3>2, <3>8 DEF MadeReady
        <4> QED BY <1>r, <3>4, <3>5, <3>6, <3>8, <4>1 DEF ReadyAt
      <3> QED BY <3>7, <3>8
    <2> QED BY <2>2, <2>3
  <1>6. ASSUME NEW v \in Workers, Receive(v), channel[v][1].type = "job" PROVE ReadyAt(w, c)'
    <2>0. PICK j \in JobIds, k \in Keys : j = channel[v][1].job /\ k = KeyOf(j)
      BY <1>6, ReceiveJobEffect
    <2>1. /\ Only(v)
          /\ worker'[v].keys = [worker[v].keys EXCEPT ![k] = Append(@, j)]
          /\ worker'[v].ready = ReadyWith(v, j) /\ worker'[v].active = worker[v].active
      BY <1>6, <2>0, ReceiveJobEffect
    <2>2. CASE v # w
      BY <1>1, <2>1, <2>2 DEF Only
    <2>3. CASE v = w
      <3>2. worker[w].ready \in [Classes -> Seq(Keys)] /\ worker[w].keys \in [Keys -> Seq(JobIds)] /\ JobsOf(w, k) \in Seq(JobIds)
        BY TypeFacts DEF WorkerState
      <3>3. (\A m \in Keys \ {k} : worker'[w].keys[m] = worker[w].keys[m]) /\ worker'[w].keys[k] = Append(worker[w].keys[k], j)
        BY <2>1, <2>3, <3>2
      <3>4. (\A m \in Keys \ {k} : JobsOf(w, m)' = JobsOf(w, m)) /\ JobsOf(w, k)' = Append(JobsOf(w, k), j)
        BY <3>3 DEF JobsOf
      <3>5. /\ JobsOf(w, k)' # <<>> /\ (JobsOf(w, k) # <<>> => Head(JobsOf(w, k)') = Head(JobsOf(w, k)))
            /\ JobsOf(w, k) = <<>> => Head(JobsOf(w, k)') = j
        BY <3>2, <3>4, Appended
      <3>6. \A m \in Keys \ {k} : Takable(w, c, m)' <=> Takable(w, c, m)
        BY <2>1, <2>3, <3>4 DEF Takable
      <3>7. CASE JobsOf(w, k) = <<>> /\ k \notin worker[w].active /\ ClassOf(j) = c
        <4>1. worker'[w].ready[c] = Append(worker[w].ready[c], k)
          BY <2>0, <2>1, <2>3, <3>2, <3>7 DEF ReadyWith
        <4>2. ~InQueue(worker[w].ready[c], k)
          BY <1>r, <3>7 DEF Takable, ReadyAt
        <4>3. OnceEach(Append(worker[w].ready[c], k)) /\ \A m \in Keys : InQueue(Append(worker[w].ready[c], k), m) <=> (InQueue(worker[w].ready[c], m) \/ m = k)
          BY <1>r, <4>2, QueueAppend DEF ReadyAt
        <4>4. Takable(w, c, k)'
          BY <2>1, <2>3, <3>5, <3>7 DEF Takable
        <4> QED BY <1>r, <3>6, <4>1, <4>3, <4>4 DEF ReadyAt
      <3>8. CASE ~(JobsOf(w, k) = <<>> /\ k \notin worker[w].active /\ ClassOf(j) = c)
        <4>1. worker'[w].ready[c] = worker[w].ready[c]
          BY <2>0, <2>1, <2>3, <3>2, <3>8 DEF ReadyWith
        <4>2. Takable(w, c, k)' <=> Takable(w, c, k)
          BY <2>1, <2>3, <3>5, <3>8 DEF Takable
        <4> QED BY <1>r, <3>6, <4>1, <4>2 DEF ReadyAt
      <3> QED BY <3>7, <3>8
    <2> QED BY <2>2, <2>3
  <1>7. ASSUME NEW v \in Workers, Receive(v), channel[v][1].type # "job"
        PROVE  worker'[w].keys = worker[w].keys /\ worker'[w].active = worker[w].active /\ worker'[w].ready = worker[w].ready
    BY <1>7, ReceiveOtherEffect DEF Only
  <1>8. ASSUME NEW v \in Workers, Close(v)
        PROVE  worker'[w].keys = worker[w].keys /\ worker'[w].active = worker[w].active /\ worker'[w].ready = worker[w].ready
    BY <1>8, CloseEffect DEF Only
  <1>9. ASSUME NEW v \in Workers, NEW j \in JobIds, Panic(v, j)
        PROVE  worker'[w].keys = worker[w].keys /\ worker'[w].active = worker[w].active /\ worker'[w].ready = worker[w].ready
    BY <1>9, PanicEffect DEF Only
  <1> QED BY <1>1, <1>2, <1>3, <1>4, <1>5, <1>6, <1>7, <1>8, <1>9 DEF MovesJobs

-----------------------------------------------------------------------------
(* Budgets: BudgetsExact and the type of usage.                            *)

UsageType == [key : [Slots -> 0 .. KeyLimit], global : 0 .. GlobalLimit]

\* The jobs that hold a permit, those of slot s, and the calls of slot s that hold its unit only.
Holders == {j \in JobIds : Holds(j)}
HoldersOf(s) == {j \in JobIds : Holds(j) /\ KeySlot(KeyOf(j)) = s}
Taking(s) == {d \in Dispatchers : dispatch[d].at = "reserveGlobal" /\ SlotOf(d) = s}

LEMMA BudgetFacts ==
    ASSUME KeyedTypeOK, BudgetsExact
    PROVE  /\ usage \in UsageType /\ usage.key \in [Slots -> 0 .. KeyLimit] /\ usage.global \in 0 .. GlobalLimit
           /\ KeyLimit \in Nat /\ GlobalLimit \in Nat
           /\ IsFiniteSet(Holders) /\ Cardinality(Holders) \in Nat /\ usage.global = Cardinality(Holders)
           /\ \A s \in Slots : /\ IsFiniteSet(HoldersOf(s)) /\ Cardinality(HoldersOf(s)) \in Nat
                               /\ IsFiniteSet(Taking(s)) /\ Cardinality(Taking(s)) \in Nat
                               /\ usage.key[s] = Cardinality(HoldersOf(s)) + Cardinality(Taking(s))
  <1>1. usage \in UsageType /\ usage.key \in [Slots -> 0 .. KeyLimit] /\ usage.global \in 0 .. GlobalLimit
    BY DEF KeyedTypeOK, UsageType
  <1>2. IsFiniteSet(JobIds) /\ IsFiniteSet(Dispatchers) /\ KeyLimit \in Nat /\ GlobalLimit \in Nat
    BY ConstantFacts, LimitsAssumption
  <1>3. IsFiniteSet(Holders) /\ Cardinality(Holders) \in Nat
    BY <1>2, FewerCounted DEF Holders
  <1>4. \A s \in Slots : /\ IsFiniteSet(HoldersOf(s)) /\ Cardinality(HoldersOf(s)) \in Nat
                         /\ IsFiniteSet(Taking(s)) /\ Cardinality(Taking(s)) \in Nat
    <2> TAKE s \in Slots
    <2>1. HoldersOf(s) \subseteq JobIds /\ Taking(s) \subseteq Dispatchers
      BY DEF HoldersOf, Taking
    <2> QED BY <1>2, <2>1, FewerCounted
  <1>5. usage.global = Cardinality(Holders) /\ \A s \in Slots : usage.key[s] = Cardinality(HoldersOf(s)) + Cardinality(Taking(s))
    BY DEF BudgetsExact, Holders, HoldersOf, Taking
  <1> QED BY <1>1, <1>2, <1>3, <1>4, <1>5

\* What it takes to have them exact after a step.
LEMMA BudgetsAfter ==
    ASSUME usage'.global = Cardinality(Holders'), \A s \in Slots : usage'.key[s] = Cardinality(HoldersOf(s)') + Cardinality(Taking(s)')
    PROVE  BudgetsExact'
  BY DEF BudgetsExact, Holders, HoldersOf, Taking

LEMMA HoldersSame ==
    ASSUME KeyedTypeOK, BudgetsExact, UNCHANGED usage,
           \A i \in JobIds : Holds(i)' <=> Holds(i), \A s \in Slots : Taking(s)' = Taking(s)
    PROVE  BudgetsExact' /\ usage' \in UsageType
  <1>1. Holders' = Holders /\ \A s \in Slots : HoldersOf(s)' = HoldersOf(s)
    BY DEF Holders, HoldersOf
  <1>2. usage'.global = Cardinality(Holders') /\ \A s \in Slots : usage'.key[s] = Cardinality(HoldersOf(s)') + Cardinality(Taking(s)')
    BY <1>1, BudgetFacts
  <1> QED BY <1>2, BudgetsAfter, BudgetFacts

\* A permit is dropped.
LEMMA HolderLess ==
    ASSUME KeyedTypeOK, BudgetsExact, NEW j \in JobIds, Holds(j), ~Holds(j)', \A i \in JobIds \ {j} : Holds(i)' <=> Holds(i),
           \A s \in Slots : Taking(s)' = Taking(s), usage' = WithoutPermit(KeyOf(j))
    PROVE  BudgetsExact' /\ usage' \in UsageType
  <1>1. PICK x \in Slots : x = KeySlot(KeyOf(j))
    BY ConstantFacts
  <1>2. Holders' = Holders \ {j} /\ j \in Holders
    BY DEF Holders
  <1>3. HoldersOf(x)' = HoldersOf(x) \ {j} /\ j \in HoldersOf(x) /\ \A s \in Slots \ {x} : HoldersOf(s)' = HoldersOf(s)
    BY <1>1 DEF HoldersOf
  <1>4. Cardinality(Holders') = Cardinality(Holders) - 1 /\ Cardinality(Holders) > 0
    BY <1>2, BudgetFacts, OneLess
  <1>5. Cardinality(HoldersOf(x)') = Cardinality(HoldersOf(x)) - 1 /\ Cardinality(HoldersOf(x)) > 0
    BY <1>1, <1>3, BudgetFacts, OneLess
  <1>6. usage' = [usage EXCEPT !.key = [usage.key EXCEPT ![x] = @ - 1], !.global = @ - 1]
    BY <1>1, BudgetFacts DEF WithoutPermit, UsageType
  <1>7. usage.key[x] - 1 \in 0 .. KeyLimit /\ usage.global - 1 \in 0 .. GlobalLimit
    BY <1>1, <1>4, <1>5, BudgetFacts
  <1>8. [usage.key EXCEPT ![x] = @ - 1] \in [Slots -> 0 .. KeyLimit]
    BY <1>7, BudgetFacts
  <1>9. usage' \in UsageType /\ usage'.global = usage.global - 1 /\ usage'.key = [usage.key EXCEPT ![x] = @ - 1]
    BY <1>6, <1>7, <1>8, BudgetFacts DEF UsageType
  <1>10. usage'.key[x] = usage.key[x] - 1 /\ \A s \in Slots \ {x} : usage'.key[s] = usage.key[s]
    BY <1>9, BudgetFacts
  <1>11. usage'.global = Cardinality(Holders')
    BY <1>4, <1>9, BudgetFacts
  <1>12. usage'.key[x] = Cardinality(HoldersOf(x)') + Cardinality(Taking(x)')
    BY <1>1, <1>5, <1>10, BudgetFacts
  <1>13. \A s \in Slots \ {x} : usage'.key[s] = Cardinality(HoldersOf(s)') + Cardinality(Taking(s)')
    BY <1>3, <1>10, BudgetFacts
  <1> QED BY <1>9, <1>11, <1>12, <1>13, BudgetsAfter

\* What a step of d's call, for job j of slot x, does to who holds and who takes.
CallHeld(d, j, x) ==
    /\ \A i \in JobIds \ {j} : Holds(i)' <=> Holds(i)
    /\ Holds(j) <=> (jobs[j].phase \in {"queued", "running"} \/ dispatch[d].at = "sending")
    /\ Holds(j)' <=> (jobs'[j].phase \in {"queued", "running"} \/ dispatch'[d].at = "sending")
    /\ \A s \in Slots \ {x} : Taking(s)' = Taking(s)
    /\ Taking(x)' = IF dispatch'[d].at = "reserveGlobal" THEN Taking(x) \cup {d} ELSE Taking(x) \ {d}
    /\ d \in Taking(x) <=> dispatch[d].at = "reserveGlobal"
    /\ dispatch[d].at # "sent" => jobs[j].phase = "admitting"

LEMMA CallHolds ==
    ASSUME KeyedTypeOK, DispatchInv, NEW d \in Dispatchers, DispatchStep(d) \/ SendFails(d) \/ CancelDispatch(d),
           NEW j \in JobIds, j = dispatch[d].job, NEW x \in Slots, x = KeySlot(KeyOf(j))
    PROVE  CallHeld(d, j, x)
  <1>1. /\ \A b \in Dispatchers \ {d} : dispatch'[b] = dispatch[b] /\ (dispatch[b].at # "idle" => dispatch[b].job # j)
        /\ dispatch[d].at # "idle" /\ dispatch[d].job = j /\ (dispatch'[d].at # "idle" => dispatch'[d].job = j)
        /\ dispatch[d].at # "sent" => jobs[j].phase = "admitting"
        /\ \A i \in JobIds \ {j} : jobs'[i].phase = jobs[i].phase
    BY CallWork, CallFacts
  <1>2. \A i \in JobIds \ {j} : Holds(i)' <=> Holds(i)
    BY <1>1 DEF Holds
  <1>3. /\ Holds(j) <=> (jobs[j].phase \in {"queued", "running"} \/ dispatch[d].at = "sending")
        /\ Holds(j)' <=> (jobs'[j].phase \in {"queued", "running"} \/ dispatch'[d].at = "sending")
    BY <1>1 DEF Holds
  <1>4. \A s \in Slots : \A b \in Dispatchers \ {d} : b \in Taking(s)' <=> b \in Taking(s)
    BY <1>1 DEF Taking, SlotOf
  <1>5. \A s \in Slots : d \in Taking(s) <=> (dispatch[d].at = "reserveGlobal" /\ s = x)
    BY <1>1 DEF Taking, SlotOf
  <1>6. \A s \in Slots : d \in Taking(s)' <=> (dispatch'[d].at = "reserveGlobal" /\ s = x)
    BY <1>1 DEF Taking, SlotOf
  <1>7. \A s \in Slots : Taking(s) \subseteq Dispatchers /\ Taking(s)' \subseteq Dispatchers
    BY DEF Taking
  <1>8. \A s \in Slots \ {x} : Taking(s)' = Taking(s)
    <2> TAKE s \in Slots \ {x}
    <2>1. d \notin Taking(s) /\ d \notin Taking(s)'
      BY <1>5, <1>6
    <2>2. \A b \in Dispatchers \ {d} : b \in Taking(s)' <=> b \in Taking(s)
      BY <1>4
    <2>3. Taking(s) \subseteq Dispatchers /\ Taking(s)' \subseteq Dispatchers
      BY <1>7
    <2> QED BY <2>1, <2>2, <2>3
  <1>9. Taking(x)' = IF dispatch'[d].at = "reserveGlobal" THEN Taking(x) \cup {d} ELSE Taking(x) \ {d}
    <2>1. d \in Taking(x)' <=> dispatch'[d].at = "reserveGlobal"
      BY <1>6
    <2>2. \A b \in Dispatchers \ {d} : b \in Taking(x)' <=> b \in Taking(x)
      BY <1>4
    <2>3. Taking(x) \subseteq Dispatchers /\ Taking(x)' \subseteq Dispatchers
      BY <1>7
    <2> QED BY <2>1, <2>2, <2>3
  <1>10. d \in Taking(x) <=> dispatch[d].at = "reserveGlobal"
    BY <1>5
  <1> QED BY <1>1, <1>2, <1>3, <1>8, <1>9, <1>10 DEF CallHeld

\* The unit of the key's slot is taken, or given back; the global one is taken.
LEMMA ReserveBudgets ==
    ASSUME KeyedTypeOK, BudgetsExact, DispatchInv, NEW d \in Dispatchers, Reserve(d) \/ RefuseBudget(d)
    PROVE  BudgetsExact' /\ usage' \in UsageType
  <1>0. dispatch[d].at \in {"reserveKey", "reserveGlobal"} /\ DispatchStep(d)
    BY DEF Reserve, RefuseBudget, DispatchStep
  <1>1. PICK j \in JobIds : j = dispatch[d].job
    BY <1>0, CallFacts
  <1>2. PICK x \in Slots : x = KeySlot(KeyOf(j)) /\ x = SlotOf(d)
    BY <1>1, ConstantFacts DEF SlotOf
  <1>h. CallHeld(d, j, x)
    BY <1>0, <1>1, <1>2, CallHolds
  <1>n. ~Holds(j)
    BY <1>0, <1>h DEF CallHeld
  <1>3. CASE Reserve(d) /\ dispatch[d].at = "reserveKey"
    <2>1. /\ usage' = [usage EXCEPT !.key[x] = @ + 1] /\ usage.key[x] < KeyLimit /\ UNCHANGED jobs
          /\ dispatch' = [dispatch EXCEPT ![d].at = "reserveGlobal"]
      BY <1>2, <1>3 DEF Reserve, FitsScope
    <2>2. dispatch'[d].at = "reserveGlobal"
      BY <2>1, GoesOnEffect DEF GoesOn
    <2>3. \A i \in JobIds : Holds(i)' <=> Holds(i)
      BY <1>h, <1>3, <2>1, <2>2 DEF CallHeld
    <2>4. Holders' = Holders /\ \A s \in Slots : HoldersOf(s)' = HoldersOf(s)
      BY <2>3 DEF Holders, HoldersOf
    <2>5. Taking(x)' = Taking(x) \cup {d} /\ d \notin Taking(x) /\ \A s \in Slots \ {x} : Taking(s)' = Taking(s)
      BY <1>h, <1>3, <2>2 DEF CallHeld
    <2>6. Cardinality(Taking(x)') = Cardinality(Taking(x)) + 1
      BY <2>5, BudgetFacts, OneMore
    <2>7. [usage.key EXCEPT ![x] = @ + 1] \in [Slots -> 0 .. KeyLimit]
      BY <2>1, BudgetFacts
    <2>8. usage' \in UsageType /\ usage'.global = usage.global /\ usage'.key = [usage.key EXCEPT ![x] = @ + 1]
      BY <2>1, <2>7, BudgetFacts DEF UsageType
    <2>9. usage'.key[x] = usage.key[x] + 1 /\ \A s \in Slots \ {x} : usage'.key[s] = usage.key[s]
      BY <2>8, BudgetFacts
    <2>10. usage'.key[x] = Cardinality(HoldersOf(x)') + Cardinality(Taking(x)')
      BY <2>4, <2>6, <2>9, BudgetFacts
    <2>11. \A s \in Slots \ {x} : usage'.key[s] = Cardinality(HoldersOf(s)') + Cardinality(Taking(s)')
      BY <2>4, <2>5, <2>9, BudgetFacts
    <2>12. usage'.global = Cardinality(Holders')
      BY <2>4, <2>8, BudgetFacts
    <2> QED BY <2>8, <2>10, <2>11, <2>12, BudgetsAfter
  <1>4. CASE Reserve(d) /\ dispatch[d].at = "reserveGlobal"
    <2>1. /\ usage' = [usage EXCEPT !.global = @ + 1] /\ usage.global < GlobalLimit /\ UNCHANGED jobs
          /\ dispatch' = [dispatch EXCEPT ![d].at = "sending"]
      BY <1>4 DEF Reserve, FitsScope
    <2>2. dispatch'[d].at = "sending"
      BY <2>1, GoesOnEffect DEF GoesOn
    <2>3. Holds(j)'
      BY <1>h, <2>2 DEF CallHeld
    <2>4. Holders' = Holders \cup {j} /\ j \notin Holders
      BY <1>h, <1>n, <2>3 DEF Holders, CallHeld
    <2>5. HoldersOf(x)' = HoldersOf(x) \cup {j} /\ j \notin HoldersOf(x) /\ \A s \in Slots \ {x} : HoldersOf(s)' = HoldersOf(s)
      BY <1>h, <1>n, <1>2, <2>3 DEF HoldersOf, CallHeld
    <2>6. Taking(x)' = Taking(x) \ {d} /\ d \in Taking(x) /\ \A s \in Slots \ {x} : Taking(s)' = Taking(s)
      BY <1>h, <1>4, <2>2 DEF CallHeld
    <2>7. Cardinality(Holders') = Cardinality(Holders) + 1
      BY <2>4, BudgetFacts, OneMore
    <2>8. Cardinality(HoldersOf(x)') = Cardinality(HoldersOf(x)) + 1
      BY <2>5, BudgetFacts, OneMore
    <2>9. Cardinality(Taking(x)') = Cardinality(Taking(x)) - 1
      BY <2>6, BudgetFacts, OneLess
    <2>10. usage' \in UsageType /\ usage'.global = usage.global + 1 /\ usage'.key = usage.key
      <3>1. usage.global + 1 \in 0 .. GlobalLimit
        BY <2>1, BudgetFacts
      <3> QED BY <2>1, <3>1, BudgetFacts DEF UsageType
    <2>11. usage'.key[x] = Cardinality(HoldersOf(x)') + Cardinality(Taking(x)')
      BY <2>8, <2>9, <2>10, BudgetFacts
    <2>12. \A s \in Slots \ {x} : usage'.key[s] = Cardinality(HoldersOf(s)') + Cardinality(Taking(s)')
      BY <2>5, <2>6, <2>10, BudgetFacts
    <2>13. usage'.global = Cardinality(Holders')
      BY <2>7, <2>10, BudgetFacts
    <2> QED BY <2>10, <2>11, <2>12, <2>13, BudgetsAfter
  <1>5. CASE RefuseBudget(d)
    <2>1. usage' = RolledBack(d) /\ Returned(d) /\ jobs' = [jobs EXCEPT ![j].phase = "dropped"]
      BY <1>1, <1>5 DEF RefuseBudget, Phase
    <2>2. dispatch'[d].at = "idle"
      BY <2>1, ReturnedEffect
    <2>3. jobs'[j].phase = "dropped"
      BY <2>1, PhaseEffect DEF PhaseOnly, Phases
    <2>4. \A i \in JobIds : Holds(i)' <=> Holds(i)
      BY <1>h, <1>n, <2>2, <2>3 DEF CallHeld
    <2>5. CASE dispatch[d].at = "reserveKey"
      <3>1. UNCHANGED usage
        BY <2>1, <2>5 DEF RolledBack
      <3>0. Taking(x)' = Taking(x)
        BY <1>h, <2>2, <2>5 DEF CallHeld
      <3>2. \A s \in Slots : Taking(s)' = Taking(s)
        BY <1>h, <3>0 DEF CallHeld
      <3> QED BY <2>4, <3>1, <3>2, HoldersSame
    <2>6. CASE dispatch[d].at = "reserveGlobal"
      <3>1. usage' = [usage EXCEPT !.key[x] = @ - 1]
        BY <1>2, <2>1, <2>6 DEF RolledBack
      <3>2. Taking(x)' = Taking(x) \ {d} /\ d \in Taking(x) /\ \A s \in Slots \ {x} : Taking(s)' = Taking(s)
        BY <1>h, <2>2, <2>6 DEF CallHeld
      <3>3. Holders' = Holders /\ \A s \in Slots : HoldersOf(s)' = HoldersOf(s)
        BY <2>4 DEF Holders, HoldersOf
      <3>4. Cardinality(Taking(x)') = Cardinality(Taking(x)) - 1 /\ Cardinality(Taking(x)) > 0
        BY <3>2, BudgetFacts, OneLess
      <3>5. usage.key[x] - 1 \in 0 .. KeyLimit
        BY <3>4, BudgetFacts
      <3>6. [usage.key EXCEPT ![x] = @ - 1] \in [Slots -> 0 .. KeyLimit]
        BY <3>5, BudgetFacts
      <3>7. usage' \in UsageType /\ usage'.global = usage.global /\ usage'.key = [usage.key EXCEPT ![x] = @ - 1]
        BY <3>1, <3>6, BudgetFacts DEF UsageType
      <3>8. usage'.key[x] = usage.key[x] - 1 /\ \A s \in Slots \ {x} : usage'.key[s] = usage.key[s]
        BY <3>7, BudgetFacts
      <3>9. usage'.key[x] = Cardinality(HoldersOf(x)') + Cardinality(Taking(x)')
        BY <3>3, <3>4, <3>8, BudgetFacts
      <3>10. \A s \in Slots \ {x} : usage'.key[s] = Cardinality(HoldersOf(s)') + Cardinality(Taking(s)')
        BY <3>2, <3>3, <3>8, BudgetFacts
      <3>11. usage'.global = Cardinality(Holders')
        BY <3>3, <3>7, BudgetFacts
      <3> QED BY <3>7, <3>9, <3>10, <3>11, BudgetsAfter
    <2> QED BY <1>0, <2>5, <2>6
  <1> QED BY <1>0, <1>3, <1>4, <1>5

\* The other steps of d's call.
LEMMA CallBudgets ==
    ASSUME KeyedTypeOK, BudgetsExact, DispatchInv, NEW d \in Dispatchers, DispatchStep(d) \/ SendFails(d) \/ CancelDispatch(d)
    PROVE  BudgetsExact' /\ usage' \in UsageType
  <1>0. dispatch[d].at # "idle"
    BY CallWork
  <1>1. PICK j \in JobIds : j = dispatch[d].job
    BY <1>0, CallFacts
  <1>2. PICK x \in Slots : x = KeySlot(KeyOf(j))
    BY <1>1, ConstantFacts
  <1>h. CallHeld(d, j, x)
    BY <1>0, <1>1, <1>2, CallHolds
  <1>t. dispatch[d].at # "reserveGlobal" /\ dispatch'[d].at # "reserveGlobal" => \A s \in Slots : Taking(s)' = Taking(s)
    <2> SUFFICES ASSUME dispatch[d].at # "reserveGlobal", dispatch'[d].at # "reserveGlobal" PROVE \A s \in Slots : Taking(s)' = Taking(s)
      OBVIOUS
    <2>1. Taking(x)' = Taking(x)
      BY <1>h DEF CallHeld
    <2> QED BY <1>h, <2>1 DEF CallHeld
  <1>3. CASE Reserve(d) \/ RefuseBudget(d)
    BY <1>3, ReserveBudgets
  <1>4. CASE LoadMapping(d)
    <2>1. UNCHANGED <<usage, jobs>> /\ dispatch[d].at = "counted" /\ dispatch'[d].at = "reserveKey"
      BY <1>4, LoadEffect DEF LoadMapping, GoesOn
    <2> QED BY <1>h, <1>t, <2>1, HoldersSame DEF CallHeld
  <1>5. CASE RefuseDraining(d)
    <2>1. UNCHANGED usage /\ dispatch[d].at = "counted" /\ Returned(d) /\ jobs' = [jobs EXCEPT ![j].phase = "dropped"]
      BY <1>1, <1>5 DEF RefuseDraining, Phase
    <2>2. dispatch'[d].at = "idle" /\ jobs'[j].phase = "dropped"
      BY <2>1, ReturnedEffect, PhaseEffect DEF PhaseOnly, Phases
    <2> QED BY <1>h, <1>t, <2>1, <2>2, HoldersSame DEF CallHeld
  <1>6. CASE Send(d)
    <2>1. UNCHANGED usage /\ dispatch[d].at = "sending" /\ dispatch'[d].at = "sent" /\ jobs'[j].phase = "queued"
      BY <1>1, <1>6, SendEffect DEF Send, GoesOn, PhaseOnly
    <2> QED BY <1>h, <1>t, <2>1, HoldersSame DEF CallHeld
  <1>7. CASE SendFails(d) \/ CancelDispatch(d)
    <2>1. usage' = WithoutPermit(KeyOf(j)) /\ dispatch[d].at = "sending" /\ Returned(d) /\ jobs' = [jobs EXCEPT ![j].phase = "dropped"]
      BY <1>1, <1>7 DEF SendFails, CancelDispatch, Phase
    <2>2. dispatch'[d].at = "idle" /\ jobs'[j].phase = "dropped"
      BY <2>1, ReturnedEffect, PhaseEffect DEF PhaseOnly, Phases
    <2>3. Holds(j) /\ ~Holds(j)'
      BY <1>h, <2>1, <2>2 DEF CallHeld
    <2> QED BY <1>h, <1>t, <2>1, <2>2, <2>3, HolderLess DEF CallHeld
  <1>8. CASE FinishDispatch(d)
    <2>1. UNCHANGED <<usage, jobs>> /\ dispatch[d].at = "sent" /\ Returned(d)
      BY <1>8 DEF FinishDispatch
    <2>2. dispatch'[d].at = "idle"
      BY <2>1, ReturnedEffect
    <2> QED BY <1>h, <1>t, <2>1, <2>2, HoldersSame DEF CallHeld
  <1> QED BY <1>3, <1>4, <1>5, <1>6, <1>7, <1>8 DEF DispatchStep

\* A channel is dropped with the permits of its jobs.
LEMMA CloseBudgets ==
    ASSUME KeyedTypeOK, BudgetsExact, DispatchInv, PlaceInv, UniqueInv, NEW w \in Workers, Close(w)
    PROVE  BudgetsExact' /\ usage' \in UsageType
  <1> DEFINE P == {i \in DOMAIN channel[w] : channel[w][i].type = "job"}
             Q(s) == {i \in DOMAIN channel[w] : channel[w][i].type = "job" /\ KeySlot(KeyOf(channel[w][i].job)) = s}
             E(s) == {j \in Dropped(w) : KeySlot(KeyOf(j)) = s}
  <1>1. /\ \A i \in JobIds \ Dropped(w) : jobs'[i].phase = jobs[i].phase
        /\ \A i \in Dropped(w) : jobs'[i].phase = "dropped" /\ jobs[i].phase = "queued" /\ i \in JobIds
        /\ UNCHANGED dispatch
    <2>1. \A i \in JobIds : jobs[i] \in [phase : Phases, after : SUBSET JobIds]
      BY TypeFacts
    <2>2. \A i \in JobIds : jobs'[i] = IF i \in Dropped(w) THEN [jobs[i] EXCEPT !.phase = "dropped"] ELSE jobs[i]
      BY CloseEffect DEF Dropped
    <2>3. \A i \in Dropped(w) : jobs[i].phase = "queued" /\ i \in JobIds
      BY DEF Dropped, PlaceInv
    <2>4. UNCHANGED dispatch
      BY DEF Close
    <2> QED BY <2>1, <2>2, <2>3, <2>4
  <1>2. \A i \in Dropped(w) : \A d \in Dispatchers : dispatch[d].at = "sending" => dispatch[d].job # i
    BY <1>1 DEF DispatchInv
  <1>3. \A i \in JobIds : Holds(i)' <=> (Holds(i) /\ i \notin Dropped(w))
    BY <1>1, <1>2 DEF Holds
  <1>4. \A i \in Dropped(w) : Holds(i) /\ i \in JobIds
    BY <1>1 DEF Holds
  <1>5. Holders' = Holders \ Dropped(w) /\ Dropped(w) \subseteq Holders
    BY <1>3, <1>4 DEF Holders
  <1>6. \A s \in Slots : HoldersOf(s)' = HoldersOf(s) \ E(s) /\ E(s) \subseteq HoldersOf(s)
    BY <1>3, <1>4 DEF HoldersOf
  <1>7. \A s \in Slots : Taking(s)' = Taking(s)
    BY <1>1 DEF Taking, SlotOf
  <1>f. IsFiniteSet(DOMAIN channel[w])
    <2>1. DOMAIN channel[w] = 1 .. Len(channel[w]) /\ Len(channel[w]) \in Nat
      BY TypeFacts
    <2> QED BY <2>1, FS_Interval
  <1>8. \A i \in P : channel[w][i].job \in Dropped(w)
    BY TypeFacts DEF Dropped, JobAt
  <1>9. \A i, n \in P : channel[w][i].job = channel[w][n].job => i = n
    BY DEF UniqueInv, JobAt
  <1>10. \A j \in Dropped(w) : \E i \in P : channel[w][i].job = j
    BY DEF Dropped, JobAt
  <1>11. Cardinality(Dropped(w)) = Cardinality(P) /\ Cardinality(P) \in Nat /\ IsFiniteSet(Dropped(w))
    <2> DEFINE f == [i \in P |-> channel[w][i].job]
    <2>1. IsFiniteSet(P)
      BY <1>f, FewerCounted
    <2>2. f \in Bijection(P, Dropped(w))
      <3> HIDE DEF P
      <3> QED BY <1>8, <1>9, <1>10 DEF Bijection, Injection, Surjection, IsInjective
    <2> QED BY <2>1, <2>2, FS_Bijection, FS_CardinalityType DEF ExistsBijection
  <1>12. \A s \in Slots : Cardinality(E(s)) = Cardinality(Q(s)) /\ Cardinality(Q(s)) \in Nat /\ IsFiniteSet(E(s))
    <2> TAKE s \in Slots
    <2> DEFINE f == [i \in Q(s) |-> channel[w][i].job]
    <2>1. IsFiniteSet(Q(s))
      BY <1>f, FewerCounted
    <2>2. f \in Bijection(Q(s), E(s))
      <3>1. Q(s) = {i \in P : KeySlot(KeyOf(channel[w][i].job)) = s}
        OBVIOUS
      <3> HIDE DEF P, Q
      <3>2. /\ \A i \in Q(s) : channel[w][i].job \in E(s)
            /\ \A i, n \in Q(s) : channel[w][i].job = channel[w][n].job => i = n
            /\ \A j \in E(s) : \E i \in Q(s) : channel[w][i].job = j
        BY <3>1, <1>8, <1>9, <1>10
      <3> HIDE DEF E
      <3> QED BY <3>2 DEF Bijection, Injection, Surjection, IsInjective
    <2> QED BY <2>1, <2>2, FS_Bijection, FS_CardinalityType DEF ExistsBijection
  <1>13. usage' = [usage EXCEPT !.key = [s \in Slots |-> usage.key[s] - Cardinality(Q(s))], !.global = @ - Cardinality(P)]
    BY BudgetFacts DEF Close, AfterDrop, UsageType
  <1>14. Cardinality(Holders') = Cardinality(Holders) - Cardinality(P) /\ Cardinality(Holders') \in Nat
    <2>1. Cardinality(Holders \ Dropped(w)) = Cardinality(Holders) - Cardinality(Holders \cap Dropped(w)) /\ IsFiniteSet(Holders \ Dropped(w))
      BY BudgetFacts, FS_Difference
    <2>2. Holders \cap Dropped(w) = Dropped(w)
      BY <1>5
    <2> QED BY <1>5, <1>11, <2>1, <2>2, FS_CardinalityType
  <1>15. \A s \in Slots : Cardinality(HoldersOf(s)') = Cardinality(HoldersOf(s)) - Cardinality(Q(s)) /\ Cardinality(HoldersOf(s)') \in Nat
    <2> TAKE s \in Slots
    <2>1. Cardinality(HoldersOf(s) \ E(s)) = Cardinality(HoldersOf(s)) - Cardinality(HoldersOf(s) \cap E(s)) /\ IsFiniteSet(HoldersOf(s) \ E(s))
      BY BudgetFacts, FS_Difference
    <2>2. HoldersOf(s) \cap E(s) = E(s)
      BY <1>6
    <2> HIDE DEF E, Q
    <2> QED BY <1>6, <1>12, <2>1, <2>2, FS_CardinalityType
  <1> HIDE DEF P, Q, E
  <1>16. usage.global - Cardinality(P) \in 0 .. GlobalLimit
    BY <1>11, <1>14, BudgetFacts
  <1>17. [s \in Slots |-> usage.key[s] - Cardinality(Q(s))] \in [Slots -> 0 .. KeyLimit]
    <2>1. \A s \in Slots : usage.key[s] - Cardinality(Q(s)) \in 0 .. KeyLimit
      BY <1>12, <1>15, BudgetFacts
    <2> QED BY <2>1
  <1>18. /\ usage' \in UsageType /\ usage'.global = usage.global - Cardinality(P)
         /\ usage'.key = [s \in Slots |-> usage.key[s] - Cardinality(Q(s))]
    BY <1>13, <1>16, <1>17, BudgetFacts DEF UsageType
  <1>19. \A s \in Slots : usage'.key[s] = Cardinality(HoldersOf(s)') + Cardinality(Taking(s)')
    BY <1>7, <1>12, <1>15, <1>18, BudgetFacts
  <1>20. usage'.global = Cardinality(Holders')
    BY <1>14, <1>18, BudgetFacts
  <1> QED BY <1>18, <1>19, <1>20, BudgetsAfter

LEMMA BudgetsKept ==
    ASSUME KeyedInv, [KeyedNext]_keyedVars
    PROVE  BudgetsExact' /\ usage' \in UsageType
  <1> USE DEF KeyedInv
  <1>s. UNCHANGED dispatch => \A s \in Slots : Taking(s)' = Taking(s)
    BY DEF Taking, SlotOf
  <1>1. ASSUME NEW j \in JobIds, BeginDispatch(j) PROVE BudgetsExact' /\ usage' \in UsageType
    <2>1. UNCHANGED usage
      BY <1>1 DEF BeginDispatch
    <2>2. /\ Calls[j].by \in Dispatchers /\ dispatch[Calls[j].by].at = "idle" /\ jobs[j].phase = "none"
          /\ \A b \in Dispatchers \ {Calls[j].by} : dispatch'[b] = dispatch[b]
          /\ dispatch'[Calls[j].by].at = "counted" /\ \A i \in JobIds \ {j} : jobs'[i] = jobs[i]
          /\ jobs'[j].phase = "admitting"
      BY <1>1, BeginEffect
    <2>3. \A i \in JobIds : Holds(i)' <=> Holds(i)
      BY <2>2 DEF Holds
    <2>4. \A s \in Slots : Taking(s)' = Taking(s)
      BY <2>2 DEF Taking, SlotOf
    <2> QED BY <2>1, <2>3, <2>4, HoldersSame
  <1>2. ASSUME NEW d \in Dispatchers, DispatchStep(d) \/ SendFails(d) \/ CancelDispatch(d) PROVE BudgetsExact' /\ usage' \in UsageType
    BY <1>2, CallBudgets
  <1>3. ASSUME NEW w \in Workers, Start(w) PROVE BudgetsExact' /\ usage' \in UsageType
    <2>1. PICK c \in Classes, k \in Keys, j \in JobIds : Started(w, c, k, j)
      BY <1>3, StartEffect
    <2>2. JobsOf(w, k) # <<>> /\ JobsOf(w, k) \in Seq(JobIds) /\ j = Head(JobsOf(w, k)) /\ jobs' = [jobs EXCEPT ![j].phase = "running"]
      BY <2>1, TypeFacts DEF Started
    <2>3. j = JobsOf(w, k)[1] /\ 1 \in DOMAIN JobsOf(w, k)
      BY <2>2, Shortened
    <2>4. jobs[j].phase = "queued"
      BY <2>3 DEF PlaceInv
    <2>5. PhaseOnly(j, "running")
      BY <2>2, PhaseEffect DEF Phases
    <2>6. UNCHANGED <<dispatch, usage>>
      BY <1>3 DEF Start
    <2>7. \A i \in JobIds : Holds(i)' <=> Holds(i)
      BY <2>4, <2>5, <2>6 DEF Holds, PhaseOnly
    <2> QED BY <1>s, <2>6, <2>7, HoldersSame
  <1>4. ASSUME UNCHANGED <<jobs, dispatch, usage>> PROVE BudgetsExact' /\ usage' \in UsageType
    <2>1. \A i \in JobIds : Holds(i)' <=> Holds(i)
      BY <1>4 DEF Holds
    <2> QED BY <1>s, <1>4, <2>1, HoldersSame
  <1>5. ASSUME NEW w \in Workers, Notify(w) \/ Receive(w) PROVE UNCHANGED <<jobs, dispatch, usage>>
    BY <1>5 DEF Notify, Receive, dispatching
  <1>6. ASSUME NEW w \in Workers, NEW j \in JobIds, Complete(w, j) \/ Panic(w, j) PROVE BudgetsExact' /\ usage' \in UsageType
    <2> DEFINE x == IF Complete(w, j) THEN "done" ELSE "dropped"
    <2>1. PhaseOnly(j, x) /\ jobs[j].phase = "running"
      BY <1>6, EndedEffect DEF Ended
    <2>2. x \in {"done", "dropped"}
      OBVIOUS
    <2> HIDE DEF x
    <2>3. UNCHANGED dispatch /\ usage' = WithoutPermit(KeyOf(j))
      BY <1>6 DEF Complete, Panic
    <2>4. \A d \in Dispatchers : dispatch[d].at = "sending" => dispatch[d].job # j
      BY <2>1 DEF DispatchInv
    <2>5. Holds(j) /\ ~Holds(j)' /\ \A i \in JobIds \ {j} : Holds(i)' <=> Holds(i)
      BY <2>1, <2>2, <2>3, <2>4 DEF Holds, PhaseOnly
    <2> QED BY <1>s, <2>3, <2>5, HolderLess
  <1>7. ASSUME NEW w \in Workers, Close(w) PROVE BudgetsExact' /\ usage' \in UsageType
    BY <1>7, CloseBudgets
  <1>8. CASE \/ \E r \in Remappers : (\E k \in Keys, target \in Workers : BeginRemap(r, k, target)) \/ RemapStep(r) \/ AbortRemap(r) \/ CancelRemap(r)
             \/ TryShutdown
             \/ UNCHANGED keyedVars
    BY <1>4, <1>8, OtherWork
  <1> QED BY <1>1, <1>2, <1>3, <1>4, <1>5, <1>6, <1>7, <1>8 DEF KeyedNext, WorkerStep

-----------------------------------------------------------------------------
(* KeyedTypeOK, and the whole invariant.                                   *)

LEMMA ChannelKept ==
    ASSUME KeyedInv, [KeyedNext]_keyedVars
    PROVE  channel' \in [Workers -> Seq(Message)] /\ \A w \in Workers : Len(channel'[w]) <= QueueDepth
  <1> USE DEF KeyedInv
  <1>t. /\ channel \in [Workers -> Seq(Message)] /\ QueueDepth \in Nat
        /\ \A w \in Workers : channel[w] \in Seq(Message) /\ Len(channel[w]) <= QueueDepth /\ Len(channel[w]) \in Nat
    BY TypeFacts, LimitsAssumption DEF KeyedTypeOK
  <1>p. ASSUME NEW w \in Workers, NEW m \in Message, Pushed(w, m), Len(channel[w]) < QueueDepth
        PROVE  channel' \in [Workers -> Seq(Message)] /\ \A v \in Workers : Len(channel'[v]) <= QueueDepth
    <2>1. channel' \in [Workers -> Seq(Message)] /\ Len(channel'[w]) = Len(channel[w]) + 1 /\ \A v \in Workers \ {w} : channel'[v] = channel[v]
      BY <1>p DEF Pushed
    <2>2. Len(channel'[w]) <= QueueDepth
      BY <1>p, <1>t, <2>1
    <2> QED BY <1>t, <2>1, <2>2
  <1>1. ASSUME NEW d \in Dispatchers, Send(d)
        PROVE  channel' \in [Workers -> Seq(Message)] /\ \A v \in Workers : Len(channel'[v]) <= QueueDepth
    <2>1. Pushed(dispatch[d].worker, [type |-> "job", job |-> dispatch[d].job]) /\ dispatch[d].worker \in Workers
      BY <1>1, SendEffect
    <2>2. Len(channel[dispatch[d].worker]) < QueueDepth
      BY <1>1 DEF Send, OwnerFor
    <2>3. [type |-> "job", job |-> dispatch[d].job] \in Message
      BY <2>1 DEF Pushed
    <2> QED BY <1>p, <2>1, <2>2, <2>3
  <1>2. ASSUME NEW r \in Remappers, SendBarrier(r)
        PROVE  channel' \in [Workers -> Seq(Message)] /\ \A v \in Workers : Len(channel'[v]) <= QueueDepth
    <2>1. Pushed(remap[r].old, [type |-> "barrier", slot |-> remap[r].slot, call |-> remap[r].call])
      BY <1>2, BarrierEffect
    <2>2. Len(channel[remap[r].old]) < QueueDepth /\ remap[r].old \in Workers
      BY <1>2 DEF SendBarrier, KeyedTypeOK
    <2>3. [type |-> "barrier", slot |-> remap[r].slot, call |-> remap[r].call] \in Message
      BY <2>1 DEF Pushed
    <2> QED BY <1>p, <2>1, <2>2, <2>3
  <1>3. ASSUME NEW w \in Workers, Receive(w)
        PROVE  channel' \in [Workers -> Seq(Message)] /\ \A v \in Workers : Len(channel'[v]) <= QueueDepth
    <2>1. channel' \in [Workers -> Seq(Message)] /\ Len(channel'[w]) = Len(channel[w]) - 1 /\ \A v \in Workers \ {w} : channel'[v] = channel[v]
      BY <1>3, ReceiveTakes DEF Taken
    <2>2. Len(channel'[w]) <= QueueDepth
      BY <1>t, <2>1
    <2> QED BY <1>t, <2>1, <2>2
  <1>4. ASSUME NEW w \in Workers, Close(w)
        PROVE  channel' \in [Workers -> Seq(Message)] /\ \A v \in Workers : Len(channel'[v]) <= QueueDepth
    <2>1. channel' \in [Workers -> Seq(Message)] /\ channel'[w] = <<>> /\ \A v \in Workers \ {w} : channel'[v] = channel[v]
      BY <1>4, CloseEffect
    <2>2. Len(channel'[w]) <= QueueDepth
      BY <1>t, <2>1, EmptySeq
    <2> QED BY <1>t, <2>1, <2>2
  <1>5. ASSUME TryShutdown
        PROVE  channel' \in [Workers -> Seq(Message)] /\ \A v \in Workers : Len(channel'[v]) <= QueueDepth
    <2> DEFINE m == [type |-> "shutdown"]
    <2>1. channel' = [w \in Workers |-> IF worker[w].closed \/ Len(channel[w]) >= QueueDepth THEN channel[w] ELSE Append(channel[w], m)]
      BY <1>5 DEF TryShutdown
    <2>2. m \in Message
      BY DEF Message
    <2> HIDE DEF m
    <2>3. \A w \in Workers : Append(channel[w], m) \in Seq(Message) /\ Len(Append(channel[w], m)) = Len(channel[w]) + 1
      BY <1>t, <2>2, Appended
    <2>4. \A w \in Workers : channel'[w] = IF worker[w].closed \/ Len(channel[w]) >= QueueDepth THEN channel[w] ELSE Append(channel[w], m)
      BY <2>1
    <2>5. channel' \in [Workers -> Seq(Message)]
      BY <1>t, <2>1, <2>3
    <2> QED BY <1>t, <2>3, <2>4, <2>5
  <1>6. CASE UNCHANGED channel
    BY <1>6, <1>t
  <1>7. ASSUME NEW j \in JobIds, BeginDispatch(j) PROVE UNCHANGED channel
    BY <1>7 DEF BeginDispatch
  <1>8. ASSUME NEW d \in Dispatchers, (DispatchStep(d) /\ ~Send(d)) \/ SendFails(d) \/ CancelDispatch(d) PROVE UNCHANGED channel
    BY <1>8 DEF DispatchStep, LoadMapping, RefuseDraining, Reserve, RefuseBudget, FinishDispatch, SendFails, CancelDispatch
  <1>9. ASSUME NEW w \in Workers, Start(w) \/ Notify(w) \/ \E j \in JobIds : Complete(w, j) \/ Panic(w, j) PROVE UNCHANGED channel
    BY <1>9 DEF Start, Notify, Complete, Panic
  <1>10. ASSUME NEW r \in Remappers, (\E k \in Keys, target \in Workers : BeginRemap(r, k, target)) \/ FinishRemap(r) \/ AbortRemap(r) \/ CancelRemap(r)
         PROVE  UNCHANGED channel
    BY <1>10 DEF BeginRemap, FinishRemap, AbortRemap, CancelRemap
  <1>11. UNCHANGED keyedVars => UNCHANGED channel
    BY DEF keyedVars
  <1> QED BY <1>1, <1>2, <1>3, <1>4, <1>5, <1>6, <1>7, <1>8, <1>9, <1>10, <1>11 DEF KeyedNext, WorkerStep, RemapStep

LEMMA WorkersKept ==
    ASSUME KeyedInv, [KeyedNext]_keyedVars
    PROVE  worker' \in [Workers -> WorkerState] /\ \A w \in Workers : Cardinality(worker'[w].tasks) <= ActivePerWorker
  <1> USE DEF KeyedInv
  <1>t. /\ worker \in [Workers -> WorkerState] /\ ActivePerWorker \in Nat
        /\ \A w \in Workers : /\ Cardinality(worker[w].tasks) <= ActivePerWorker /\ IsFiniteSet(worker[w].tasks)
                              /\ Cardinality(worker[w].tasks) \in Nat
    BY TypeFacts, FS_CardinalityType, LimitsAssumption DEF KeyedTypeOK
  <1>o. ASSUME NEW w \in Workers, Only(w), worker'[w].tasks \subseteq worker[w].tasks
        PROVE  worker' \in [Workers -> WorkerState] /\ \A v \in Workers : Cardinality(worker'[v].tasks) <= ActivePerWorker
    <2>1. worker' \in [Workers -> WorkerState] /\ \A v \in Workers \ {w} : worker'[v] = worker[v]
      BY <1>o DEF Only
    <2>2. Cardinality(worker'[w].tasks) <= Cardinality(worker[w].tasks) /\ Cardinality(worker'[w].tasks) \in Nat
      BY <1>o, <1>t, FewerCounted
    <2>3. Cardinality(worker'[w].tasks) <= ActivePerWorker
      BY <1>t, <2>2
    <2> QED BY <1>t, <2>1, <2>3
  <1>1. ASSUME NEW w \in Workers, Start(w)
        PROVE  worker' \in [Workers -> WorkerState] /\ \A v \in Workers : Cardinality(worker'[v].tasks) <= ActivePerWorker
    <2>1. PICK c \in Classes, k \in Keys, j \in JobIds : Started(w, c, k, j)
      BY <1>1, StartEffect
    <2>2. /\ worker' \in [Workers -> WorkerState] /\ \A v \in Workers \ {w} : worker'[v] = worker[v]
          /\ worker'[w].tasks = worker[w].tasks \cup {j} /\ Cardinality(worker[w].tasks) < ActivePerWorker
      BY <2>1 DEF Started
    <2>3. Cardinality(worker'[w].tasks) <= ActivePerWorker
      <3>1. CASE j \in worker[w].tasks
        <4>1. worker'[w].tasks = worker[w].tasks
          BY <2>2, <3>1
        <4> QED BY <4>1, <1>t
      <3>2. CASE j \notin worker[w].tasks
        <4>1. Cardinality(worker'[w].tasks) = Cardinality(worker[w].tasks) + 1
          BY <1>t, <2>2, <3>2, OneMore
        <4> QED BY <4>1, <1>t, <2>2
      <3> QED BY <3>1, <3>2
    <2> QED BY <1>t, <2>2, <2>3
  <1>2. ASSUME NEW w \in Workers, Notify(w) PROVE Only(w) /\ worker'[w].tasks \subseteq worker[w].tasks
    BY <1>2, NotifyEffect
  <1>3. ASSUME NEW w \in Workers, Receive(w) PROVE Only(w) /\ worker'[w].tasks \subseteq worker[w].tasks
    <2>1. CASE channel[w][1].type = "job"
      BY <1>3, <2>1, ReceiveJobEffect
    <2>2. CASE channel[w][1].type # "job"
      BY <1>3, <2>2, ReceiveOtherEffect
    <2> QED BY <2>1, <2>2
  <1>4. ASSUME NEW w \in Workers, Close(w) PROVE Only(w) /\ worker'[w].tasks \subseteq worker[w].tasks
    BY <1>4, CloseEffect
  <1>5. ASSUME NEW w \in Workers, NEW j \in JobIds, Complete(w, j) \/ Panic(w, j) PROVE Only(w) /\ worker'[w].tasks \subseteq worker[w].tasks
    BY <1>5, EndedEffect DEF Ended
  <1>6. CASE UNCHANGED worker
    BY <1>6, <1>t
  <1>7. \/ \E w \in Workers : Start(w) \/ Notify(w) \/ Receive(w) \/ Close(w) \/ \E j \in JobIds : Complete(w, j) \/ Panic(w, j)
        \/ UNCHANGED worker
    BY DEF KeyedNext, BeginDispatch, DispatchStep, LoadMapping, RefuseDraining, Reserve, RefuseBudget, Send, FinishDispatch, SendFails,
           CancelDispatch, WorkerStep, BeginRemap, RemapStep, SendBarrier, FinishRemap, AbortRemap, CancelRemap, TryShutdown, keyedVars
  <1> QED BY <1>o, <1>1, <1>2, <1>3, <1>4, <1>5, <1>6, <1>7

LEMMA JobTypesKept ==
    ASSUME KeyedInv, [KeyedNext]_keyedVars
    PROVE  jobs' \in [JobIds -> [phase : Phases, after : SUBSET JobIds]] /\ dispatch' \in [Dispatchers -> CallState]
  <1> USE DEF KeyedInv
  <1>t. jobs \in [JobIds -> [phase : Phases, after : SUBSET JobIds]] /\ dispatch \in [Dispatchers -> CallState]
    BY DEF KeyedTypeOK, CallState
  <1>1. ASSUME NEW j \in JobIds, BeginDispatch(j)
        PROVE  jobs' \in [JobIds -> [phase : Phases, after : SUBSET JobIds]] /\ dispatch' \in [Dispatchers -> CallState]
    BY <1>1, BeginEffect
  <1>2. ASSUME NEW d \in Dispatchers, DispatchStep(d) \/ SendFails(d) \/ CancelDispatch(d)
        PROVE  jobs' \in [JobIds -> [phase : Phases, after : SUBSET JobIds]] /\ dispatch' \in [Dispatchers -> CallState]
    BY <1>2, CallWork
  <1>3. ASSUME NEW w \in Workers, WorkerStep(w) \/ \E j \in JobIds : Panic(w, j)
        PROVE  jobs' \in [JobIds -> [phase : Phases, after : SUBSET JobIds]] /\ dispatch' \in [Dispatchers -> CallState]
    <2>1. jobs' \in [JobIds -> [phase : Phases, after : SUBSET JobIds]] /\ UNCHANGED dispatch
      BY <1>3, WorkerWork DEF WorkOnly
    <2> QED BY <1>t, <2>1
  <1>4. CASE \/ \E r \in Remappers : (\E k \in Keys, target \in Workers : BeginRemap(r, k, target)) \/ RemapStep(r) \/ AbortRemap(r) \/ CancelRemap(r)
             \/ TryShutdown
             \/ UNCHANGED keyedVars
    <2>1. UNCHANGED <<jobs, dispatch>>
      BY <1>4, OtherWork
    <2> QED BY <1>t, <2>1
  <1> QED BY <1>1, <1>2, <1>3, <1>4 DEF KeyedNext

LEMMA BoundsKept ==
    ASSUME KeyedTypeOK, [KeyedNext]_keyedVars
    PROVE  remaps' \in 0 .. MaxRemaps /\ faults' \in 0 .. MaxFaults /\ shuttingDown' \in BOOLEAN
  <1>t. remaps \in 0 .. MaxRemaps /\ faults \in 0 .. MaxFaults /\ shuttingDown \in BOOLEAN /\ MaxRemaps \in Nat /\ MaxFaults \in Nat
    BY LimitsAssumption DEF KeyedTypeOK
  <1>1. ASSUME UNCHANGED <<remaps, shuttingDown>>, UNCHANGED faults \/ (faults' = faults + 1 /\ faults < MaxFaults)
        PROVE  remaps' \in 0 .. MaxRemaps /\ faults' \in 0 .. MaxFaults /\ shuttingDown' \in BOOLEAN
    BY <1>1, <1>t
  <1>2. ASSUME NEW j \in JobIds, BeginDispatch(j) PROVE UNCHANGED <<remaps, faults, shuttingDown>>
    BY <1>2 DEF BeginDispatch
  <1>3. ASSUME NEW d \in Dispatchers, DispatchStep(d) \/ SendFails(d) \/ CancelDispatch(d)
        PROVE  UNCHANGED <<remaps, shuttingDown>> /\ (UNCHANGED faults \/ (faults' = faults + 1 /\ faults < MaxFaults))
    BY <1>3 DEF DispatchStep, LoadMapping, RefuseDraining, Reserve, RefuseBudget, Send, FinishDispatch, SendFails, CancelDispatch
  <1>4. ASSUME NEW w \in Workers, WorkerStep(w) \/ \E j \in JobIds : Panic(w, j)
        PROVE  UNCHANGED <<remaps, shuttingDown>> /\ (UNCHANGED faults \/ (faults' = faults + 1 /\ faults < MaxFaults))
    BY <1>4 DEF WorkerStep, Start, Notify, Receive, Close, Complete, Panic
  <1>5. ASSUME NEW r \in Remappers, RemapStep(r) \/ AbortRemap(r) \/ CancelRemap(r)
        PROVE  UNCHANGED <<remaps, shuttingDown>> /\ (UNCHANGED faults \/ (faults' = faults + 1 /\ faults < MaxFaults))
    BY <1>5 DEF RemapStep, SendBarrier, FinishRemap, AbortRemap, CancelRemap
  <1>6. ASSUME NEW r \in Remappers, NEW k \in Keys, NEW target \in Workers, BeginRemap(r, k, target)
        PROVE  remaps' \in 0 .. MaxRemaps /\ faults' \in 0 .. MaxFaults /\ shuttingDown' \in BOOLEAN
    <2>1. remaps' = remaps + 1 /\ remaps < MaxRemaps /\ UNCHANGED <<faults, shuttingDown>>
      BY <1>6 DEF BeginRemap
    <2> QED BY <2>1, <1>t
  <1>7. ASSUME TryShutdown
        PROVE  remaps' \in 0 .. MaxRemaps /\ faults' \in 0 .. MaxFaults /\ shuttingDown' \in BOOLEAN
    <2>1. faults' = faults + 1 /\ faults < MaxFaults /\ UNCHANGED remaps /\ shuttingDown' = TRUE
      BY <1>7 DEF TryShutdown
    <2> QED BY <2>1, <1>t
  <1>8. UNCHANGED keyedVars => UNCHANGED <<remaps, faults, shuttingDown>>
    BY DEF keyedVars
  <1> QED BY <1>1, <1>2, <1>3, <1>4, <1>5, <1>6, <1>7, <1>8 DEF KeyedNext

LEMMA TypeKept ==
    ASSUME KeyedInv, [KeyedNext]_keyedVars
    PROVE  KeyedTypeOK'
  <1>1. jobs' \in [JobIds -> [phase : Phases, after : SUBSET JobIds]] /\ dispatch' \in [Dispatchers -> CallState]
    BY JobTypesKept
  <1>2. mapping' \in [Slots -> SlotType]
    BY MappingEffect DEF KeyedInv
  <1>3. inflight' \in [Slots -> Nat] /\ usage' \in UsageType
    BY InflightKept, BudgetsKept
  <1>4. channel' \in [Workers -> Seq(Message)] /\ \A w \in Workers : Len(channel'[w]) <= QueueDepth
    BY ChannelKept
  <1>5. worker' \in [Workers -> WorkerState] /\ \A w \in Workers : Cardinality(worker'[w].tasks) <= ActivePerWorker
    BY WorkersKept
  <1>6. remap' \in [Remappers -> RemapType]
    BY RemapSteps
  <1>7. remaps' \in 0 .. MaxRemaps /\ faults' \in 0 .. MaxFaults /\ shuttingDown' \in BOOLEAN
    BY BoundsKept DEF KeyedInv
  <1> QED BY <1>1, <1>2, <1>3, <1>4, <1>5, <1>6, <1>7 DEF KeyedTypeOK, CallState, SlotType, UsageType, RemapType

LEMMA KeyedStart ==
    ASSUME KeyedInit
    PROVE  KeyedInv
  <1> USE DEF KeyedInit
  <1>a. \A j \in JobIds : jobs[j].phase = "none" /\ jobs[j].after = {}
    OBVIOUS
  <1>b. \A d \in Dispatchers : dispatch[d].at = "idle"
    BY DEF NoDispatch
  <1>c. \A w \in Workers : channel[w] = <<>> /\ DOMAIN channel[w] = {} /\ Len(channel[w]) = 0
    BY EmptySeq
  <1>d. \A w \in Workers : worker[w].active = {} /\ worker[w].tasks = {} /\ worker[w].barriers = {}
    BY DEF NewWorker
  <1>e. \A w \in Workers, k \in Keys : JobsOf(w, k) = <<>> /\ DOMAIN JobsOf(w, k) = {}
    BY EmptySeq DEF NewWorker, JobsOf
  <1>f. \A w \in Workers, c \in Classes : worker[w].ready[c] = <<>> /\ DOMAIN worker[w].ready[c] = {} /\ worker[w].byClass[c] = 0
    BY EmptySeq DEF NewWorker
  <1>g. \A r \in Remappers : remap[r].at = "idle"
    BY DEF NoRemap
  <1>z. Cardinality({}) = 0 /\ 0 \in 0 .. KeyLimit /\ 0 \in 0 .. GlobalLimit /\ 0 \in 0 .. MaxFaults /\ 0 <= QueueDepth /\ 0 <= ActivePerWorker
    BY FS_EmptySet, LimitsAssumption
  <1>1. KeyedTypeOK
    <2>1. jobs \in [JobIds -> [phase : Phases, after : SUBSET JobIds]]
      BY DEF Phases
    <2>2. dispatch \in [Dispatchers -> CallState]
      BY ConstantFacts DEF NoDispatch, CallState
    <2>3. mapping \in [Slots -> SlotType] /\ inflight \in [Slots -> Nat]
      BY ConstantFacts DEF SlotType
    <2>4. usage \in UsageType
      BY <1>z DEF UsageType
    <2>5. channel \in [Workers -> Seq(Message)] /\ \A w \in Workers : Len(channel[w]) <= QueueDepth
      BY <1>c, <1>z, EmptySeq
    <2>6. worker \in [Workers -> WorkerState] /\ \A w \in Workers : Cardinality(worker[w].tasks) <= ActivePerWorker
      <3>1. NewWorker \in WorkerState
        BY ConstantFacts, EmptySeq DEF NewWorker, WorkerState
      <3> QED BY <3>1, <1>d, <1>z
    <2>7. remap \in [Remappers -> RemapType]
      BY ConstantFacts DEF NoRemap, RemapType
    <2>8. remaps \in 0 .. MaxRemaps /\ faults \in 0 .. MaxFaults /\ shuttingDown \in BOOLEAN
      BY ConstantFacts, <1>z
    <2> QED BY <2>1, <2>2, <2>3, <2>4, <2>5, <2>6, <2>7, <2>8 DEF KeyedTypeOK, CallState, SlotType, UsageType, RemapType
  <1>2. DispatchInv /\ AfterInv /\ DoneInv
    BY <1>a, <1>b DEF DispatchInv, AfterInv, DoneInv
  <1>3. PlaceInv /\ FoundInv /\ OrderInv
    BY <1>a, <1>c, <1>d, <1>e DEF PlaceInv, FoundInv, OrderInv
  <1>4. UniqueInv
    BY <1>c, <1>d, <1>e DEF UniqueInv
  <1>5. OwnerInv /\ RemapInv /\ BarrierInv
    BY <1>b, <1>c, <1>d, <1>e, <1>g DEF OwnerInv, RemapInv, BarrierInv, Loaded
  <1>6. CountInv
    <2>1. \A s \in Slots : Counted(s) = {} /\ inflight[s] = 0
      BY <1>b DEF Counted
    <2>2. \A w \in Workers, c \in Classes : OfClass(w, c) = {}
      BY <1>d DEF OfClass
    <2>3. \A s \in Slots : Cardinality(Counted(s)) <= inflight[s]
      <3> TAKE s \in Slots
      <3>1. Cardinality(Counted(s)) = 0 /\ inflight[s] = 0
        BY <2>1, <1>z
      <3> QED BY <3>1
    <2>4. \A w \in Workers, c \in Classes : Cardinality(OfClass(w, c)) <= worker[w].byClass[c]
      <3> TAKE w \in Workers, c \in Classes
      <3>1. Cardinality(OfClass(w, c)) = 0 /\ worker[w].byClass[c] = 0
        BY <2>2, <1>f, <1>z
      <3> QED BY <3>1
    <2> QED BY <2>3, <2>4 DEF CountInv
  <1>7. ReadyInv
    BY <1>e, <1>f DEF ReadyInv, Takable
  <1>8. BudgetsExact
    <2>1. Holders = {} /\ \A s \in Slots : HoldersOf(s) = {} /\ Taking(s) = {}
      BY <1>a, <1>b DEF Holders, HoldersOf, Taking, Holds
    <2>2. usage.global = Cardinality(Holders) /\ \A s \in Slots : usage.key[s] = Cardinality(HoldersOf(s)) + Cardinality(Taking(s))
      <3>1. usage.global = 0 /\ \A s \in Slots : usage.key[s] = 0
        OBVIOUS
      <3>2. Cardinality(Holders) = 0 /\ \A s \in Slots : Cardinality(HoldersOf(s)) = 0 /\ Cardinality(Taking(s)) = 0
        BY <2>1, <1>z
      <3> QED BY <3>1, <3>2
    <2> QED BY <2>2 DEF BudgetsExact, Holders, HoldersOf, Taking
  <1> QED BY <1>1, <1>2, <1>3, <1>4, <1>5, <1>6, <1>7, <1>8 DEF KeyedInv

\* The order of a key's jobs follows from where they are.
LEMMA KeyOrdered ==
    ASSUME KeyedInv
    PROVE  KeyOrder
  <1>1. ASSUME NEW j \in JobIds, Ordered(j), jobs[j].phase = "running", NEW i \in JobIds \ {j}, jobs[i].phase = "running", KeyOf(i) = KeyOf(j)
        PROVE  FALSE
    <2>1. PICK w \in Workers : j \in worker[w].tasks
      BY <1>1 DEF KeyedInv, FoundInv
    <2>2. PICK v \in Workers : i \in worker[v].tasks
      BY <1>1 DEF KeyedInv, FoundInv
    <2>3. KeyOf(j) \in worker[w].active /\ KeyOf(j) \in worker[v].active /\ KeyOf(j) \in Keys
      BY <1>1, <2>1, <2>2, ConstantFacts DEF KeyedInv, PlaceInv
    <2>4. w = Owner(KeyOf(j)) /\ v = Owner(KeyOf(j))
      BY <1>1, <2>3 DEF KeyedInv, OwnerInv, Ordered
    <2>5. \A a, b \in worker[w].tasks : KeyOf(a) = KeyOf(b) => a = b
      BY DEF KeyedInv, UniqueInv
    <2> QED BY <1>1, <2>1, <2>2, <2>4, <2>5
  <1>2. DoneInv
    BY DEF KeyedInv
  <1> QED BY <1>1, <1>2 DEF KeyOrder, DoneInv

LEMMA ReadyCounted ==
    ASSUME KeyedInv
    PROVE  ReadyExact
  <1> SUFFICES ASSUME NEW w \in Workers, NEW k \in Keys, NEW c \in Classes
               PROVE  Cardinality({i \in DOMAIN worker[w].ready[c] : worker[w].ready[c][i] = k}) =
                        IF JobsOf(w, k) # <<>> /\ k \notin worker[w].active /\ ClassOf(Head(JobsOf(w, k))) = c THEN 1 ELSE 0
    BY DEF ReadyExact
  <1> DEFINE S == {i \in DOMAIN worker[w].ready[c] : worker[w].ready[c][i] = k}
  <1>1. /\ \A p, q \in S : p = q
        /\ Takable(w, c, k) <=> S # {}
    BY DEF KeyedInv, ReadyInv
  <1> HIDE DEF S
  <1>2. CASE S = {}
    <2>1. Cardinality(S) = 0 /\ ~Takable(w, c, k)
      BY <1>1, <1>2, FS_EmptySet
    <2> QED BY <2>1 DEF Takable, S
  <1>3. CASE S # {}
    <2>1. PICK p \in S : TRUE
      BY <1>3
    <2>2. S = {p}
      BY <1>1, <2>1
    <2>3. Cardinality(S) = 1 /\ Takable(w, c, k)
      BY <1>1, <1>3, <2>2, FS_Singleton
    <2> QED BY <2>3 DEF Takable, S
  <1> QED BY <1>2, <1>3

LEMMA KeyedInvKept ==
    ASSUME KeyedInv, [KeyedNext]_keyedVars
    PROVE  KeyedInv'
  <1>1. KeyedTypeOK' /\ DispatchInv' /\ AfterInv' /\ DoneInv'
    BY TypeKept, CallsKept, DoneKept
  <1>2. PlaceInv' /\ FoundInv' /\ UniqueInv' /\ OrderInv'
    BY PlacesKept DEF PlacesInv
  <1>3. OwnerInv' /\ RemapInv' /\ BarrierInv'
    BY OwnerKept, RemapKept, BarrierKept
  <1>4. CountInv' /\ ReadyInv' /\ BudgetsExact'
    BY CountKept, ReadyKept, BudgetsKept
  <1> QED BY <1>1, <1>2, <1>3, <1>4 DEF KeyedInv

(* The invariant above holds in every state of dispatchers, workers,       *)
(* remaps and shutdown.                                                    *)
THEOREM KeyedInductive == KeyedSpec => []KeyedInv
  <1>1. KeyedInit => KeyedInv
    BY KeyedStart
  <1>2. KeyedInv /\ [KeyedNext]_keyedVars => KeyedInv'
    BY KeyedInvKept
  <1> QED BY <1>1, <1>2, PTL DEF KeyedSpec

(* Channels stay within queue_depth_per_worker, running tasks within       *)
(* active_per_worker and budgets within their limits, and no budget or     *)
(* dispatch_inflight is ever lowered below zero.                           *)
THEOREM KeyedTypeCorrect == KeyedSpec => []KeyedTypeOK
  <1>1. KeyedInv => KeyedTypeOK
    BY DEF KeyedInv
  <1> QED BY <1>1, KeyedInductive, PTL

(* For any number of dispatchers, workers, slots and remaps: the jobs of a *)
(* key run one at a time and after those accepted before their call, also  *)
(* while drain_and_remap() moves their slot; the budgets count exactly the *)
(* permits that are held; the ready queues name exactly the keys that may  *)
(* be taken.                                                               *)
THEOREM KeyedJobsInOrder == KeyedSpec => []JobsInOrder
  <1>1. KeyedInv => JobsInOrder
    BY KeyOrdered, ReadyCounted DEF KeyedInv, JobsInOrder
  <1> QED BY <1>1, KeyedInductive, PTL
=============================================================================
