--------------------- MODULE ReplicatedPartition_proofs ---------------------
(***************************************************************************)
(* Proofs about ReplicatedPartition for any finite set of nodes, any way   *)
(* of creating the partition and any bound on epochs and log lengths.      *)
(***************************************************************************)
EXTENDS ReplicatedPartition, TLAPS, FiniteSetTheorems, SequenceTheorems

\* No log was activated under an epoch the partition has not adopted.
ActiveBounded == \A n \in Nodes : active[n] <= epoch

\* s is what t starts with, element by element.
StartOf(s, t) == Len(s) <= Len(t) /\ \A i \in 1 .. Len(s) : s[i] = t[i]

\* With minimum_isr = 1 the leader holds exactly what was committed and no
\* replica holds anything else.
NothingUncommitted ==
    minISR = 1 =>
        /\ log[leader] = committed /\ Len(committed) = highWatermark
        /\ \A n \in Nodes : StartOf(log[n], committed)

IInv ==
    TypeOK /\ ActiveBounded /\ NoSecondWriter /\ WatermarkSound /\ NothingUncommitted

-----------------------------------------------------------------------------
\* The smaller of two numbers.
LEMMA MinOfTwo ==
    ASSUME NEW a \in Int, NEW b \in Int
    PROVE  Min({a, b}) = IF a <= b THEN a ELSE b
  BY DEF Min

\* The element-wise and the library's notion of a prefix.
LEMMA StartIsPrefix ==
    ASSUME NEW S, NEW s \in Seq(S), NEW t \in Seq(S), StartOf(s, t)
    PROVE  IsPrefix(s, t)
  <1>1. SubSeq(s, 1, Len(s)) \in Seq(S) /\ SubSeq(t, 1, Len(s)) \in Seq(S)
    BY DEF StartOf
  <1>2. Len(SubSeq(s, 1, Len(s))) = Len(s) /\ Len(SubSeq(t, 1, Len(s))) = Len(s)
    BY DEF StartOf
  <1>3. \A i \in 1 .. Len(s) : SubSeq(s, 1, Len(s))[i] = SubSeq(t, 1, Len(s))[i]
    BY DEF StartOf
  <1>4. SubSeq(s, 1, Len(s)) = SubSeq(t, 1, Len(s))
    BY <1>1, <1>2, <1>3, SeqEqual
  <1> QED BY <1>4 DEF IsPrefix, StartOf

\* The records of s after the first a, up to the m-th.
LEMMA SliceFacts ==
    ASSUME NEW S, NEW s \in Seq(S), NEW a \in Nat, NEW m \in 0 .. Len(s)
    PROVE  /\ SubSeq(s, a + 1, m) \in Seq(S)
           /\ Len(SubSeq(s, a + 1, m)) = IF a < m THEN m - a ELSE 0
           /\ \A i \in 1 .. Len(SubSeq(s, a + 1, m)) : SubSeq(s, a + 1, m)[i] = s[a + i]
  <1>1. \A i \in a + 1 .. m : s[i] \in S
    OBVIOUS
  <1>2. /\ SubSeq(s, a + 1, m) \in Seq(S)
        /\ Len(SubSeq(s, a + 1, m)) = IF a + 1 <= m THEN m - (a + 1) + 1 ELSE 0
        /\ \A i \in 1 .. m - (a + 1) + 1 : SubSeq(s, a + 1, m)[i] = s[(a + 1) + i - 1]
    BY <1>1, SubSeqProperties
  <1>3. Len(SubSeq(s, a + 1, m)) = IF a < m THEN m - a ELSE 0
    BY <1>2
  <1>4. \A i \in 1 .. Len(SubSeq(s, a + 1, m)) : SubSeq(s, a + 1, m)[i] = s[a + i]
    <2> SUFFICES ASSUME NEW i \in 1 .. Len(SubSeq(s, a + 1, m))
                 PROVE  SubSeq(s, a + 1, m)[i] = s[a + i]
      OBVIOUS
    <2>1. i \in 1 .. m - (a + 1) + 1
      BY <1>3
    <2>2. (a + 1) + i - 1 = a + i
      BY <2>1
    <2> QED BY <1>2, <2>1, <2>2
  <1> QED BY <1>2, <1>3, <1>4

\* Extending t with what s has beyond it, when both are what c starts with.
LEMMA ExtendedStart ==
    ASSUME NEW S, NEW s \in Seq(S), NEW t \in Seq(S), NEW c \in Seq(S),
           NEW m \in 0 .. Len(s), StartOf(s, c), StartOf(t, c)
    PROVE  StartOf(t \o SubSeq(s, Len(t) + 1, m), c)
  <1> DEFINE added == SubSeq(s, Len(t) + 1, m)
  <1>1. Len(t) \in Nat
    OBVIOUS
  <1>2. /\ added \in Seq(S)
        /\ Len(added) = IF Len(t) < m THEN m - Len(t) ELSE 0
        /\ \A i \in 1 .. Len(added) : added[i] = s[Len(t) + i]
    BY <1>1, SliceFacts
  <1> HIDE DEF added
  <1>3. /\ Len(t \o added) = Len(t) + Len(added)
        /\ \A i \in 1 .. Len(t) + Len(added) :
             (t \o added)[i] = IF i <= Len(t) THEN t[i] ELSE added[i - Len(t)]
    BY <1>2, ConcatProperties
  <1>4. Len(t) + Len(added) <= Len(c)
    BY <1>2 DEF StartOf
  <1>5. ASSUME NEW i \in 1 .. Len(t) + Len(added)
        PROVE  (t \o added)[i] = c[i]
    <2>1. CASE i <= Len(t)
      BY <1>3, <2>1 DEF StartOf
    <2>2. CASE i > Len(t)
      <3>1. i - Len(t) \in 1 .. Len(added)
        BY <1>2, <2>2
      <3>2. added[i - Len(t)] = s[Len(t) + (i - Len(t))]
        BY <1>2, <3>1
      <3>3. Len(t) + (i - Len(t)) = i /\ i \in 1 .. Len(s)
        BY <1>2, <3>1
      <3> QED BY <1>3, <2>2, <3>2, <3>3 DEF StartOf
    <2> QED BY <1>2, <2>1, <2>2
  <1>6. StartOf(t \o added, c)
    BY <1>3, <1>4, <1>5 DEF StartOf
  <1> QED BY <1>6 DEF added

\* Where a catch-up stops reading the source.
CopyEnd(s) == IF highWatermark <= Len(log[s]) THEN highWatermark ELSE Len(log[s])

\* The records catch_up() copies, without the library's minimum.
LEMMA MissingSlice ==
    ASSUME TypeOK, NEW s \in Nodes, NEW t \in Nodes
    PROVE  /\ CopyEnd(s) \in 0 .. Len(log[s])
           /\ Missing(s, t, highWatermark) = SubSeq(log[s], Len(log[t]) + 1, CopyEnd(s))
  <1>1. log[s] \in Seq(Epochs) /\ highWatermark \in Nat /\ Len(log[s]) \in Nat
    BY PartitionAssumption DEF TypeOK
  <1>2. Min({highWatermark, Len(log[s])}) = CopyEnd(s)
    BY <1>1, MinOfTwo DEF CopyEnd
  <1>3. CopyEnd(s) \in 0 .. Len(log[s])
    BY <1>1 DEF CopyEnd
  <1> QED BY <1>2, <1>3 DEF Missing

\* catch_up() leaves a log of records, no shorter than before and no longer
\* than any log may be.
LEMMA CatchUpType ==
    ASSUME TypeOK, NEW s \in Nodes, NEW t \in Nodes
    PROVE  /\ CatchUpLog(s, t, highWatermark) \in Seq(Epochs)
           /\ Len(log[t]) <= Len(CatchUpLog(s, t, highWatermark))
           /\ Len(CatchUpLog(s, t, highWatermark)) <= MaxLength
  <1> DEFINE added == SubSeq(log[s], Len(log[t]) + 1, CopyEnd(s))
  <1>1. /\ log[s] \in Seq(Epochs) /\ log[t] \in Seq(Epochs)
        /\ Len(log[t]) \in Nat /\ Len(log[t]) <= MaxLength
        /\ highWatermark \in 0 .. MaxLength /\ MaxLength \in Nat
    BY PartitionAssumption DEF TypeOK
  <1>2. CASE s = t \/ Len(log[t]) > highWatermark
    BY <1>1, <1>2 DEF CatchUpLog
  <1>3. CASE ~(s = t \/ Len(log[t]) > highWatermark)
    <2>1. CatchUpLog(s, t, highWatermark) = log[t] \o added
      BY <1>3, MissingSlice DEF CatchUpLog
    <2>2. /\ added \in Seq(Epochs)
          /\ Len(added) = IF Len(log[t]) < CopyEnd(s) THEN CopyEnd(s) - Len(log[t]) ELSE 0
      BY <1>1, MissingSlice, SliceFacts
    <2>3. CopyEnd(s) \in Nat /\ CopyEnd(s) <= highWatermark
      BY <1>1 DEF CopyEnd
    <2> HIDE DEF added
    <2>4. log[t] \o added \in Seq(Epochs) /\ Len(log[t] \o added) = Len(log[t]) + Len(added)
      BY <1>1, <2>2, ConcatProperties
    <2> QED BY <1>1, <1>3, <2>1, <2>2, <2>3, <2>4
  <1> QED BY <1>2, <1>3

\* catch_up() from a log that holds only committed records adds only
\* committed records.
LEMMA CatchUpCommitted ==
    ASSUME TypeOK, NEW s \in Nodes, NEW t \in Nodes,
           StartOf(log[s], committed), StartOf(log[t], committed)
    PROVE  StartOf(CatchUpLog(s, t, highWatermark), committed)
  <1>1. log[s] \in Seq(Epochs) /\ log[t] \in Seq(Epochs) /\ committed \in Seq(Epochs)
    BY DEF TypeOK
  <1>2. CASE s = t \/ Len(log[t]) > highWatermark
    BY <1>2 DEF CatchUpLog
  <1>3. CASE ~(s = t \/ Len(log[t]) > highWatermark)
    <2>1. CatchUpLog(s, t, highWatermark) = log[t] \o SubSeq(log[s], Len(log[t]) + 1, CopyEnd(s))
      BY <1>3, MissingSlice DEF CatchUpLog
    <2>2. StartOf(log[t] \o SubSeq(log[s], Len(log[t]) + 1, CopyEnd(s)), committed)
      BY <1>1, MissingSlice, ExtendedStart
    <2> QED BY <2>1, <2>2
  <1> QED BY <1>2, <1>3

-----------------------------------------------------------------------------
\* The two halves of the type invariant: what the logs hold, and what the
\* epochs and the membership are.
LogTypes ==
    /\ log \in [Nodes -> Seq(Epochs)] /\ hw \in [Nodes -> Nat]
    /\ \A n \in Nodes : hw[n] <= Len(log[n]) /\ Len(log[n]) <= MaxLength
    /\ highWatermark \in 0 .. MaxLength /\ committed \in Seq(Epochs)

ControlTypes ==
    /\ promised \in [Nodes -> 0 .. MaxEpoch]
    /\ ctl \in [Nodes -> 0 .. MaxEpoch]
    /\ active \in [Nodes -> 0 .. MaxEpoch]
    /\ isr \subseteq assignment /\ online \subseteq replicas
    /\ assignment \subseteq replicas /\ replicas \subseteq Nodes
    /\ leader \in assignment /\ minISR \in Nat \ {0}
    /\ epoch \in Epochs /\ controllerEpoch \in Epochs

\* The halves make the whole, in this state and in the next.
LEMMA TypeHalves ==
    (TypeOK <=> LogTypes /\ ControlTypes) /\ (TypeOK' <=> LogTypes' /\ ControlTypes')
  BY DEF TypeOK, LogTypes, ControlTypes

\* A step that only copies records with catch_up(), commits what it copied and
\* leaves a leader that has every committed offset keeps the logs sound.
LEMMA CopyStep ==
    ASSUME IInv, UNCHANGED <<committed, highWatermark, minISR>>,
           leader' \in Nodes, highWatermark <= Len(log'[leader']),
           log' = [n \in Nodes |-> log'[n]], hw' = [n \in Nodes |-> hw'[n]],
           \A n \in Nodes :
               log'[n] = log[n] \/ \E s \in Nodes : log'[n] = CatchUpLog(s, n, highWatermark),
           \A n \in Nodes :
               hw'[n] = hw[n] \/ (hw'[n] = highWatermark /\ highWatermark <= Len(log'[n]))
    PROVE  LogTypes' /\ WatermarkSound' /\ NothingUncommitted'
  <1> USE DEF IInv
  <1>1. ASSUME NEW n \in Nodes
        PROVE  /\ log'[n] \in Seq(Epochs)
               /\ Len(log[n]) <= Len(log'[n]) /\ Len(log'[n]) <= MaxLength
    <2>1. CASE log'[n] = log[n]
      BY <2>1 DEF TypeOK
    <2>2. CASE \E s \in Nodes : log'[n] = CatchUpLog(s, n, highWatermark)
      BY <2>2, CatchUpType
    <2> QED BY <2>1, <2>2
  <1>a. \A n \in Nodes : log[n] \in Seq(Epochs)
    BY DEF TypeOK
  <1>2. \A n \in Nodes : Len(log[n]) \in Nat /\ Len(log'[n]) \in Nat
    BY <1>1, <1>a
  <1>3. highWatermark \in Nat /\ \A n \in Nodes : hw[n] \in Nat /\ hw[n] <= Len(log[n])
    BY PartitionAssumption DEF TypeOK
  <1>4. \A n \in Nodes : hw'[n] \in Nat /\ hw'[n] <= Len(log'[n]) /\ hw'[n] <= highWatermark
    <2> SUFFICES ASSUME NEW n \in Nodes
                 PROVE  hw'[n] \in Nat /\ hw'[n] <= Len(log'[n]) /\ hw'[n] <= highWatermark
      OBVIOUS
    <2>1. CASE hw'[n] = hw[n]
      <3>1. hw[n] <= highWatermark
        BY DEF WatermarkSound
      <3> QED BY <1>1, <1>2, <1>3, <2>1, <3>1
    <2>2. CASE hw'[n] = highWatermark /\ highWatermark <= Len(log'[n])
      BY <1>3, <2>2
    <2> QED BY <2>1, <2>2
  <1>5. log' \in [Nodes -> Seq(Epochs)] /\ hw' \in [Nodes -> Nat]
    BY <1>1, <1>4
  <1>6. LogTypes'
    BY <1>1, <1>4, <1>5, TypeHalves DEF LogTypes
  <1>7. WatermarkSound'
    BY <1>4 DEF WatermarkSound
  <1>8. NothingUncommitted'
    <2> SUFFICES ASSUME minISR = 1
                 PROVE  /\ log'[leader'] = committed /\ Len(committed) = highWatermark
                        /\ \A n \in Nodes : StartOf(log'[n], committed)
      BY DEF NothingUncommitted, StartOf
    <2>1. Len(committed) = highWatermark /\ \A n \in Nodes : StartOf(log[n], committed)
      BY DEF NothingUncommitted
    <2>2. \A n \in Nodes : StartOf(log'[n], committed)
      <3> SUFFICES ASSUME NEW n \in Nodes PROVE StartOf(log'[n], committed)
        OBVIOUS
      <3>1. CASE log'[n] = log[n]
        BY <2>1, <3>1
      <3>2. CASE \E s \in Nodes : log'[n] = CatchUpLog(s, n, highWatermark)
        BY <2>1, <3>2, CatchUpCommitted
      <3> QED BY <3>1, <3>2
    <2>3. log'[leader'] \in Seq(Epochs) /\ committed \in Seq(Epochs)
      BY <1>1 DEF TypeOK
    <2>4. Len(log'[leader']) = Len(committed)
      BY <1>2, <1>3, <2>1, <2>2 DEF StartOf
    <2>5. log'[leader'] = committed
      BY <2>2, <2>3, <2>4, SeqEqual DEF StartOf
    <2> QED BY <2>1, <2>2, <2>5
  <1> QED BY <1>6, <1>7, <1>8

\* A successful catch-up reaches the high watermark.
LEMMA CatchUpReaches ==
    ASSUME TypeOK, NEW s \in Nodes, NEW t \in Nodes,
           CatchUpSucceeds(s, t, highWatermark)
    PROVE  highWatermark <= Len(CatchUpLog(s, t, highWatermark))
  <1>1. CASE s = t
    BY <1>1 DEF CatchUpSucceeds, CatchUpLog
  <1>2. CASE s # t
    <2>1. highWatermark \in hw[t] .. Len(CatchUpLog(s, t, highWatermark))
      BY <1>2 DEF CatchUpSucceeds
    <2> QED BY <2>1
  <1> QED BY <1>1, <1>2

\* A step that deactivates logs, and activates at most the leader's under a
\* newer epoch that the partition adopts, leaves one writer.
LEMMA FenceStep ==
    ASSUME IInv, active' \in [Nodes -> 0 .. MaxEpoch], epoch' \in Epochs, leader' \in Nodes,
           \/ /\ epoch' = epoch /\ leader' = leader
              /\ \A n \in Nodes : active'[n] \in {0, active[n]}
           \/ /\ epoch' > epoch /\ active'[leader'] = epoch'
              /\ \A n \in Nodes \ {leader'} : active'[n] \in {0, active[n]}
    PROVE  ActiveBounded' /\ NoSecondWriter'
  <1>1. /\ epoch \in Nat \ {0} /\ epoch' \in Nat \ {0}
        /\ \A n \in Nodes : active[n] \in Nat /\ active'[n] \in Nat
    <2>1. epoch \in 1 .. MaxEpoch /\ epoch' \in 1 .. MaxEpoch /\ MaxEpoch \in Nat
      BY PartitionAssumption DEF IInv, TypeOK, Epochs
    <2>2. \A n \in Nodes : active[n] \in 0 .. MaxEpoch /\ active'[n] \in 0 .. MaxEpoch
      BY DEF IInv, TypeOK
    <2> QED BY <2>1, <2>2
  <1>2. \A n \in Nodes : active[n] <= epoch /\ (active[n] >= epoch => n = leader)
    BY DEF IInv, ActiveBounded, NoSecondWriter
  <1>3. CASE /\ epoch' = epoch /\ leader' = leader
             /\ \A n \in Nodes : active'[n] \in {0, active[n]}
    <2>1. \A n \in Nodes : active'[n] <= epoch' /\ (active'[n] >= epoch' => n = leader')
      BY <1>1, <1>2, <1>3
    <2> QED BY <2>1 DEF ActiveBounded, NoSecondWriter
  <1>4. CASE /\ epoch' > epoch /\ active'[leader'] = epoch'
             /\ \A n \in Nodes \ {leader'} : active'[n] \in {0, active[n]}
    <2>1. \A n \in Nodes \ {leader'} : active'[n] < epoch'
      BY <1>1, <1>2, <1>4
    <2>2. \A n \in Nodes : active'[n] <= epoch' /\ (active'[n] >= epoch' => n = leader')
      BY <1>1, <1>4, <2>1
    <2> QED BY <2>2 DEF ActiveBounded, NoSecondWriter
  <1> QED BY <1>3, <1>4

-----------------------------------------------------------------------------
\* A new partition satisfies the invariant.
LEMMA InitIInv == Init => IInv
  <1> SUFFICES ASSUME Init PROVE IInv
    OBVIOUS
  <1> USE PartitionAssumption
  <1>1. PICK p \in Partitions :
        /\ log = [n \in Nodes |-> <<>>] /\ hw = [n \in Nodes |-> 0]
        /\ promised = [n \in Nodes |-> IF n \in p.replicas THEN 1 ELSE 0]
        /\ ctl = [n \in Nodes |-> IF n \in p.replicas THEN 1 ELSE 0]
        /\ active = [n \in Nodes |-> IF n = p.leader THEN 1 ELSE 0]
        /\ replicas = p.replicas /\ assignment = p.replicas
        /\ isr = p.replicas /\ online = p.replicas /\ minISR = p.minISR
        /\ leader = p.leader /\ epoch = 1 /\ controllerEpoch = 1
        /\ highWatermark = 0 /\ committed = <<>>
    BY DEF Init
  <1>2. p.replicas \subseteq Nodes /\ p.leader \in p.replicas /\ p.minISR \in Nat \ {0}
    <2>1. IsFiniteSet(p.replicas)
      BY FS_Subset
    <2>2. Cardinality(p.replicas) \in Nat
      BY <2>1, FS_CardinalityType
    <2> QED BY <2>2
  <1>3. 1 \in Epochs /\ MaxEpoch \in Nat /\ <<>> \in Seq(Epochs) /\ Len(<<>>) = 0
    BY DEF Epochs
  <1>4. TypeOK
    BY <1>1, <1>2, <1>3 DEF TypeOK
  <1>5. ActiveBounded /\ NoSecondWriter
    BY <1>1, <1>2 DEF ActiveBounded, NoSecondWriter
  <1>6. WatermarkSound
    BY <1>1, <1>2, <1>3 DEF WatermarkSound
  <1>7. NothingUncommitted
    BY <1>1, <1>2, <1>3 DEF NothingUncommitted, StartOf
  <1> QED BY <1>4, <1>5, <1>6, <1>7 DEF IInv

\* append() preserves the invariant: the durable replicas end where the leader
\* ends, and with minimum_isr = 1 the record is committed at once.
LEMMA AppendIInv ==
    ASSUME IInv, AppendRecord
    PROVE  IInv'
  <1> USE DEF IInv
  <1> DEFINE end == Len(log[leader]) + 1
  <1>1. PICK followers \in SUBSET Accepting :
        LET durable == followers \cup {leader}
            commit == CommitEligible(durable)
        IN  /\ log' = [n \in Nodes |-> IF n \in durable THEN Append(log[n], epoch) ELSE log[n]]
            /\ hw' = [n \in Nodes |-> IF commit /\ n \in durable THEN end ELSE hw[n]]
            /\ highWatermark' = IF commit THEN end ELSE highWatermark
            /\ committed' = IF commit
                            THEN committed \o SubSeq(log'[leader], Len(committed) + 1, end)
                            ELSE committed
    BY DEF AppendRecord
  <1> DEFINE durable == followers \cup {leader}
             commit == CommitEligible(durable)
  <1>2. UNCHANGED <<promised, ctl, active, members, leader, epoch, controllerEpoch>>
    BY DEF AppendRecord
  <1>3. /\ leader \in Nodes /\ epoch \in Epochs /\ Len(log[leader]) < MaxLength
        /\ MaxLength \in Nat /\ highWatermark \in Nat /\ highWatermark <= Len(log[leader])
        /\ committed \in Seq(Epochs) /\ log[leader] \in Seq(Epochs)
    BY PartitionAssumption DEF AppendRecord, TypeOK, WatermarkSound
  <1>4. /\ durable \subseteq Nodes /\ leader \in durable
        /\ \A n \in durable : Len(log[n]) = Len(log[leader])
    BY <1>3 DEF Accepting, Reachable, TypeOK
  <1>5. ASSUME NEW n \in Nodes
        PROVE  /\ log[n] \in Seq(Epochs) /\ Len(log[n]) \in Nat /\ hw[n] \in Nat
               /\ hw[n] <= Len(log[n]) /\ Len(log[n]) <= MaxLength /\ hw[n] <= highWatermark
    BY DEF TypeOK, WatermarkSound
  <1>6. /\ log' = [n \in Nodes |-> IF n \in durable THEN Append(log[n], epoch) ELSE log[n]]
        /\ hw' = [n \in Nodes |-> IF commit /\ n \in durable THEN end ELSE hw[n]]
        /\ highWatermark' = IF commit THEN end ELSE highWatermark
        /\ committed' = IF commit
                        THEN committed \o SubSeq(log'[leader], Len(committed) + 1, end)
                        ELSE committed
    BY <1>1
  <1> HIDE DEF durable, commit
  <1>7. ASSUME NEW n \in durable
        PROVE  /\ log'[n] \in Seq(Epochs) /\ Len(log'[n]) = end /\ log'[n][end] = epoch
               /\ \A i \in 1 .. Len(log[n]) : log'[n][i] = log[n][i]
    <2>1. n \in Nodes /\ log'[n] = Append(log[n], epoch)
      BY <1>4, <1>6
    <2>2. log[n] \in Seq(Epochs) /\ epoch \in Epochs
      BY <1>3, <1>5, <2>1
    <2>3. /\ Append(log[n], epoch) \in Seq(Epochs)
          /\ Len(Append(log[n], epoch)) = Len(log[n]) + 1
          /\ \A i \in 1 .. Len(log[n]) : Append(log[n], epoch)[i] = log[n][i]
          /\ Append(log[n], epoch)[Len(log[n]) + 1] = epoch
      BY <2>2, AppendProperties
    <2> QED BY <1>4, <2>1, <2>3
  <1>8. \A n \in Nodes \ durable : log'[n] = log[n]
    BY <1>6
  <1>9. \A n \in Nodes :
            /\ log'[n] \in Seq(Epochs) /\ hw'[n] \in Nat /\ hw'[n] <= Len(log'[n])
            /\ Len(log'[n]) <= MaxLength /\ hw'[n] <= highWatermark'
    <2> SUFFICES ASSUME NEW n \in Nodes
                 PROVE  /\ log'[n] \in Seq(Epochs) /\ hw'[n] \in Nat /\ hw'[n] <= Len(log'[n])
                        /\ Len(log'[n]) <= MaxLength /\ hw'[n] <= highWatermark'
      OBVIOUS
    <2>1. hw'[n] = IF commit /\ n \in durable THEN end ELSE hw[n]
      BY <1>6
    <2>2. CASE n \in durable
      BY <1>3, <1>4, <1>5, <1>6, <1>7, <2>1, <2>2
    <2>3. CASE n \notin durable
      BY <1>3, <1>5, <1>6, <1>8, <2>1, <2>3
    <2> QED BY <2>2, <2>3
  <1>10. Len(log'[leader]) = end /\ log'[leader] \in Seq(Epochs) /\ end \in Nat
    BY <1>3, <1>4, <1>7
  <1>11. committed' \in Seq(Epochs)
    <2>1. Len(committed) \in Nat /\ end \in 0 .. Len(log'[leader])
      BY <1>3, <1>10
    <2>2. SubSeq(log'[leader], Len(committed) + 1, end) \in Seq(Epochs)
      BY <1>10, <2>1, SliceFacts
    <2> QED BY <1>3, <1>6, <2>2, ConcatProperties
  <1>12. LogTypes'
    <2>1. log' \in [Nodes -> Seq(Epochs)] /\ hw' \in [Nodes -> Nat]
      BY <1>6, <1>9
    <2>2. highWatermark' \in 0 .. MaxLength
      BY <1>3, <1>6 DEF TypeOK
    <2> QED BY <1>9, <1>11, <2>1, <2>2 DEF LogTypes
  <1>13. ControlTypes'
    BY <1>2, TypeHalves DEF ControlTypes, members
  <1>14. ActiveBounded' /\ NoSecondWriter'
    BY <1>2 DEF ActiveBounded, NoSecondWriter
  <1>15. WatermarkSound'
    <2>1. Len(log'[leader]) >= highWatermark'
      BY <1>3, <1>6, <1>10
    <2> QED BY <1>2, <1>9, <2>1 DEF WatermarkSound
  <1>16. NothingUncommitted'
    <2> SUFFICES ASSUME minISR' = 1
                 PROVE  /\ log'[leader'] = committed' /\ Len(committed') = highWatermark'
                        /\ \A n \in Nodes : StartOf(log'[n], committed')
      BY DEF NothingUncommitted, StartOf
    <2>1. /\ minISR = 1 /\ leader' = leader /\ log[leader] = committed
          /\ \A n \in Nodes : StartOf(log[n], committed)
      BY <1>2 DEF members, NothingUncommitted
    <2>2. commit
      <3>1. IsFiniteSet(durable)
        BY <1>4, FS_Subset, PartitionAssumption
      <3>2. Cardinality(durable) \in Nat /\ Cardinality(durable) # 0
        BY <1>4, <3>1, FS_CardinalityType, FS_EmptySet
      <3> QED BY <2>1, <3>2 DEF commit, CommitEligible
    <2>3. /\ committed' = committed \o SubSeq(log'[leader], Len(committed) + 1, end)
          /\ highWatermark' = end
      BY <1>6, <2>2
    <2>4. StartOf(committed, log'[leader]) /\ StartOf(log'[leader], log'[leader])
      BY <1>4, <1>7, <1>10, <2>1, <1>3 DEF StartOf
    <2>5. StartOf(committed', log'[leader])
      BY <1>3, <1>10, <2>3, <2>4, ExtendedStart
    <2>6. Len(committed') = end
      <3>1. Len(committed) \in Nat /\ end \in 0 .. Len(log'[leader]) /\ Len(committed) < end
        BY <1>3, <1>10, <2>1
      <3>2. /\ SubSeq(log'[leader], Len(committed) + 1, end) \in Seq(Epochs)
            /\ Len(SubSeq(log'[leader], Len(committed) + 1, end)) = end - Len(committed)
        BY <1>10, <3>1, SliceFacts
      <3>3. Len(committed') = Len(committed) + (end - Len(committed))
        BY <1>3, <2>3, <3>2, ConcatProperties
      <3> QED BY <1>10, <3>1, <3>3
    <2>7. log'[leader] = committed'
      BY <1>10, <1>11, <2>5, <2>6, SeqEqual DEF StartOf
    <2>8. ASSUME NEW n \in Nodes
          PROVE  StartOf(log'[n], committed')
      <3>1. StartOf(log[n], committed)
        BY <2>1
      <3>2. CASE n \in durable
        <4>1. \A i \in 1 .. Len(log[leader]) : log'[n][i] = log'[leader][i]
          BY <1>4, <1>7, <2>1, <3>1, <3>2 DEF StartOf
        <4>2. log'[n][end] = log'[leader][end] /\ Len(log'[n]) = end
          BY <1>4, <1>7, <3>2
        <4>3. \A i \in 1 .. end : log'[n][i] = log'[leader][i]
          BY <1>3, <4>1, <4>2
        <4> QED BY <1>10, <2>6, <2>7, <4>2, <4>3 DEF StartOf
      <3>3. CASE n \notin durable
        <4>1. log'[n] = log[n]
          BY <1>8, <3>3
        <4> QED BY <1>3, <1>5, <1>10, <2>1, <2>4, <2>7, <3>1, <4>1 DEF StartOf
      <3> QED BY <3>2, <3>3
    <2> QED BY <2>1, <2>3, <2>6, <2>7, <2>8
  <1> QED BY <1>12, <1>13, <1>14, <1>15, <1>16, TypeHalves

\* Promising a newer epoch keeps the replicas' epochs in range and can only
\* deactivate a log.
LEMMA PromiseFacts ==
    ASSUME TypeOK, NEW S, NEW e \in Epochs, NEW ce \in Epochs
    PROVE  /\ Promise(S, ce, e) => promised' \in [Nodes -> 0 .. MaxEpoch]
                                     /\ ctl' \in [Nodes -> 0 .. MaxEpoch]
           /\ Deactivated(S, ce, e) \in [Nodes -> 0 .. MaxEpoch]
           /\ \A n \in Nodes : Deactivated(S, ce, e)[n] \in {0, active[n]}
  <1>1. e \in 0 .. MaxEpoch /\ ce \in 0 .. MaxEpoch /\ 0 \in 0 .. MaxEpoch
    BY PartitionAssumption DEF Epochs
  <1>2. Promise(S, ce, e) => promised' \in [Nodes -> 0 .. MaxEpoch]
    BY <1>1 DEF Promise, TypeOK
  <1>3. Promise(S, ce, e) => ctl' \in [Nodes -> 0 .. MaxEpoch]
    BY <1>1 DEF Promise, TypeOK
  <1>4. Deactivated(S, ce, e) \in [Nodes -> 0 .. MaxEpoch]
    BY <1>1 DEF Deactivated, TypeOK
  <1>5. \A n \in Nodes : Deactivated(S, ce, e)[n] \in {0, active[n]}
    BY DEF Deactivated
  <1> QED BY <1>2, <1>3, <1>4, <1>5

\* A step that leaves every log alone.
LEMMA QuietStep ==
    ASSUME IInv, UNCHANGED <<logs, lead, committed, minISR>>
    PROVE  LogTypes' /\ WatermarkSound' /\ NothingUncommitted' /\ ActiveBounded' /\ NoSecondWriter'
  <1>1. /\ leader' \in Nodes /\ highWatermark <= Len(log'[leader'])
        /\ log' = [n \in Nodes |-> log'[n]] /\ hw' = [n \in Nodes |-> hw'[n]]
    BY DEF IInv, TypeOK, WatermarkSound, logs, lead
  <1>2. LogTypes' /\ WatermarkSound' /\ NothingUncommitted'
    BY <1>1, CopyStep DEF logs, lead
  <1>3. ActiveBounded' /\ NoSecondWriter'
    BY DEF IInv, ActiveBounded, NoSecondWriter, logs, lead
  <1> QED BY <1>2, <1>3

\* set_online() preserves the invariant.
LEMMA SetOnlineIInv ==
    ASSUME IInv, NEW n \in Nodes, SetOnline(n)
    PROVE  IInv'
  <1>1. ControlTypes'
    BY DEF IInv, TypeOK, ControlTypes, SetOnline, logs, lead
  <1> QED BY <1>1, QuietStep, TypeHalves DEF IInv, SetOnline

\* remove_replica() preserves the invariant: it never removes the leader.
LEMMA RemoveReplicaIInv ==
    ASSUME IInv, NEW n \in Nodes, RemoveReplica(n)
    PROVE  IInv'
  <1>1. ControlTypes'
    BY DEF IInv, TypeOK, ControlTypes, RemoveReplica, logs, lead
  <1> QED BY <1>1, QuietStep, TypeHalves DEF IInv, RemoveReplica

\* Copying the leader's committed records to one replica keeps the logs sound,
\* whether or not the copy succeeds.
LEMMA CatchUpOne ==
    ASSUME IInv, NEW n \in Nodes, UNCHANGED <<committed, lead, minISR>>,
           \/ log' = log /\ hw' = hw
           \/ /\ log' = [log EXCEPT ![n] = CatchUpLog(leader, n, highWatermark)]
              /\ \/ hw' = hw
                 \/ /\ hw' = [hw EXCEPT ![n] = highWatermark]
                    /\ CatchUpSucceeds(leader, n, highWatermark)
    PROVE  LogTypes' /\ WatermarkSound' /\ NothingUncommitted'
  <1>1. /\ leader \in Nodes /\ leader' = leader /\ highWatermark <= Len(log[leader])
        /\ UNCHANGED <<committed, highWatermark, minISR>>
        /\ log \in [Nodes -> Seq(Epochs)] /\ hw \in [Nodes -> Nat]
    BY DEF IInv, TypeOK, WatermarkSound, lead
  <1>2. \A m \in Nodes :
          log'[m] = log[m] \/ \E s \in Nodes : log'[m] = CatchUpLog(s, m, highWatermark)
    BY <1>1
  <1>3. highWatermark <= Len(log'[leader'])
    <2>1. CatchUpLog(leader, leader, highWatermark) = log[leader]
      BY DEF CatchUpLog
    <2> QED BY <1>1, <2>1
  <1>4. ASSUME NEW m \in Nodes
        PROVE  hw'[m] = hw[m] \/ (hw'[m] = highWatermark /\ highWatermark <= Len(log'[m]))
    <2>1. CASE hw' = hw
      BY <2>1
    <2>2. CASE hw' # hw
      <3>1. /\ log'[n] = CatchUpLog(leader, n, highWatermark)
            /\ hw' = [hw EXCEPT ![n] = highWatermark]
            /\ CatchUpSucceeds(leader, n, highWatermark)
        BY <1>1, <2>2
      <3>2. highWatermark <= Len(log'[n])
        BY <1>1, <3>1, CatchUpReaches DEF IInv
      <3> QED BY <1>1, <3>1, <3>2
    <2> QED BY <2>1, <2>2
  <1>5. log' = [m \in Nodes |-> log'[m]] /\ hw' = [m \in Nodes |-> hw'[m]]
    BY <1>1
  <1> QED BY <1>1, <1>2, <1>3, <1>4, <1>5, CopyStep

\* recover_replica() preserves the invariant.
LEMMA RecoverReplicaIInv ==
    ASSUME IInv, NEW n \in Nodes, RecoverReplica(n)
    PROVE  IInv'
  <1>1. LogTypes' /\ WatermarkSound' /\ NothingUncommitted'
    BY CatchUpOne DEF RecoverReplica, ApplyCatchUp, Recovering
  <1>2. ControlTypes'
    BY DEF IInv, TypeOK, ControlTypes, RecoverReplica, lead
  <1>3. ActiveBounded' /\ NoSecondWriter'
    BY DEF IInv, ActiveBounded, NoSecondWriter, RecoverReplica, lead
  <1> QED BY <1>1, <1>2, <1>3, TypeHalves DEF IInv

\* add_replica() preserves the invariant.
LEMMA AddReplicaIInv ==
    ASSUME IInv, NEW n \in Nodes, AddReplica(n)
    PROVE  IInv'
  <1>1. LogTypes' /\ WatermarkSound' /\ NothingUncommitted'
    BY CatchUpOne DEF AddReplica, ApplyCatchUp, Recovering
  <1>2. epoch \in Epochs /\ controllerEpoch \in Epochs
    BY DEF IInv, TypeOK
  <1>3. promised' \in [Nodes -> 0 .. MaxEpoch] /\ ctl' \in [Nodes -> 0 .. MaxEpoch]
    BY <1>2, PromiseFacts DEF IInv, AddReplica
  <1>4. ControlTypes'
    BY <1>3 DEF IInv, TypeOK, ControlTypes, AddReplica, lead
  <1>5. ActiveBounded' /\ NoSecondWriter'
    BY DEF IInv, ActiveBounded, NoSecondWriter, AddReplica, lead
  <1> QED BY <1>1, <1>4, <1>5, TypeHalves DEF IInv

\* elect() preserves the invariant, also when the promises or the catch-up
\* fail: only a candidate that has every committed offset becomes the leader.
LEMMA ElectIInv ==
    ASSUME IInv, NEW candidate \in Nodes, NEW e \in Epochs, NEW ce \in Epochs,
           NEW voters \in SUBSET Nodes, Elect(candidate, e, ce, voters)
    PROVE  IInv'
  <1> DEFINE promisedAll == Refusing(voters, ce, e) = {}
             Elected(s) == promisedAll /\ CatchUpSucceeds(s, candidate, highWatermark)
  <1>1. PICK source \in voters :
        /\ Promise(voters, ce, e)
        /\ active' = ActiveAfterElection(candidate, e, ce, voters, Elected(source))
        /\ log' = IF promisedAll
                  THEN [log EXCEPT ![candidate] = CatchUpLog(source, candidate, highWatermark)]
                  ELSE log
        /\ hw' = IF Elected(source) /\ source # candidate
                 THEN [hw EXCEPT ![candidate] = highWatermark] ELSE hw
        /\ IF Elected(source)
           THEN /\ leader' = candidate /\ epoch' = e /\ controllerEpoch' = ce
                /\ isr' = voters
           ELSE UNCHANGED <<leader, epoch, controllerEpoch, isr>>
        /\ UNCHANGED <<replicas, assignment, online, minISR, highWatermark, committed>>
    BY DEF Elect
  <1>2. /\ e > epoch /\ candidate \in voters /\ voters \subseteq assignment
        /\ source \in Nodes /\ leader \in Nodes /\ highWatermark <= Len(log[leader])
        /\ log \in [Nodes -> Seq(Epochs)] /\ hw \in [Nodes -> Nat]
    BY DEF Elect, IInv, TypeOK, WatermarkSound
  <1> DEFINE elected == Elected(source)
  <1>3. /\ Deactivated(voters, ce, e) \in [Nodes -> 0 .. MaxEpoch]
        /\ \A n \in Nodes : Deactivated(voters, ce, e)[n] \in {0, active[n]}
        /\ promised' \in [Nodes -> 0 .. MaxEpoch] /\ ctl' \in [Nodes -> 0 .. MaxEpoch]
    BY <1>1, PromiseFacts DEF IInv
  <1>4. e \in 0 .. MaxEpoch
    BY PartitionAssumption DEF Epochs
  <1>5. active' = IF elected THEN [Deactivated(voters, ce, e) EXCEPT ![candidate] = e]
                             ELSE Deactivated(voters, ce, e)
    BY <1>1 DEF ActiveAfterElection
  <1>6. elected => highWatermark <= Len(CatchUpLog(source, candidate, highWatermark))
    BY <1>2, CatchUpReaches DEF IInv
  <1>7. highWatermark <= Len(CatchUpLog(leader, leader, highWatermark))
    BY <1>2 DEF CatchUpLog
  <1>8. elected => promisedAll
    OBVIOUS
  <1>9. /\ leader' = IF elected THEN candidate ELSE leader
        /\ epoch' = IF elected THEN e ELSE epoch
        /\ controllerEpoch' = IF elected THEN ce ELSE controllerEpoch
        /\ isr' = IF elected THEN voters ELSE isr
    BY <1>1
  <1>10. log' = IF promisedAll
                THEN [log EXCEPT ![candidate] = CatchUpLog(source, candidate, highWatermark)]
                ELSE log
    BY <1>1
  <1>11. hw' = IF elected /\ source # candidate
               THEN [hw EXCEPT ![candidate] = highWatermark] ELSE hw
    BY <1>1
  <1> HIDE DEF elected, promisedAll, Elected
  <1>12. highWatermark <= Len(log'[leader'])
    <2>1. CASE elected
      BY <1>2, <1>6, <1>8, <1>9, <1>10, <2>1
    <2>2. CASE ~elected
      <3>1. Len(log[leader]) <= Len(CatchUpLog(source, leader, highWatermark))
        BY <1>2, CatchUpType DEF IInv
      <3>2. log'[leader] = log[leader] \/ log'[leader] = CatchUpLog(source, leader, highWatermark)
        BY <1>2, <1>10
      <3>3. CatchUpLog(source, leader, highWatermark) \in Seq(Epochs)
        BY <1>2, CatchUpType DEF IInv
      <3>4. log[leader] \in Seq(Epochs) /\ highWatermark \in Nat
        BY <1>2, PartitionAssumption DEF IInv, TypeOK
      <3>5. /\ Len(log[leader]) \in Nat
            /\ Len(CatchUpLog(source, leader, highWatermark)) \in Nat
        BY <3>3, <3>4, LenProperties
      <3> QED BY <1>2, <1>9, <2>2, <3>1, <3>2, <3>4, <3>5
    <2> QED BY <2>1, <2>2
  <1>13. LogTypes' /\ WatermarkSound' /\ NothingUncommitted'
    <2>1. leader' \in Nodes /\ UNCHANGED <<committed, highWatermark, minISR>>
      BY <1>1, <1>2, <1>9
    <2>2. log' = [m \in Nodes |-> log'[m]] /\ hw' = [m \in Nodes |-> hw'[m]]
      BY <1>2, <1>10, <1>11
    <2>3. \A m \in Nodes :
            log'[m] = log[m] \/ \E s \in Nodes : log'[m] = CatchUpLog(s, m, highWatermark)
      BY <1>2, <1>10
    <2>4. \A m \in Nodes :
            hw'[m] = hw[m] \/ (hw'[m] = highWatermark /\ highWatermark <= Len(log'[m]))
      BY <1>2, <1>6, <1>8, <1>10, <1>11
    <2> QED BY <1>12, <2>1, <2>2, <2>3, <2>4, CopyStep
  <1>14. active' \in [Nodes -> 0 .. MaxEpoch]
    BY <1>3, <1>4, <1>5
  <1>15. ControlTypes'
    <2>1. leader' \in assignment /\ isr' \subseteq assignment
      BY <1>2, <1>9 DEF IInv, TypeOK
    <2>2. epoch' \in Epochs /\ controllerEpoch' \in Epochs
      BY <1>9 DEF IInv, TypeOK
    <2> QED BY <1>1, <1>3, <1>14, <2>1, <2>2 DEF IInv, TypeOK, ControlTypes
  <1>16. ActiveBounded' /\ NoSecondWriter'
    <2>1. epoch' \in Epochs /\ leader' \in Nodes
      BY <1>2, <1>9 DEF IInv, TypeOK
    <2>2. CASE elected
      <3>1. epoch' = e /\ leader' = candidate /\ active'[candidate] = e
        BY <1>3, <1>5, <1>9, <2>2
      <3>2. \A n \in Nodes \ {candidate} : active'[n] \in {0, active[n]}
        BY <1>3, <1>5, <2>2
      <3> QED BY <1>2, <1>14, <2>1, <3>1, <3>2, FenceStep
    <2>3. CASE ~elected
      <3>1. \A n \in Nodes : active'[n] \in {0, active[n]}
        BY <1>3, <1>5, <2>3
      <3>2. epoch' = epoch /\ leader' = leader
        BY <1>9, <2>3
      <3> QED BY <1>14, <2>1, <3>1, <3>2, FenceStep
    <2> QED BY <2>2, <2>3
  <1> QED BY <1>13, <1>15, <1>16, TypeHalves DEF IInv

\* reconfigure() preserves the invariant, wherever it stops: the joining
\* replicas only receive committed records and the leader stays.
LEMMA ReconfigureIInv ==
    ASSUME IInv, NEW target \in SUBSET Nodes, NEW e \in Epochs, NEW ce \in Epochs,
           Reconfigure(target, e, ce)
    PROVE  IInv'
  <1> DEFINE joining == target \ assignment
             failing == {n \in joining : ~Recovering(n, promised)}
             tried == {n \in joining : \A f \in failing : n <= f}
             caughtUp == tried \ failing
             copied == {n \in tried : CatchUpUnfenced(leader, n, epoch, promised)}
             promisedAll == Refusing(target, ce, e) = {}
             done == failing = {} /\ promisedAll
  <1>1. /\ leader \in target /\ target \subseteq replicas /\ e > epoch
        /\ log' = [n \in Nodes |-> IF n \in copied
                                   THEN CatchUpLog(leader, n, highWatermark) ELSE log[n]]
        /\ hw' = [n \in Nodes |-> IF n \in caughtUp THEN highWatermark ELSE hw[n]]
        /\ IF failing = {}
           THEN /\ Promise(target, ce, e)
                /\ active' = IF promisedAll
                             THEN [Deactivated(target, ce, e) EXCEPT ![leader] = e]
                             ELSE Deactivated(target, ce, e)
           ELSE UNCHANGED <<promised, ctl, active>>
        /\ IF done
           THEN /\ assignment' = target
                /\ online' = (online \cup tried) \cap target
                /\ isr' = online'
                /\ epoch' = e /\ controllerEpoch' = ce
           ELSE /\ online' = online \cup tried
                /\ UNCHANGED <<assignment, isr, epoch, controllerEpoch>>
        /\ UNCHANGED <<replicas, minISR, leader, highWatermark, committed>>
    BY DEF Reconfigure
  <1>2. /\ leader \in Nodes /\ leader \in assignment /\ highWatermark <= Len(log[leader])
        /\ log \in [Nodes -> Seq(Epochs)] /\ hw \in [Nodes -> Nat]
    BY DEF IInv, TypeOK, WatermarkSound
  <1>3. /\ tried \subseteq target /\ copied \subseteq Nodes /\ caughtUp \subseteq copied
        /\ leader \notin tried
        /\ \A n \in caughtUp : CatchUpSucceeds(leader, n, highWatermark)
    BY <1>2 DEF Recovering
  <1>4. /\ Deactivated(target, ce, e) \in [Nodes -> 0 .. MaxEpoch]
        /\ \A n \in Nodes : Deactivated(target, ce, e)[n] \in {0, active[n]}
        /\ Promise(target, ce, e) => promised' \in [Nodes -> 0 .. MaxEpoch]
                                       /\ ctl' \in [Nodes -> 0 .. MaxEpoch]
    BY PromiseFacts DEF IInv
  <1>5. leader \notin copied
    BY <1>3
  <1>6. /\ log' = [n \in Nodes |-> IF n \in copied
                                   THEN CatchUpLog(leader, n, highWatermark) ELSE log[n]]
        /\ hw' = [n \in Nodes |-> IF n \in caughtUp THEN highWatermark ELSE hw[n]]
        /\ UNCHANGED <<replicas, minISR, leader, highWatermark, committed>>
    BY <1>1
  <1>7. /\ promised' \in [Nodes -> 0 .. MaxEpoch] /\ ctl' \in [Nodes -> 0 .. MaxEpoch]
        /\ IF done THEN active' = [Deactivated(target, ce, e) EXCEPT ![leader] = e]
                   ELSE active' = Deactivated(target, ce, e) \/ active' = active
    BY <1>1, <1>4 DEF IInv, TypeOK
  <1>8. /\ online' \subseteq online \cup tried
        /\ assignment' = IF done THEN target ELSE assignment
        /\ isr' \subseteq assignment'
        /\ epoch' = IF done THEN e ELSE epoch
        /\ controllerEpoch' = IF done THEN ce ELSE controllerEpoch
    <2>1. CASE done
      BY <1>1, <2>1
    <2>2. CASE ~done
      BY <1>1, <2>2 DEF IInv, TypeOK
    <2> QED BY <2>1, <2>2
  <1>9. leader \in target /\ target \subseteq replicas /\ e > epoch
    BY <1>1
  <1> HIDE DEF joining, failing, tried, caughtUp, copied, promisedAll, done
  <1>10. LogTypes' /\ WatermarkSound' /\ NothingUncommitted'
    <2>1. leader' \in Nodes /\ UNCHANGED <<committed, highWatermark, minISR>>
      BY <1>2, <1>6
    <2>2. log' = [m \in Nodes |-> log'[m]] /\ hw' = [m \in Nodes |-> hw'[m]]
      BY <1>6
    <2>3. \A m \in Nodes :
            log'[m] = log[m] \/ \E s \in Nodes : log'[m] = CatchUpLog(s, m, highWatermark)
      BY <1>2, <1>6
    <2>4. highWatermark <= Len(log'[leader'])
      BY <1>2, <1>5, <1>6
    <2>5. ASSUME NEW m \in Nodes
          PROVE  hw'[m] = hw[m] \/ (hw'[m] = highWatermark /\ highWatermark <= Len(log'[m]))
      <3>1. CASE m \notin caughtUp
        BY <1>6, <3>1
      <3>2. CASE m \in caughtUp
        <4>1. m \in copied /\ CatchUpSucceeds(leader, m, highWatermark)
          BY <1>3, <3>2
        <4>2. log'[m] = CatchUpLog(leader, m, highWatermark) /\ hw'[m] = highWatermark
          BY <1>6, <3>2, <4>1
        <4>3. highWatermark <= Len(CatchUpLog(leader, m, highWatermark))
          BY <1>2, <4>1, CatchUpReaches DEF IInv
        <4> QED BY <4>2, <4>3
      <3> QED BY <3>1, <3>2
    <2> QED BY <2>1, <2>2, <2>3, <2>4, <2>5, CopyStep
  <1>11. active' \in [Nodes -> 0 .. MaxEpoch]
    <2>1. e \in 0 .. MaxEpoch /\ active \in [Nodes -> 0 .. MaxEpoch]
      BY PartitionAssumption DEF IInv, TypeOK, Epochs
    <2> QED BY <1>4, <1>7, <2>1
  <1>12. epoch' \in Epochs /\ controllerEpoch' \in Epochs
    BY <1>8 DEF IInv, TypeOK
  <1>13. ControlTypes'
    <2>1. leader \in assignment' /\ assignment' \subseteq replicas
      BY <1>2, <1>8, <1>9 DEF IInv, TypeOK
    <2>2. online' \subseteq replicas
      BY <1>3, <1>8, <1>9 DEF IInv, TypeOK
    <2> QED BY <1>6, <1>7, <1>8, <1>11, <1>12, <2>1, <2>2 DEF IInv, TypeOK, ControlTypes
  <1>14. ActiveBounded' /\ NoSecondWriter'
    <2>1. leader' = leader /\ leader' \in Nodes
      BY <1>2, <1>6
    <2>2. CASE done
      <3>1. epoch' = e /\ active'[leader] = e
        BY <1>2, <1>4, <1>7, <1>8, <2>2
      <3>2. \A n \in Nodes \ {leader} : active'[n] \in {0, active[n]}
        BY <1>4, <1>7, <2>2
      <3> QED BY <1>9, <1>11, <1>12, <2>1, <3>1, <3>2, FenceStep
    <2>3. CASE ~done
      <3>1. \A n \in Nodes : active'[n] \in {0, active[n]}
        BY <1>4, <1>7, <2>3
      <3>2. epoch' = epoch
        BY <1>8, <2>3
      <3> QED BY <1>11, <1>12, <2>1, <3>1, <3>2, FenceStep
    <2> QED BY <2>2, <2>3
  <1> QED BY <1>10, <1>13, <1>14, TypeHalves DEF IInv

-----------------------------------------------------------------------------
\* Every method preserves the invariant.
LEMMA NextIInv ==
    ASSUME IInv, [Next]_vars
    PROVE  IInv'
  <1>1. CASE AppendRecord
    BY <1>1, AppendIInv
  <1>2. CASE \E n \in Nodes : SetOnline(n) \/ RecoverReplica(n) \/ AddReplica(n) \/ RemoveReplica(n)
    BY <1>2, SetOnlineIInv, RecoverReplicaIInv, AddReplicaIInv, RemoveReplicaIInv
  <1>3. CASE \E n \in Nodes, e, ce \in Epochs, voters \in SUBSET Nodes : Elect(n, e, ce, voters)
    BY <1>3, ElectIInv
  <1>4. CASE \E e, ce \in Epochs, target \in SUBSET Nodes : Reconfigure(target, e, ce)
    BY <1>4, ReconfigureIInv
  <1>5. CASE UNCHANGED vars
    BY <1>5 DEF vars, logs, members, lead, IInv, TypeOK, ActiveBounded, NoSecondWriter,
                WatermarkSound, NothingUncommitted, StartOf
  <1> QED BY <1>1, <1>2, <1>3, <1>4, <1>5 DEF Next

\* The inductive invariant holds of every partition.
THEOREM PartitionInvariant == Spec => []IInv
  <1>1. Init => IInv
    BY InitIInv
  <1>2. IInv /\ [Next]_vars => IInv'
    BY NextIInv
  <1> QED BY <1>1, <1>2, PTL DEF Spec

\* The state of the partition and of its replicas stays well formed: no method
\* removes the leader from the assignment or commits past the end of a log.
THEOREM PartitionTypeCorrect == Spec => []TypeOK
  <1>1. IInv => TypeOK
    BY DEF IInv
  <1> QED BY <1>1, PartitionInvariant, PTL

\* Elections and reassignments, finished or not, never leave a log other than
\* the leader's that accepts appends under the partition's epoch or a newer one.
THEOREM PartitionSingleWriter == Spec => []NoSecondWriter
  <1>1. IInv => NoSecondWriter
    BY DEF IInv
  <1> QED BY <1>1, PartitionInvariant, PTL

\* Whatever was elected, the leader has every offset below the high watermark.
THEOREM PartitionWatermarkSound == Spec => []WatermarkSound
  <1>1. IInv => WatermarkSound
    BY DEF IInv
  <1> QED BY <1>1, PartitionInvariant, PTL

\* With minimum_isr = 1 no replica ever reports as committed a record that the
\* partition did not commit at that offset.
THEOREM PartitionReplicasAgree == Spec => []ReplicasAgreeOnCommitted
  <1>1. IInv => ReplicasAgreeOnCommitted
    <2> SUFFICES ASSUME IInv, minISR = 1, NEW n \in Nodes
                 PROVE  IsPrefix(SubSeq(log[n], 1, hw[n]), committed)
      BY DEF ReplicasAgreeOnCommitted
    <2>1. /\ log[n] \in Seq(Epochs) /\ committed \in Seq(Epochs)
          /\ hw[n] \in 0 .. Len(log[n]) /\ StartOf(log[n], committed)
      BY DEF IInv, TypeOK, NothingUncommitted
    <2> DEFINE reported == SubSeq(log[n], 0 + 1, hw[n])
    <2>2. /\ reported \in Seq(Epochs)
          /\ Len(reported) = IF 0 < hw[n] THEN hw[n] - 0 ELSE 0
          /\ \A i \in 1 .. Len(reported) : reported[i] = log[n][0 + i]
      BY <2>1, SliceFacts
    <2> HIDE DEF reported
    <2>3. StartOf(reported, committed)
      <3>1. Len(log[n]) \in Nat /\ Len(committed) \in Nat /\ Len(log[n]) <= Len(committed)
            /\ \A i \in 1 .. Len(log[n]) : log[n][i] = committed[i]
        BY <2>1 DEF StartOf
      <3>2. Len(reported) = hw[n] /\ hw[n] \in Nat /\ hw[n] <= Len(log[n])
        BY <2>1, <2>2, <3>1
      <3>3. \A i \in 1 .. Len(reported) : i \in 1 .. Len(log[n]) /\ 0 + i = i
        BY <3>1, <3>2
      <3>4. \A i \in 1 .. Len(reported) : reported[i] = committed[i]
        BY <2>2, <3>1, <3>3
      <3> QED BY <3>1, <3>2, <3>4 DEF StartOf
    <2>4. IsPrefix(reported, committed)
      BY <2>1, <2>2, <2>3, StartIsPrefix
    <2> QED BY <2>4 DEF reported
  <1> QED BY <1>1, PartitionInvariant, PTL

-----------------------------------------------------------------------------
\* What consumers see through the leader is what was committed.
LEMMA VisibleIsCommitted ==
    IInv => Visible = IF minISR = 1 THEN committed ELSE <<>>
  <1> SUFFICES ASSUME IInv PROVE Visible = IF minISR = 1 THEN committed ELSE <<>>
    OBVIOUS
  <1>1. CASE minISR = 1
    <2>1. /\ log[leader] = committed /\ Len(committed) = highWatermark
          /\ committed \in Seq(Epochs)
      BY <1>1 DEF IInv, TypeOK, NothingUncommitted
    <2>2. Min({highWatermark, Len(log[leader])}) = Len(committed)
      BY <2>1, MinOfTwo
    <2>3. SubSeq(committed, 1, Len(committed)) = committed
      BY <2>1, SubSeqFull
    <2> QED BY <1>1, <2>1, <2>2, <2>3 DEF Visible
  <1>2. CASE minISR # 1
    BY <1>2 DEF Visible
  <1> QED BY <1>1, <1>2

\* Likewise after a step.
LEMMA VisibleIsCommittedNext ==
    IInv' => (Visible = IF minISR = 1 THEN committed ELSE <<>>)'
  BY VisibleIsCommitted, PTL

\* Only append() changes what is committed, and nothing changes minimum_isr.
LEMMA StepFrame ==
    ASSUME [Next]_vars
    PROVE  minISR' = minISR /\ (AppendRecord \/ committed' = committed)
  <1>1. AppendRecord => minISR' = minISR
    BY DEF AppendRecord, members
  <1>2. ASSUME NEW n \in Nodes
        PROVE  SetOnline(n) \/ RecoverReplica(n) \/ AddReplica(n) \/ RemoveReplica(n)
                 => minISR' = minISR /\ committed' = committed
    BY DEF SetOnline, RecoverReplica, AddReplica, RemoveReplica
  <1>3. ASSUME NEW n \in Nodes, NEW e \in Epochs, NEW ce \in Epochs,
               NEW voters \in SUBSET Nodes, Elect(n, e, ce, voters)
        PROVE  minISR' = minISR /\ committed' = committed
    BY <1>3 DEF Elect
  <1>4. ASSUME NEW e \in Epochs, NEW ce \in Epochs, NEW target \in SUBSET Nodes,
               Reconfigure(target, e, ce)
        PROVE  minISR' = minISR /\ committed' = committed
    BY <1>4 DEF Reconfigure
  <1>5. UNCHANGED vars => minISR' = minISR /\ committed' = committed
    BY DEF vars, members
  <1> QED BY <1>1, <1>2, <1>3, <1>4, <1>5 DEF Next

\* A step appends to the committed records or leaves them alone.
LEMMA CommittedGrows ==
    ASSUME IInv, IInv', [Next]_vars
    PROVE  StartOf(committed, committed')
  <1>1. CASE AppendRecord
    <2>1. committed' = committed \/
            committed' = committed \o SubSeq(log'[leader], Len(committed) + 1, Len(log[leader]) + 1)
      BY <1>1 DEF AppendRecord
    <2>2. CASE committed' = committed
      BY <2>2 DEF IInv, TypeOK, StartOf
    <2>3. CASE committed' = committed \o
                 SubSeq(log'[leader], Len(committed) + 1, Len(log[leader]) + 1)
      <3>1. leader \in Nodes /\ committed \in Seq(Epochs) /\ log[leader] \in Seq(Epochs)
        BY DEF IInv, TypeOK
      <3>2. /\ log'[leader] = Append(log[leader], epoch) /\ epoch \in Epochs
        BY <1>1, <3>1 DEF AppendRecord, IInv, TypeOK
      <3>3. log'[leader] \in Seq(Epochs) /\ Len(log'[leader]) = Len(log[leader]) + 1
        BY <3>1, <3>2, AppendProperties
      <3>4. /\ Len(committed) \in Nat
            /\ Len(log[leader]) + 1 \in 0 .. Len(log'[leader])
        BY <3>1, <3>3
      <3>5. SubSeq(log'[leader], Len(committed) + 1, Len(log[leader]) + 1) \in Seq(Epochs)
        BY <3>3, <3>4, SliceFacts
      <3> DEFINE added == SubSeq(log'[leader], Len(committed) + 1, Len(log[leader]) + 1)
      <3> HIDE DEF added
      <3>6. added \in Seq(Epochs) /\ committed' = committed \o added
        BY <2>3, <3>5 DEF added
      <3> QED BY <3>1, <3>6, ConcatProperties DEF StartOf
    <2> QED BY <2>1, <2>2, <2>3
  <1>2. CASE committed' = committed
    BY <1>2 DEF IInv, TypeOK, StartOf
  <1> QED BY <1>1, <1>2, StepFrame

\* With minimum_isr = 1 a replicated partition is one committed log that only
\* grows at its end, through every failover, reassignment and recovery.
THEOREM PartitionImplementsCommittedLog == Spec => ImplementsCommittedLog
  <1>1. Init => Consumers!Init
    <2> SUFFICES ASSUME Init PROVE Visible = <<>>
      BY DEF Consumers!Init
    <2>1. IInv /\ committed = <<>>
      BY InitIInv DEF Init
    <2> QED BY <2>1, VisibleIsCommitted
  <1>2. IInv /\ IInv' /\ [Next]_vars => [Consumers!Extend]_Visible
    <2> SUFFICES ASSUME IInv, IInv', [Next]_vars
                 PROVE  IsPrefix(Visible, Visible') \/ Visible' = Visible
      BY DEF Consumers!Extend, Consumers!IsPrefix, IsPrefix
    <2>1. StartOf(committed, committed')
      BY CommittedGrows
    <2>2. committed \in Seq(Epochs) /\ committed' \in Seq(Epochs)
      BY DEF IInv, TypeOK
    <2>3. IsPrefix(committed, committed')
      BY <2>1, <2>2, StartIsPrefix
    <2>4. minISR' = minISR
      BY StepFrame
    <2>5. Visible = IF minISR = 1 THEN committed ELSE <<>>
      BY VisibleIsCommitted
    <2>6. Visible' = IF minISR = 1 THEN committed' ELSE <<>>
      BY <2>4, VisibleIsCommittedNext
    <2> QED BY <2>3, <2>5, <2>6
  <1> QED BY <1>1, <1>2, PartitionInvariant, PTL
          DEF Spec, ImplementsCommittedLog, Consumers!Spec
=============================================================================
