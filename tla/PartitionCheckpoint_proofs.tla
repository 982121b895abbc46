--------------------- MODULE PartitionCheckpoint_proofs ---------------------
(***************************************************************************)
(* Proofs about PartitionCheckpoint for any number of producers, any batch *)
(* sizes and any mix of failed appends, rotations, retention passes,       *)
(* elections and crashes.                                                  *)
(***************************************************************************)
EXTENDS PartitionCheckpoint, NaturalsInduction, WellFoundedInduction, TLAPS

\* The offset is below the watermark, and it is in the log, or retention has
\* reclaimed it and whatever is left lies above.
Kept(o) ==
    /\ o < watermark
    /\ \/ o \in records
       \/ o < reclaimed /\ (\A r \in records : o < r) /\ (\A e \in sealed : o < e)

\* The log has no gap below its end; only minimum_isr keeps the watermark behind it.
LogSound ==
    /\ watermark <= nextOffset /\ logStart <= watermark
    /\ SingleReplica => watermark = nextOffset
    /\ \A r \in records : r < nextOffset /\ r .. nextOffset - 1 \subseteq records
    /\ \A e \in sealed : e <= watermark

\* The file's floor is below the watermark; a replicated partition predicts nothing.
FileSound ==
    /\ ckpt.start <= ckpt.hw /\ ckpt.floor <= ckpt.hw /\ ckpt.floor <= watermark
    /\ ~SingleReplica => ckpt.hw <= watermark

\* A replicated log is complete above what was reclaimed.
Complete ==
    ~SingleReplica => \A e \in sealed \cup {reclaimed} : e .. nextOffset - 1 \subseteq records

\* What a produce() call knows at each of its steps.
ProducerSound(p) ==
    /\ prod[p].pc \in {"append", "retain", "reclaim"} => replication = p
    /\ prod[p].pc = "append" => prod[p].base = nextOffset /\ prod[p].base < prod[p].end
    /\ prod[p].pc \in {"append", "checkpoint"} /\ SingleReplica => task[p].pc # "none" /\ task[p].end = prod[p].end
    /\ prod[p].pc = "checkpoint" /\ SingleReplica => prod[p].target = prod[p].end
    /\ prod[p].pc = "write" =>
        /\ ~SingleReplica /\ checkpointLock = p
        /\ prod[p].start <= prod[p].hw /\ prod[p].hw <= watermark /\ prod[p].target <= prod[p].hw
        /\ persisted < prod[p].target
    /\ prod[p].pc \in {"retain", "reclaim"} =>
        prod[p].hw = watermark /\ prod[p].start = logStart /\ logStart \in sealed
    /\ prod[p].pc \notin {"idle", "append"} =>
        prod[p].target <= watermark /\ (Committed(p) => \A o \in prod[p].base .. prod[p].end - 1 : Kept(o))
    /\ prod[p].pc \in {"retention", "retain", "reclaim", "answer"} => prod[p].target <= persisted

\* What an overlapped checkpoint task knows.
TaskSound(p) ==
    task[p].pc # "none" =>
        /\ SingleReplica
        /\ task[p].start <= task[p].end /\ task[p].base <= task[p].end /\ task[p].end <= requested
        /\ task[p].base <= watermark
        /\ task[p].pc = "done" => task[p].end <= persisted

\* What an election or reassignment is about to write.
ControlReads == control.pc = "write" => control.start <= control.hw /\ control.hw <= watermark

\* Acknowledged offsets are below the file's watermark and in the log.
AnsweredSound ==
    /\ SingleReplica => persisted <= requested
    /\ ~overwritten => persisted <= ckpt.hw /\ \A o \in answered : o < persisted /\ Kept(o)

\* A crash leaves no call behind.
CrashSound ==
    up # "open" => control.pc = "idle" /\ \A p \in Producers : prod[p].pc = "idle" /\ task[p].pc = "none"

CheckpointInv ==
    /\ CheckpointTypeOK /\ LogSound /\ FileSound /\ Complete
    /\ \A p \in Producers : ProducerSound(p) /\ TaskSound(p)
    /\ ControlReads /\ AnsweredSound /\ CrashSound

-----------------------------------------------------------------------------
\* A nonempty set of naturals has a least element.
LEMMA LeastOfNaturals ==
    ASSUME NEW T \in SUBSET Nat, T # {}
    PROVE  \E m \in T : \A n \in T : m <= n
  <1>1. PICK m \in T : \A n \in T : ~(<<n, m>> \in OpToRel(<, Nat))
    BY NatLessThanWellFounded, WFMin
  <1>2. \A n \in T : ~(n < m)
    BY <1>1 DEF OpToRel
  <1> QED BY <1>2

\* Max() of a nonempty set of offsets is its greatest member.
LEMMA MaxIsGreatest ==
    ASSUME NEW S \in SUBSET Offsets, S # {}
    PROVE  Max(S) \in S /\ \A x \in S : x <= Max(S)
  <1> DEFINE T == {n \in Nat : \A x \in S : x <= n}
  <1>0. S \subseteq Nat /\ MaxOffset \in Nat /\ \A x \in S : x <= MaxOffset
    BY CheckpointAssumption DEF Offsets
  <1>1. T \in SUBSET Nat /\ T # {}
    BY <1>0
  <1>2. PICK m \in T : \A n \in T : m <= n
    BY <1>1, LeastOfNaturals
  <1>3. m \in S
    <2>1. SUFFICES ASSUME m \notin S PROVE FALSE
      OBVIOUS
    <2>2. \A x \in S : x < m
      BY <1>0, <1>2, <2>1
    <2>3. m # 0
      <3>1. PICK x \in S : TRUE
        OBVIOUS
      <3> QED BY <1>0, <2>2, <3>1
    <2>4. m - 1 \in T
      BY <1>0, <1>2, <2>2, <2>3
    <2> QED BY <1>2, <2>4
  <1>4. \E x \in S : \A y \in S : x >= y
    BY <1>0, <1>2, <1>3
  <1>5. Max(S) \in S /\ \A y \in S : Max(S) >= y
    BY <1>4 DEF Max
  <1> QED BY <1>0, <1>5

\* Max() of two numbers.
LEMMA MaxOfTwo ==
    ASSUME NEW a \in Nat, NEW b \in Nat
    PROVE  Max({a, b}) = IF a >= b THEN a ELSE b
  <1>1. \E x \in {a, b} : \A y \in {a, b} : x >= y
    OBVIOUS
  <1>2. Max({a, b}) \in {a, b} /\ \A y \in {a, b} : Max({a, b}) >= y
    BY <1>1 DEF Max
  <1> QED BY <1>2

\* Min() of two numbers.
LEMMA MinOfTwo ==
    ASSUME NEW a \in Nat, NEW b \in Nat
    PROVE  Min({a, b}) = IF a <= b THEN a ELSE b
  <1>1. \E x \in {a, b} : \A y \in {a, b} : x <= y
    OBVIOUS
  <1>2. Min({a, b}) \in {a, b} /\ \A y \in {a, b} : Min({a, b}) <= y
    BY <1>1 DEF Min
  <1> QED BY <1>2

\* The numbers of a state that has its types.
LEMMA Numbers ==
    ASSUME CheckpointTypeOK
    PROVE  /\ MaxOffset \in Nat
           /\ watermark \in Nat /\ logStart \in Nat /\ nextOffset \in Nat /\ persisted \in Nat /\ requested \in Nat
           /\ reclaimed \in Nat /\ records \subseteq Nat /\ bases \subseteq Nat /\ sealed \subseteq Nat /\ answered \subseteq Nat
           /\ ckpt.hw \in Nat /\ ckpt.start \in Nat /\ ckpt.floor \in Nat
           /\ control.hw \in Nat /\ control.start \in Nat
           /\ \A p \in Producers : /\ prod[p].base \in Nat /\ prod[p].end \in Nat /\ prod[p].target \in Nat /\ prod[p].start \in Nat /\ prod[p].hw \in Nat
                                   /\ task[p].base \in Nat /\ task[p].end \in Nat /\ task[p].start \in Nat
           /\ Nobody \notin Producers
  BY CheckpointAssumption DEF CheckpointTypeOK, Offsets, Assigned, CheckpointFile, ProduceCall, Nobody

\* Where open() finds the end of the log.
LEMMA LogEndFound ==
    ASSUME CheckpointTypeOK, LogSound
    PROVE  LogEnd = IF records = {} THEN ckpt.hw ELSE nextOffset
  <1>1. CASE records # {}
    <2>1. records \subseteq Offsets
      BY CheckpointAssumption DEF CheckpointTypeOK, Assigned, Offsets
    <2>2. Max(records) \in records /\ \A r \in records : r <= Max(records)
      BY <1>1, <2>1, MaxIsGreatest
    <2>3. Max(records) < nextOffset /\ Max(records) .. nextOffset - 1 \subseteq records /\ Max(records) \in Nat /\ nextOffset \in Nat
      BY <2>2, Numbers DEF LogSound
    <2>4. nextOffset - 1 \in records
      BY <2>3
    <2> QED BY <1>1, <2>2, <2>3, <2>4 DEF LogEnd
  <1> QED BY <1>1 DEF LogEnd

\* A disturbance that is used up leaves the kind of partition alone.
LEMMA UseKeeps ==
    ASSUME scenario \in Scenario, NEW what \in {"shortages", "failures", "seals", "retentions", "controls", "crashes"}, Use(what)
    PROVE  scenario' \in Scenario /\ scenario'.single = scenario.single
  BY DEF Use, Scenario

\* open() compares the watermark with the end of the newest sealed segment.
LEMMA SealedEndBounds ==
    ASSUME CheckpointTypeOK
    PROVE  SealedEnd \in Nat /\ \A e \in sealed : e <= SealedEnd
  <1>1. sealed \cup {0} \in SUBSET Offsets /\ sealed \cup {0} # {}
    BY CheckpointAssumption DEF CheckpointTypeOK, Offsets
  <1>2. SealedEnd \in sealed \cup {0} /\ \A e \in sealed \cup {0} : e <= SealedEnd
    BY <1>1, MaxIsGreatest DEF SealedEnd
  <1> QED BY <1>2, Numbers

\* An interval of offsets, element by element: how a set is shown to hold a batch ...
LEMMA IntervalInside ==
    ASSUME NEW a \in Nat, NEW b \in Nat, NEW S, \A o \in Nat : a <= o /\ o < b => o \in S
    PROVE  a .. b - 1 \subseteq S
  OBVIOUS

\* ... and how the batches a set is known to hold are used.
LEMMA IntervalMembers ==
    ASSUME NEW a \in Nat, NEW b \in Nat, NEW S, a .. b - 1 \subseteq S
    PROVE  \A o \in Nat : a <= o /\ o < b => o \in S
  OBVIOUS

\* A call that moves on with another pair to write keeps its type.
LEMMA CallMovesOn ==
    ASSUME CheckpointTypeOK, NEW p \in Producers, NEW step \in {"write", "retain"}, NEW h \in Offsets, NEW s \in Offsets
    PROVE  [prod EXCEPT ![p] = [@ EXCEPT !.pc = step, !.hw = h, !.start = s]] \in [Producers -> ProduceCall]
  <1>1. prod \in [Producers -> ProduceCall]
    BY DEF CheckpointTypeOK
  <1>2. [prod[p] EXCEPT !.pc = step, !.hw = h, !.start = s] \in ProduceCall
    BY <1>1 DEF ProduceCall
  <1> QED BY <1>1, <1>2

\* The fields of a call are not touched when it moves on.
LEMMA CallFields ==
    ASSUME CheckpointTypeOK, NEW p \in Producers, NEW step, prod' = [prod EXCEPT ![p].pc = step]
    PROVE  /\ prod'[p].pc = step /\ prod'[p].base = prod[p].base /\ prod'[p].end = prod[p].end
           /\ prod'[p].target = prod[p].target /\ prod'[p].hw = prod[p].hw /\ prod'[p].start = prod[p].start
           /\ \A q \in Producers : q # p => prod'[q] = prod[q]
  BY DEF CheckpointTypeOK, ProduceCall

\* produce() takes the replication lock and spawns its checkpoint task.
LEMMA ProduceBeginKeeps ==
    ASSUME CheckpointInv, NEW p \in Producers, ProduceBegin(p)
    PROVE  CheckpointInv'
  <1>a. CheckpointTypeOK /\ LogSound /\ FileSound /\ Complete /\ ControlReads /\ AnsweredSound /\ CrashSound
        /\ \A q \in Producers : ProducerSound(q) /\ TaskSound(q)
    BY DEF CheckpointInv
  <1>z. PICK span \in 1 .. MaxSpan :
            /\ nextOffset + span <= MaxOffset
            /\ Spawn(p, nextOffset + span)
            /\ prod' = [prod EXCEPT ![p] =
                          [pc |-> "append", base |-> nextOffset, end |-> nextOffset + span, target |-> 0, start |-> 0,
                           hw |-> 0]]
    BY DEF ProduceBegin
  <1> DEFINE end == nextOffset + span
  <1>b. /\ end \in Nat /\ nextOffset < end /\ end <= MaxOffset /\ nextOffset \in Nat /\ Spawn(p, end)
        /\ prod' = [prod EXCEPT ![p] =
                      [pc |-> "append", base |-> nextOffset, end |-> end, target |-> 0, start |-> 0, hw |-> 0]]
    <2>1. nextOffset \in Nat /\ span \in Nat /\ span > 0
      BY <1>a, <1>z, Numbers, CheckpointAssumption
    <2>2. end \in Nat /\ nextOffset < end /\ end <= MaxOffset
      BY <1>z, <2>1
    <2> QED BY <1>z, <2>1, <2>2
  <1> HIDE DEF end
  <1>c. /\ SingleReplica => /\ requested' = Max({requested, end})
                            /\ task' = [task EXCEPT ![p] = [pc |-> "spawned", base |-> nextOffset, end |-> end, start |-> logStart]]
        /\ ~SingleReplica => requested' = requested /\ task' = task
    BY <1>b DEF Spawn
  <1>d. requested' \in Offsets /\ requested <= requested' /\ (SingleReplica => end <= requested')
    <2>1. requested \in Nat /\ requested <= MaxOffset /\ MaxOffset \in Nat
      BY <1>a, Numbers DEF CheckpointTypeOK, Offsets
    <2>2. Max({requested, end}) = IF requested >= end THEN requested ELSE end
      BY <1>b, <2>1, MaxOfTwo
    <2> QED BY <1>b, <1>c, <2>1, <2>2 DEF Offsets
  <1>e. /\ up = "open" /\ prod[p].pc = "idle" /\ task[p].pc = "none" /\ replication = Nobody /\ replication' = p
        /\ UNCHANGED <<records, bases, sealed, ckpt, up, watermark, logStart, nextOffset, persisted, checkpointLock, control,
                       answered, reclaimed, overwritten, scenario>>
    BY DEF ProduceBegin, disk, history
  <1>1. CheckpointTypeOK'
    <2>1. task' \in [Producers -> [pc : {"none", "spawned", "write", "done"}, base : Offsets, end : Offsets, start : Offsets]]
      BY <1>a, <1>b, <1>c, Numbers DEF CheckpointTypeOK, Offsets
    <2>2. prod' \in [Producers -> ProduceCall]
      BY <1>a, <1>b, Numbers DEF CheckpointTypeOK, Offsets, ProduceCall
    <2> QED BY <1>a, <1>d, <1>e, <2>1, <2>2 DEF CheckpointTypeOK
  <1>2. LogSound'
    BY <1>a DEF ProduceBegin, disk, history, LogSound, SingleReplica
  <1>3. FileSound'
    BY <1>a DEF ProduceBegin, disk, history, FileSound, SingleReplica
  <1>4. Complete'
    BY <1>a DEF ProduceBegin, disk, history, Complete, SingleReplica
  <1>5. \A q \in Producers : ProducerSound(q)'
    BY <1>a, <1>b, <1>c, <1>d, <1>e, Numbers DEF ProducerSound, Committed, Kept, SingleReplica, CheckpointTypeOK
  <1>6. \A q \in Producers : TaskSound(q)'
    <2>1. ASSUME NEW q \in Producers, q # p PROVE TaskSound(q)'
      <3>1. task'[q] = task[q]
        BY <1>a, <1>c, <2>1 DEF CheckpointTypeOK
      <3>2. requested' \in Nat /\ requested \in Nat /\ task[q].end \in Nat
        BY <1>a, <1>d, Numbers DEF Offsets
      <3>3. task[q].pc # "none" => task[q].end <= requested'
        BY <1>a, <1>d, <3>2 DEF TaskSound
      <3> QED BY <1>a, <1>e, <3>1, <3>3 DEF TaskSound, SingleReplica
    <2>2. CASE SingleReplica
      <3>1. task'[p] = [pc |-> "spawned", base |-> nextOffset, end |-> end, start |-> logStart]
        BY <1>a, <1>c, <2>2 DEF CheckpointTypeOK
      <3>2. TaskSound(p)'
        BY <1>a, <1>b, <1>d, <1>e, <2>2, <3>1, Numbers DEF TaskSound, SingleReplica, LogSound
      <3> QED BY <2>1, <3>2
    <2>3. CASE ~SingleReplica
      BY <1>a, <1>c, <1>e, <2>3, Numbers DEF TaskSound, SingleReplica
    <2> QED BY <2>2, <2>3
  <1>7. ControlReads'
    BY <1>a DEF ProduceBegin, disk, history, ControlReads
  <1>8. AnsweredSound'
    <2>1. \A o \in Nat : Kept(o)' <=> Kept(o)
      BY <1>e DEF Kept
    <2>2. SingleReplica' => persisted' <= requested'
      <3>1. persisted \in Nat /\ requested \in Nat /\ requested' \in Nat
        BY <1>a, <1>d, Numbers DEF Offsets
      <3> QED BY <1>a, <1>d, <1>e, <3>1 DEF AnsweredSound, SingleReplica
    <2> QED BY <1>a, <1>e, <2>1, <2>2, Numbers DEF AnsweredSound
  <1>9. CrashSound'
    BY <1>a DEF ProduceBegin, disk, history, CrashSound
  <1> QED BY <1>1, <1>2, <1>3, <1>4, <1>5, <1>6, <1>7, <1>8, <1>9 DEF CheckpointInv

\* replication.append() returns, with or without minimum_isr replicas.
LEMMA AppendedKeeps ==
    ASSUME CheckpointInv, NEW p \in Producers, NEW hw, Appended(p, hw),
           hw = prod[p].end \/ (~SingleReplica /\ hw = watermark),
           sealed' = sealed \/ (Rotates /\ sealed' = sealed \cup {nextOffset}),
           scenario' \in Scenario /\ scenario'.single = scenario.single
    PROVE  CheckpointInv'
  <1>a. CheckpointTypeOK /\ LogSound /\ FileSound /\ Complete /\ ControlReads /\ AnsweredSound /\ CrashSound
        /\ \A q \in Producers : ProducerSound(q) /\ TaskSound(q)
    BY DEF CheckpointInv
  <1>b. sealed' = sealed \/ (sealed' = sealed \cup {nextOffset} /\ watermark = nextOffset)
    BY DEF Rotates
  <1>c. scenario' \in Scenario /\ scenario'.single = scenario.single
    OBVIOUS
  <1>d. /\ up = "open" /\ prod[p].pc = "append" /\ replication = p /\ replication' = Nobody
        /\ prod[p].base = nextOffset /\ nextOffset < prod[p].end
    BY <1>a DEF Appended, ProducerSound
  <1>e. /\ records' = records \cup nextOffset .. prod[p].end - 1 /\ bases' = bases \cup {nextOffset}
        /\ nextOffset' = prod[p].end /\ watermark' = hw
        /\ prod' = [prod EXCEPT ![p].pc = "checkpoint", ![p].target = hw]
        /\ UNCHANGED <<ckpt, up, logStart, persisted, requested, checkpointLock, task, control, answered, reclaimed, overwritten>>
    BY <1>d DEF Appended, others
  <1>f. /\ nextOffset' \in Nat /\ nextOffset < nextOffset' /\ records' \subseteq Nat
        /\ \A r \in records' : r \in records \/ (nextOffset <= r /\ r < nextOffset')
    BY <1>a, <1>d, <1>e, Numbers
  <1>g. \A r \in Nat : nextOffset <= r /\ r < nextOffset' => r \in records'
    BY <1>a, <1>d, <1>e, Numbers
  <1>w. /\ watermark' \in Nat /\ watermark \in Nat /\ nextOffset \in Nat /\ watermark <= watermark' /\ watermark' <= nextOffset'
        /\ watermark' \in Offsets /\ watermark <= nextOffset /\ (SingleReplica => watermark' = nextOffset')
    BY <1>a, <1>d, <1>e, Numbers DEF LogSound, CheckpointTypeOK, ProduceCall
  <1>h. records \subseteq records' /\ \A e \in sealed' : e \in sealed \/ e = nextOffset
    BY <1>b, <1>e
  <1>1. CheckpointTypeOK'
    <2>1. records' \subseteq Assigned /\ bases' \subseteq records' /\ sealed' \subseteq Offsets
      BY <1>a, <1>d, <1>e, <1>f, <1>g, <1>h, Numbers DEF CheckpointTypeOK, ProduceCall, Offsets, Assigned
    <2>0. prod \in [Producers -> ProduceCall] /\ hw \in Offsets
      BY <1>a, <1>e, <1>w DEF CheckpointTypeOK
    <2>2. prod \in [Producers -> ProduceCall] /\ prod[p] \in ProduceCall /\ prod[p].end \in Offsets /\ hw \in Offsets
      BY <2>0 DEF ProduceCall
    <2>3. [prod[p] EXCEPT !.pc = "checkpoint", !.target = hw] \in ProduceCall
      BY <2>2 DEF ProduceCall
    <2>4. prod' = [prod EXCEPT ![p] = [prod[p] EXCEPT !.pc = "checkpoint", !.target = hw]]
      BY <1>e, <2>2 DEF ProduceCall
    <2>5. prod' \in [Producers -> ProduceCall]
      BY <2>2, <2>3, <2>4
    <2> QED BY <1>a, <1>c, <1>d, <1>e, <1>w, <2>1, <2>2, <2>5 DEF CheckpointTypeOK
  <1>2. LogSound'
    <2>1. \A r \in records' : r < nextOffset' /\ r .. nextOffset' - 1 \subseteq records'
      <3> SUFFICES ASSUME NEW r \in records' PROVE r < nextOffset' /\ r .. nextOffset' - 1 \subseteq records'
        OBVIOUS
      <3>1. r \in Nat /\ nextOffset' \in Nat
        BY <1>f
      <3>2. r < nextOffset'
        BY <1>a, <1>f, Numbers DEF LogSound
      <3>3. ASSUME NEW o \in Nat, r <= o, o < nextOffset' PROVE o \in records'
        <4>1. CASE o < nextOffset
          BY <1>a, <1>f, <1>h, <3>1, <3>3, <4>1, Numbers DEF LogSound
        <4> QED BY <1>a, <1>g, <3>3, <4>1, Numbers
      <3> QED BY <3>1, <3>2, <3>3, IntervalInside
    <2>2. \A e \in sealed' : e <= watermark'
      BY <1>a, <1>b, <1>w, Numbers DEF LogSound
    <2> QED BY <1>a, <1>c, <1>e, <1>w, <2>1, <2>2, Numbers DEF LogSound, SingleReplica
  <1>3. FileSound'
    BY <1>a, <1>c, <1>e, <1>w, Numbers DEF FileSound, SingleReplica
  <1>4. Complete'
    <2> SUFFICES ASSUME ~SingleReplica, NEW e \in sealed' \cup {reclaimed'}, NEW o \in e .. nextOffset' - 1 PROVE o \in records'
      BY <1>c DEF Complete, SingleReplica
    <2>1. e \in Nat /\ o \in Nat /\ e <= o /\ o < nextOffset' /\ e \in sealed \cup {reclaimed, nextOffset}
      BY <1>a, <1>e, <1>f, <1>h, Numbers
    <2>2. CASE o < nextOffset
      <3>1. e \in sealed \cup {reclaimed} /\ o \in e .. nextOffset - 1
        BY <1>a, <2>1, <2>2, Numbers
      <3> QED BY <1>a, <1>h, <3>1 DEF Complete
    <2> QED BY <1>a, <1>g, <2>1, <2>2, Numbers
  <1>k. \A o \in Nat : Kept(o) => Kept(o)'
    BY <1>a, <1>b, <1>e, <1>f, <1>h, <1>w, Numbers DEF Kept
  <1>5. \A q \in Producers : ProducerSound(q)'
    <2>0. SingleReplica' <=> SingleReplica
      BY <1>c DEF SingleReplica
    <2>3. ASSUME NEW q \in Producers, q # p PROVE ProducerSound(q)'
      <3>1. prod'[q] = prod[q] /\ prod[q].pc \notin {"append", "retain", "reclaim"} /\ prod[q].base \in Nat /\ prod[q].end \in Nat
        BY <1>a, <1>d, <1>e, <2>3, Numbers DEF ProducerSound, CheckpointTypeOK
      <3>2. Committed(q)' <=> Committed(q)
        BY <3>1 DEF Committed
      <3>3. prod[q].pc # "idle" /\ Committed(q) => \A o \in prod[q].base .. prod[q].end - 1 : Kept(o)'
        BY <1>a, <1>k, <3>1 DEF ProducerSound
      <3>4. prod[q].pc = "write" => prod[q].hw <= watermark'
        BY <1>a, <1>w, Numbers DEF ProducerSound
      <3>5. prod[q].pc # "idle" => prod[q].target <= watermark'
        BY <1>a, <1>w, <3>1, Numbers DEF ProducerSound
      <3> QED BY <1>a, <1>e, <2>0, <3>1, <3>2, <3>3, <3>4, <3>5 DEF ProducerSound
    <2>4. ProducerSound(p)'
      <3>1. prod'[p].pc = "checkpoint" /\ prod'[p].base = nextOffset /\ prod'[p].end = nextOffset' /\ prod'[p].target = watermark'
        BY <1>a, <1>d, <1>e DEF CheckpointTypeOK, ProduceCall
      <3>2. Committed(p)' => watermark' = nextOffset'
        BY <1>w, <1>f, <3>1 DEF Committed
      <3>3. ASSUME Committed(p)', NEW o \in nextOffset .. prod[p].end - 1 PROVE Kept(o)'
        <4>1. o \in Nat /\ nextOffset <= o /\ o < nextOffset'
          BY <1>e, <1>f, <1>w, <3>3
        <4> QED BY <1>g, <3>2, <3>3, <4>1 DEF Kept
      <3>4. SingleReplica' => task'[p].pc # "none" /\ task'[p].end = prod'[p].end /\ prod'[p].target = prod'[p].end
        BY <1>a, <1>d, <1>e, <1>w, <2>0, <3>1 DEF ProducerSound
      <3>5. watermark' <= watermark'
        BY <1>w
      <3> QED BY <1>e, <3>1, <3>3, <3>4, <3>5 DEF ProducerSound
    <2> QED BY <2>3, <2>4
  <1>6. \A q \in Producers : TaskSound(q)'
    BY <1>a, <1>c, <1>e, <1>w, Numbers DEF TaskSound, SingleReplica
  <1>7. ControlReads'
    BY <1>a, <1>e, <1>w, Numbers DEF ControlReads
  <1>8. AnsweredSound'
    BY <1>a, <1>c, <1>e, <1>k, Numbers DEF AnsweredSound, SingleReplica
  <1>9. CrashSound'
    BY <1>a DEF Appended, others, CrashSound
  <1> QED BY <1>1, <1>2, <1>3, <1>4, <1>5, <1>6, <1>7, <1>8, <1>9 DEF CheckpointInv

\* Enough replicas have the batch.
LEMMA AppendBatchKeeps ==
    ASSUME CheckpointInv, NEW p \in Producers, AppendBatch(p)
    PROVE  CheckpointInv'
  <1>1. scenario \in Scenario
    BY DEF CheckpointInv, CheckpointTypeOK
  <1>2. scenario' = scenario \/ Use("seals")
    BY DEF AppendBatch
  <1>3. scenario' \in Scenario /\ scenario'.single = scenario.single
    BY <1>1, <1>2, UseKeeps
  <1> QED BY <1>3, AppendedKeeps DEF AppendBatch

\* Fewer than minimum_isr have it.
LEMMA AppendShortKeeps ==
    ASSUME CheckpointInv, NEW p \in Producers, AppendShort(p)
    PROVE  CheckpointInv'
  <1>1. scenario \in Scenario
    BY DEF CheckpointInv, CheckpointTypeOK
  <1>2. scenario' \in Scenario /\ scenario'.single = scenario.single
    <2>1. CASE Use("shortages")
      BY <1>1, <2>1, UseKeeps
    <2>2. CASE ~Use("shortages")
      <3>1. scenario.shortages > 0 /\ scenario.seals > 0 /\ scenario' = [scenario EXCEPT !.shortages = @ - 1, !.seals = @ - 1]
        BY <2>2 DEF AppendShort, Rotates
      <3>2. scenario.shortages - 1 \in Nat /\ scenario.seals - 1 \in Nat
        BY <1>1, <3>1 DEF Scenario
      <3> QED BY <1>1, <3>1, <3>2 DEF Scenario
    <2> QED BY <2>1, <2>2
  <1> QED BY <1>2, AppendedKeeps DEF AppendShort

\* replication.append() fails.
LEMMA AppendFailsKeeps ==
    ASSUME CheckpointInv, NEW p \in Producers, AppendFails(p)
    PROVE  CheckpointInv'
  <1>a. CheckpointTypeOK /\ LogSound /\ FileSound /\ Complete /\ ControlReads /\ AnsweredSound /\ CrashSound
        /\ \A q \in Producers : ProducerSound(q) /\ TaskSound(q)
    BY DEF CheckpointInv
  <1>b. sealed' = sealed \/ (sealed' = sealed \cup {nextOffset} /\ watermark = nextOffset)
    BY DEF AppendFails, Rotates
  <1>c. scenario' \in Scenario /\ scenario'.single = scenario.single
    <2>1. scenario \in Scenario
      BY <1>a DEF CheckpointTypeOK
    <2>2. \/ Use("failures")
          \/ scenario.failures > 0 /\ scenario.seals > 0 /\ scenario' = [scenario EXCEPT !.failures = @ - 1, !.seals = @ - 1]
      BY DEF AppendFails, Rotates
    <2>3. CASE Use("failures")
      BY <2>1, <2>3, UseKeeps
    <2>4. CASE scenario.failures > 0 /\ scenario.seals > 0 /\ scenario' = [scenario EXCEPT !.failures = @ - 1, !.seals = @ - 1]
      <3>1. scenario.failures - 1 \in Nat /\ scenario.seals - 1 \in Nat
        BY <2>1, <2>4 DEF Scenario
      <3> QED BY <2>1, <2>4, <3>1 DEF Scenario
    <2> QED BY <2>2, <2>3, <2>4
  <1>d. /\ up = "open" /\ prod[p].pc = "append" /\ replication = p /\ replication' = Nobody
        /\ prod' = [prod EXCEPT ![p] = NoProduce]
        /\ UNCHANGED <<records, bases, ckpt, up, watermark, logStart, nextOffset, persisted, requested, checkpointLock, task,
                       control, answered, reclaimed, overwritten>>
    BY <1>a DEF AppendFails, ProducerSound, others, mem
  <1>e. \A e \in sealed' : e \in sealed \/ e = nextOffset
    BY <1>b
  <1>g. \A o \in Nat : Kept(o) => Kept(o)'
    BY <1>a, <1>b, <1>d, Numbers DEF Kept
  <1>1. CheckpointTypeOK'
    <2>1. sealed' \subseteq Offsets
      BY <1>a, <1>e DEF CheckpointTypeOK
    <2>2. prod' \in [Producers -> ProduceCall]
      BY <1>a, <1>d, CheckpointAssumption DEF CheckpointTypeOK, ProduceCall, NoProduce, Offsets
    <2> QED BY <1>a, <1>c, <1>d, <2>1, <2>2 DEF CheckpointTypeOK
  <1>2. LogSound'
    BY <1>a, <1>b, <1>c, <1>d, Numbers DEF LogSound, SingleReplica
  <1>3. FileSound'
    BY <1>a, <1>c, <1>d, Numbers DEF FileSound, SingleReplica
  <1>4. Complete'
    <2>1. nextOffset .. nextOffset - 1 = {}
      BY <1>a, Numbers
    <2> QED BY <1>a, <1>c, <1>d, <1>e, <2>1 DEF Complete, SingleReplica
  <1>5. \A q \in Producers : ProducerSound(q)'
    <2>1. ASSUME NEW q \in Producers, q # p PROVE ProducerSound(q)'
      <3>1. prod'[q] = prod[q] /\ prod[q].pc \notin {"append", "retain", "reclaim"} /\ prod[q].base \in Nat /\ prod[q].end \in Nat
        BY <1>a, <1>d, <2>1, Numbers DEF ProducerSound, CheckpointTypeOK
      <3>2. prod[q].pc # "idle" /\ Committed(q) => \A o \in prod[q].base .. prod[q].end - 1 : Kept(o)'
        BY <1>a, <1>g, <3>1 DEF ProducerSound
      <3>3. Committed(q)' <=> Committed(q)
        BY <3>1 DEF Committed
      <3> QED BY <1>a, <1>c, <1>d, <3>1, <3>2, <3>3, Numbers DEF ProducerSound, SingleReplica
    <2>2. prod'[p].pc = "idle"
      BY <1>a, <1>d DEF CheckpointTypeOK, NoProduce
    <2> QED BY <2>1, <2>2 DEF ProducerSound
  <1>6. \A q \in Producers : TaskSound(q)'
    BY <1>a, <1>c, <1>d, Numbers DEF TaskSound, SingleReplica
  <1>7. ControlReads'
    BY <1>a, <1>d DEF ControlReads
  <1>8. AnsweredSound'
    BY <1>a, <1>c, <1>d, <1>g, Numbers DEF AnsweredSound, SingleReplica
  <1>9. CrashSound'
    BY <1>a DEF AppendFails, NoProduce, mem, others, CrashSound
  <1> QED BY <1>1, <1>2, <1>3, <1>4, <1>5, <1>6, <1>7, <1>8, <1>9 DEF CheckpointInv

\* The checkpoint task takes checkpoint_lock, or finds its end covered.
LEMMA TaskLockKeeps ==
    ASSUME CheckpointInv, NEW p \in Producers, TaskLock(p)
    PROVE  CheckpointInv'
  <1>a. CheckpointTypeOK /\ LogSound /\ FileSound /\ Complete /\ ControlReads /\ AnsweredSound /\ CrashSound
        /\ \A q \in Producers : ProducerSound(q) /\ TaskSound(q)
    BY DEF CheckpointInv
  <1>b. SingleReplica /\ task[p].pc = "spawned"
    BY <1>a DEF TaskLock, TaskSound
  <1>c. UNCHANGED <<records, bases, sealed, ckpt, up, watermark, logStart, nextOffset, persisted, requested, replication, prod,
                    control, answered, reclaimed, overwritten, scenario>>
    BY DEF TaskLock, disk, mem, history
  <1>d. PICK step \in {"done", "write"} :
          /\ task' = [task EXCEPT ![p] = [@ EXCEPT !.pc = step]] /\ checkpointLock' \in {checkpointLock, p}
          /\ step = "done" => persisted >= task[p].end
    BY DEF TaskLock
  <1>e. task \in [Producers -> [pc : {"none", "spawned", "write", "done"}, base : Offsets, end : Offsets, start : Offsets]]
    BY <1>a DEF CheckpointTypeOK
  <1>f. /\ task'[p].pc = step /\ task'[p].base = task[p].base /\ task'[p].end = task[p].end /\ task'[p].start = task[p].start
        /\ \A q \in Producers : q # p => task'[q] = task[q]
    BY <1>d, <1>e
  <1>g. \A o : Kept(o)' <=> Kept(o)
    BY <1>c DEF Kept
  <1>1. CheckpointTypeOK'
    <2>1. task' \in [Producers -> [pc : {"none", "spawned", "write", "done"}, base : Offsets, end : Offsets, start : Offsets]]
      BY <1>d, <1>e
    <2>2. checkpointLock' \in Producers \cup {Nobody}
      BY <1>a, <1>d DEF CheckpointTypeOK
    <2> QED BY <1>a, <1>c, <2>1, <2>2 DEF CheckpointTypeOK
  <1>2. LogSound'
    BY <1>a DEF TaskLock, disk, mem, history, LogSound, SingleReplica
  <1>3. FileSound'
    BY <1>a DEF TaskLock, disk, mem, history, FileSound, SingleReplica
  <1>4. Complete'
    BY <1>a DEF TaskLock, disk, mem, history, Complete, SingleReplica
  <1>5. \A q \in Producers : ProducerSound(q)'
    <2> SUFFICES ASSUME NEW q \in Producers PROVE ProducerSound(q)'
      OBVIOUS
    <2>1. (task'[q].end = task[q].end /\ task'[q].pc # "none") \/ task'[q] = task[q]
      BY <1>d, <1>f
    <2>2. prod[q].pc # "write" /\ SingleReplica'
      BY <1>a, <1>b, <1>c DEF ProducerSound, SingleReplica
    <2> QED BY <1>a, <1>b, <1>c, <1>g, <2>1, <2>2 DEF ProducerSound, Committed
  <1>6. \A q \in Producers : TaskSound(q)'
    <2> SUFFICES ASSUME NEW q \in Producers PROVE TaskSound(q)'
      OBVIOUS
    <2>1. CASE q = p
      <3>1. task[p].start <= task[p].end /\ task[p].base <= task[p].end /\ task[p].end <= requested /\ task[p].base <= watermark
        BY <1>a, <1>b DEF TaskSound
      <3>2. step = "done" => task[p].end <= persisted
        BY <1>a, <1>d, <1>e, Numbers
      <3> QED BY <1>b, <1>c, <1>f, <2>1, <3>1, <3>2 DEF TaskSound, SingleReplica
    <2>2. CASE q # p
      BY <1>a, <1>c, <1>f, <2>2 DEF TaskSound, SingleReplica
    <2> QED BY <2>1, <2>2
  <1>7. ControlReads'
    BY <1>a DEF TaskLock, disk, mem, history, ControlReads
  <1>8. AnsweredSound'
    BY <1>a DEF TaskLock, disk, mem, history, AnsweredSound, Kept, SingleReplica
  <1>9. CrashSound'
    BY <1>a DEF TaskLock, disk, mem, history, CrashSound
  <1> QED BY <1>1, <1>2, <1>3, <1>4, <1>5, <1>6, <1>7, <1>8, <1>9 DEF CheckpointInv

\* The checkpoint task writes the highest watermark requested.
LEMMA TaskWriteKeeps ==
    ASSUME CheckpointInv, NEW p \in Producers, TaskWrite(p)
    PROVE  CheckpointInv'
  <1>a. CheckpointTypeOK /\ LogSound /\ FileSound /\ Complete /\ ControlReads /\ AnsweredSound /\ CrashSound
        /\ \A q \in Producers : ProducerSound(q) /\ TaskSound(q)
    BY DEF CheckpointInv
  <1>b. /\ up = "open" /\ task[p].pc = "write" /\ SingleReplica /\ task[p].end <= requested /\ persisted <= requested
        /\ task[p].base <= task[p].end /\ task[p].start <= task[p].end /\ task[p].base <= watermark
    BY <1>a DEF TaskWrite, TaskSound, AnsweredSound
  <1>c. Max({requested, task[p].end}) = requested /\ Max({persisted, requested}) = requested
    BY <1>a, <1>b, Numbers, MaxOfTwo
  <1>d. /\ ckpt' = [hw |-> requested, start |-> task[p].start, floor |-> task[p].base] /\ persisted' = requested
        /\ checkpointLock' = Nobody /\ task' = [task EXCEPT ![p].pc = "done"]
        /\ UNCHANGED <<records, bases, sealed, up, watermark, logStart, nextOffset, requested, replication, prod, control,
                       answered, reclaimed, overwritten, scenario>>
    BY <1>c DEF TaskWrite, SafeFloor, history
  <1>e. persisted \in Nat /\ requested \in Nat /\ persisted <= persisted'
    BY <1>a, <1>b, <1>d, Numbers
  <1>f. ckpt'.hw = requested /\ ckpt'.start = task[p].start /\ ckpt'.floor = task[p].base
    BY <1>d
  <1>g. \A o \in Nat : Kept(o)' <=> Kept(o)
    BY <1>d DEF Kept
  <1>1. CheckpointTypeOK'
    <2>1. ckpt' \in CheckpointFile
      BY <1>a, <1>d DEF CheckpointTypeOK, CheckpointFile
    <2>2. task' \in [Producers -> [pc : {"none", "spawned", "write", "done"}, base : Offsets, end : Offsets, start : Offsets]]
      BY <1>a, <1>d DEF CheckpointTypeOK
    <2> QED BY <1>a, <1>d, <2>1, <2>2 DEF CheckpointTypeOK
  <1>2. LogSound'
    BY <1>a, <1>d DEF LogSound, SingleReplica
  <1>3. FileSound'
    BY <1>a, <1>b, <1>d, <1>f, Numbers DEF FileSound, SingleReplica
  <1>4. Complete'
    BY <1>a, <1>d DEF Complete, SingleReplica
  <1>5. \A q \in Producers : ProducerSound(q)'
    <2> SUFFICES ASSUME NEW q \in Producers PROVE ProducerSound(q)'
      OBVIOUS
    <2>1. prod'[q] = prod[q] /\ prod[q].pc # "write" /\ prod[q].base \in Nat /\ prod[q].end \in Nat /\ prod[q].target \in Nat
      BY <1>a, <1>b, <1>d, Numbers DEF ProducerSound
    <2>2. (task'[q].pc = "none" <=> task[q].pc = "none") /\ task'[q].end = task[q].end
      BY <1>a, <1>b, <1>d DEF CheckpointTypeOK
    <2>3. prod[q].target <= persisted => prod[q].target <= persisted'
      BY <1>d, <1>e, <2>1
    <2>4. prod[q].pc \notin {"idle", "append"} /\ Committed(q)' => \A o \in prod[q].base .. prod[q].end - 1 : Kept(o)'
      BY <1>a, <1>g, <2>1 DEF ProducerSound, Committed
    <2> QED BY <1>a, <1>d, <2>1, <2>2, <2>3, <2>4 DEF ProducerSound, SingleReplica
  <1>6. \A q \in Producers : TaskSound(q)'
    <2> SUFFICES ASSUME NEW q \in Producers PROVE TaskSound(q)'
      OBVIOUS
    <2>1. /\ (task'[q].pc = "none" <=> task[q].pc = "none") /\ task'[q].end = task[q].end
          /\ task'[q].start = task[q].start /\ task'[q].base = task[q].base
      BY <1>a, <1>b, <1>d DEF CheckpointTypeOK
    <2>2. task'[q].pc # "none" => task'[q].end <= persisted'
      BY <1>a, <1>d, <2>1 DEF TaskSound
    <2> QED BY <1>a, <1>d, <2>1, <2>2 DEF TaskSound, SingleReplica
  <1>7. ControlReads'
    BY <1>a, <1>d DEF ControlReads
  <1>8. AnsweredSound'
    <2>1. \A o \in answered : o \in Nat /\ (o < persisted => o < persisted')
      BY <1>a, <1>d, <1>e, Numbers
    <2>2. persisted' <= requested' /\ persisted' <= ckpt'.hw
      BY <1>d, <1>e, <1>f
    <2> QED BY <1>a, <1>d, <1>g, <2>1, <2>2 DEF AnsweredSound
  <1>9. CrashSound'
    BY <1>a DEF TaskWrite, SafeFloor, history, CrashSound
  <1> QED BY <1>1, <1>2, <1>3, <1>4, <1>5, <1>6, <1>7, <1>8, <1>9 DEF CheckpointInv

\* A task whose append failed ends.
LEMMA TaskEndsKeeps ==
    ASSUME CheckpointInv, NEW p \in Producers, TaskEnds(p)
    PROVE  CheckpointInv'
  <1>a. CheckpointTypeOK /\ LogSound /\ FileSound /\ Complete /\ ControlReads /\ AnsweredSound /\ CrashSound
        /\ \A q \in Producers : ProducerSound(q) /\ TaskSound(q)
    BY DEF CheckpointInv
  <1>1. CheckpointTypeOK'
    BY <1>a, CheckpointAssumption DEF TaskEnds, NoTask, disk, mem, locks, history, CheckpointTypeOK, Offsets
  <1>2. LogSound'
    BY <1>a DEF TaskEnds, NoTask, disk, mem, locks, history, LogSound, SingleReplica
  <1>3. FileSound'
    BY <1>a DEF TaskEnds, NoTask, disk, mem, locks, history, FileSound, SingleReplica
  <1>4. Complete'
    BY <1>a DEF TaskEnds, NoTask, disk, mem, locks, history, Complete, SingleReplica
  <1>5. \A q \in Producers : ProducerSound(q)'
    BY <1>a DEF TaskEnds, NoTask, disk, mem, locks, history, ProducerSound, Committed, Kept, SingleReplica
  <1>6. \A q \in Producers : TaskSound(q)'
    BY <1>a DEF TaskEnds, NoTask, disk, mem, locks, history, TaskSound, SingleReplica
  <1>7. ControlReads'
    BY <1>a DEF TaskEnds, NoTask, disk, mem, locks, history, ControlReads
  <1>8. AnsweredSound'
    BY <1>a DEF TaskEnds, NoTask, disk, mem, locks, history, AnsweredSound, Kept, SingleReplica
  <1>9. CrashSound'
    BY <1>a DEF TaskEnds, NoTask, disk, mem, locks, history, CrashSound
  <1> QED BY <1>1, <1>2, <1>3, <1>4, <1>5, <1>6, <1>7, <1>8, <1>9 DEF CheckpointInv

\* produce() has awaited its checkpoint task.
LEMMA OverlapDoneKeeps ==
    ASSUME CheckpointInv, NEW p \in Producers, OverlapDone(p)
    PROVE  CheckpointInv'
  <1>a. CheckpointTypeOK /\ LogSound /\ FileSound /\ Complete /\ ControlReads /\ AnsweredSound /\ CrashSound
        /\ \A q \in Producers : ProducerSound(q) /\ TaskSound(q)
    BY DEF CheckpointInv
  <1>1. CheckpointTypeOK'
    BY <1>a, Numbers, CheckpointAssumption DEF OverlapDone, NoTask, disk, mem, locks, history, CheckpointTypeOK,
       Offsets, Assigned, CheckpointFile, ProduceCall, Scenario, Nobody
  <1>2. LogSound'
    BY <1>a DEF OverlapDone, NoTask, disk, mem, locks, history, LogSound, SingleReplica
  <1>3. FileSound'
    BY <1>a DEF OverlapDone, NoTask, disk, mem, locks, history, FileSound, SingleReplica
  <1>4. Complete'
    BY <1>a DEF OverlapDone, NoTask, disk, mem, locks, history, Complete, SingleReplica
  <1>5. \A q \in Producers : ProducerSound(q)'
    <2> SUFFICES ASSUME NEW q \in Producers PROVE ProducerSound(q)'
      OBVIOUS
    <2>1. \A o \in Nat : Kept(o)' <=> Kept(o)
      BY DEF Kept, OverlapDone, disk, mem, history
    <2>2. SingleReplica /\ prod[p].pc = "checkpoint" /\ task[p].pc = "done" /\ prod[p].target <= persisted
      BY <1>a DEF OverlapDone, ProducerSound, TaskSound, SingleReplica
    <2>3. CASE q = p
      <3>2. /\ prod'[p].pc = "retention" /\ prod'[p].base = prod[p].base /\ prod'[p].end = prod[p].end
            /\ prod'[p].target = prod[p].target
        BY <1>a, CallFields DEF OverlapDone
      <3>3. Committed(p) => \A o \in prod[p].base .. prod[p].end - 1 : Kept(o)'
        BY <1>a, <2>1, <2>2, Numbers DEF ProducerSound
      <3> QED BY <1>a, <2>2, <2>3, <3>2, <3>3 DEF ProducerSound, Committed, OverlapDone, mem
    <2>4. CASE q # p
      <3>1. prod'[q] = prod[q] /\ task'[q] = task[q]
        BY <1>a, <2>4 DEF OverlapDone, CheckpointTypeOK
      <3>2. UNCHANGED <<records, sealed, watermark, nextOffset, logStart, persisted, reclaimed, replication, checkpointLock, scenario>>
        BY DEF OverlapDone, disk, mem, locks, history
      <3> QED BY <1>a, <3>1, <3>2 DEF ProducerSound, Committed, Kept, SingleReplica
    <2> QED BY <2>3, <2>4
  <1>6. \A q \in Producers : TaskSound(q)'
    BY <1>a DEF OverlapDone, NoTask, disk, mem, locks, history, TaskSound, SingleReplica
  <1>7. ControlReads'
    BY <1>a DEF OverlapDone, NoTask, disk, mem, locks, history, ControlReads
  <1>8. AnsweredSound'
    BY <1>a DEF OverlapDone, NoTask, disk, mem, locks, history, AnsweredSound, Kept, SingleReplica
  <1>9. CrashSound'
    BY <1>a DEF OverlapDone, NoTask, disk, mem, locks, history, CrashSound
  <1> QED BY <1>1, <1>2, <1>3, <1>4, <1>5, <1>6, <1>7, <1>8, <1>9 DEF CheckpointInv

\* checkpoint_durable() finds the batch covered.
LEMMA CheckpointSkipKeeps ==
    ASSUME CheckpointInv, NEW p \in Producers, CheckpointSkip(p)
    PROVE  CheckpointInv'
  <1>a. CheckpointTypeOK /\ LogSound /\ FileSound /\ Complete /\ ControlReads /\ AnsweredSound /\ CrashSound
        /\ \A q \in Producers : ProducerSound(q) /\ TaskSound(q)
    BY DEF CheckpointInv
  <1>1. CheckpointTypeOK'
    BY <1>a DEF CheckpointSkip, CheckpointCovered, disk, mem, locks, history, CheckpointTypeOK, ProduceCall
  <1>2. LogSound'
    BY <1>a DEF CheckpointSkip, CheckpointCovered, disk, mem, locks, history, LogSound, SingleReplica
  <1>3. FileSound'
    BY <1>a DEF CheckpointSkip, CheckpointCovered, disk, mem, locks, history, FileSound, SingleReplica
  <1>4. Complete'
    BY <1>a DEF CheckpointSkip, CheckpointCovered, disk, mem, locks, history, Complete, SingleReplica
  <1>5. \A q \in Producers : ProducerSound(q)'
    BY <1>a DEF CheckpointSkip, CheckpointCovered, disk, mem, locks, history, ProducerSound, Committed, Kept, SingleReplica
  <1>6. \A q \in Producers : TaskSound(q)'
    BY <1>a DEF CheckpointSkip, CheckpointCovered, disk, mem, locks, history, TaskSound, SingleReplica
  <1>7. ControlReads'
    BY <1>a DEF CheckpointSkip, CheckpointCovered, disk, mem, locks, history, ControlReads
  <1>8. AnsweredSound'
    BY <1>a DEF CheckpointSkip, CheckpointCovered, disk, mem, locks, history, AnsweredSound, Kept, SingleReplica
  <1>9. CrashSound'
    BY <1>a DEF CheckpointSkip, CheckpointCovered, disk, mem, locks, history, CrashSound
  <1> QED BY <1>1, <1>2, <1>3, <1>4, <1>5, <1>6, <1>7, <1>8, <1>9 DEF CheckpointInv

\* checkpoint_durable() takes the lock and reads the progress.
LEMMA CheckpointReadKeeps ==
    ASSUME CheckpointInv, NEW p \in Producers, CheckpointRead(p)
    PROVE  CheckpointInv'
  <1>a. CheckpointTypeOK /\ LogSound /\ FileSound /\ Complete /\ ControlReads /\ AnsweredSound /\ CrashSound
        /\ \A q \in Producers : ProducerSound(q) /\ TaskSound(q)
    BY DEF CheckpointInv
  <1>1. CheckpointTypeOK'
    <2>1. prod' \in [Producers -> ProduceCall]
      <3>1. prod' = [prod EXCEPT ![p] = [@ EXCEPT !.pc = "write", !.hw = watermark, !.start = logStart]]
        BY DEF CheckpointRead
      <3>2. watermark \in Offsets /\ logStart \in Offsets /\ "write" \in {"write", "retain"}
        BY <1>a DEF CheckpointTypeOK
      <3> QED BY <1>a, <3>1, <3>2, CallMovesOn
    <2> QED BY <1>a, <2>1 DEF CheckpointTypeOK, CheckpointRead, disk, mem, history
  <1>2. LogSound'
    BY <1>a DEF CheckpointRead, CheckpointCovered, disk, mem, history, LogSound, SingleReplica
  <1>3. FileSound'
    BY <1>a DEF CheckpointRead, CheckpointCovered, disk, mem, history, FileSound, SingleReplica
  <1>4. Complete'
    BY <1>a DEF CheckpointRead, CheckpointCovered, disk, mem, history, Complete, SingleReplica
  <1>5. \A q \in Producers : ProducerSound(q)'
    BY <1>a, Numbers DEF CheckpointRead, CheckpointCovered, disk, mem, history, ProducerSound, Committed, Kept, SingleReplica,
       CheckpointTypeOK, ProduceCall, LogSound
  <1>6. \A q \in Producers : TaskSound(q)'
    BY <1>a DEF CheckpointRead, CheckpointCovered, disk, mem, history, TaskSound, SingleReplica
  <1>7. ControlReads'
    BY <1>a DEF CheckpointRead, CheckpointCovered, disk, mem, history, ControlReads
  <1>8. AnsweredSound'
    BY <1>a DEF CheckpointRead, CheckpointCovered, disk, mem, history, AnsweredSound, Kept, SingleReplica
  <1>9. CrashSound'
    BY <1>a DEF CheckpointRead, CheckpointCovered, disk, mem, history, CrashSound
  <1> QED BY <1>1, <1>2, <1>3, <1>4, <1>5, <1>6, <1>7, <1>8, <1>9 DEF CheckpointInv

\* checkpoint_durable() writes what it read; nobody else can have raised
\* checkpoint_persisted in between.
LEMMA CheckpointWriteKeeps ==
    ASSUME CheckpointInv, NEW p \in Producers, CheckpointWrite(p)
    PROVE  CheckpointInv'
  <1>a. CheckpointTypeOK /\ LogSound /\ FileSound /\ Complete /\ ControlReads /\ AnsweredSound /\ CrashSound
        /\ \A q \in Producers : ProducerSound(q) /\ TaskSound(q)
    BY DEF CheckpointInv
  <1>b. /\ up = "open" /\ prod[p].pc = "write" /\ ~SingleReplica /\ checkpointLock = p /\ prod[p].start <= prod[p].hw
        /\ prod[p].hw <= watermark /\ prod[p].target <= prod[p].hw /\ persisted < prod[p].target
    BY <1>a DEF CheckpointWrite, ProducerSound
  <1>c. /\ ckpt' = [hw |-> prod[p].hw, start |-> prod[p].start, floor |-> prod[p].hw] /\ persisted' = prod[p].hw
        /\ checkpointLock' = Nobody /\ prod' = [prod EXCEPT ![p].pc = "retention"]
        /\ UNCHANGED <<records, bases, sealed, up, watermark, logStart, nextOffset, requested, replication, task, control,
                       answered, reclaimed, overwritten, scenario>>
    BY DEF CheckpointWrite, Persisted, history
  <1>d. ckpt'.hw = prod[p].hw /\ ckpt'.start = prod[p].start /\ ckpt'.floor = prod[p].hw
    BY <1>c
  <1>e. persisted \in Nat /\ persisted' \in Nat /\ persisted <= persisted'
    BY <1>a, <1>b, <1>c, Numbers
  <1>f. \A q \in Producers : task[q].pc = "none"
    BY <1>a, <1>b DEF TaskSound
  <1>g. \A o \in Nat : Kept(o)' <=> Kept(o)
    BY <1>c DEF Kept
  <1>1. CheckpointTypeOK'
    BY <1>a, Numbers, CheckpointAssumption DEF CheckpointWrite, Persisted, history, CheckpointTypeOK, Offsets,
       Assigned, CheckpointFile, ProduceCall, Scenario, Nobody
  <1>2. LogSound'
    BY <1>a DEF CheckpointWrite, Persisted, history, LogSound, SingleReplica
  <1>3. FileSound'
    BY <1>a, <1>b, <1>c, <1>d, Numbers DEF FileSound, SingleReplica
  <1>4. Complete'
    BY <1>a DEF CheckpointWrite, Persisted, history, Complete, SingleReplica
  <1>5. \A q \in Producers : ProducerSound(q)'
    <2> SUFFICES ASSUME NEW q \in Producers PROVE ProducerSound(q)'
      OBVIOUS
    <2>1. prod[q].base \in Nat /\ prod[q].end \in Nat /\ (prod[q].target <= persisted => prod[q].target <= persisted')
      BY <1>a, <1>e, Numbers
    <2>2. prod[q].pc \notin {"idle", "append"} /\ Committed(q) => \A o \in prod[q].base .. prod[q].end - 1 : Kept(o)'
      BY <1>a, <1>g, <2>1 DEF ProducerSound
    <2>3. CASE q = p
      <3>1. /\ prod'[p].pc = "retention" /\ prod'[p].base = prod[p].base /\ prod'[p].end = prod[p].end
            /\ prod'[p].target = prod[p].target
        BY <1>a, <1>c, CallFields
      <3>2. prod[p].target <= watermark
        BY <1>a, <1>b DEF ProducerSound
      <3> QED BY <1>b, <1>c, <2>2, <2>3, <3>1, <3>2 DEF ProducerSound, Committed
    <2>4. CASE q # p
      <3>1. prod'[q] = prod[q] /\ prod[q].pc # "write"
        BY <1>a, <1>b, <1>c, <2>4 DEF CheckpointTypeOK, ProducerSound
      <3> QED BY <1>a, <1>b, <1>c, <2>1, <2>2, <3>1 DEF ProducerSound, Committed, SingleReplica
    <2> QED BY <2>3, <2>4
  <1>6. \A q \in Producers : TaskSound(q)'
    BY <1>c, <1>f DEF TaskSound
  <1>7. ControlReads'
    BY <1>a DEF CheckpointWrite, Persisted, history, ControlReads
  <1>8. AnsweredSound'
    <2>1. \A o \in answered : o \in Nat /\ (o < persisted => o < persisted')
      BY <1>a, <1>e, Numbers
    <2>2. ~SingleReplica' /\ persisted' <= ckpt'.hw
      BY <1>b, <1>c, <1>d, <1>e DEF SingleReplica
    <2> QED BY <1>a, <1>c, <1>g, <2>1, <2>2 DEF AnsweredSound
  <1>9. CrashSound'
    BY <1>a DEF CheckpointWrite, Persisted, history, CrashSound
  <1> QED BY <1>1, <1>2, <1>3, <1>4, <1>5, <1>6, <1>7, <1>8, <1>9 DEF CheckpointInv

\* produce() answers.
LEMMA AcknowledgeKeeps ==
    ASSUME CheckpointInv, NEW p \in Producers, Acknowledge(p)
    PROVE  CheckpointInv'
  <1>a. CheckpointTypeOK /\ LogSound /\ FileSound /\ Complete /\ ControlReads /\ AnsweredSound /\ CrashSound
        /\ \A q \in Producers : ProducerSound(q) /\ TaskSound(q)
    BY DEF CheckpointInv
  <1>b. /\ prod[p].pc \in {"retention", "answer"} /\ prod[p].target <= persisted
        /\ Committed(p) => \A o \in prod[p].base .. prod[p].end - 1 : Kept(o)
    BY <1>a DEF Acknowledge, ProducerSound
  <1>c. answered' = (IF Committed(p) THEN answered \cup prod[p].base .. prod[p].end - 1 ELSE answered)
        /\ prod' = [prod EXCEPT ![p] = NoProduce]
        /\ UNCHANGED <<records, bases, sealed, ckpt, up, watermark, logStart, nextOffset, persisted, requested, replication,
                       checkpointLock, task, control, reclaimed, overwritten, scenario>>
    BY DEF Acknowledge, disk, mem, locks
  <1>d. prod[p].base \in Nat /\ prod[p].end \in Nat /\ prod[p].target \in Nat /\ prod[p].end <= MaxOffset /\ MaxOffset \in Nat
    BY <1>a, Numbers DEF CheckpointTypeOK, ProduceCall, Offsets
  <1>1. CheckpointTypeOK'
    <2>1. answered' \subseteq Assigned
      <3>1. \A o \in prod[p].base .. prod[p].end - 1 : o \in Nat /\ o < MaxOffset
        BY <1>d
      <3> QED BY <1>a, <1>c, <3>1 DEF CheckpointTypeOK, Assigned
    <2>2. prod' \in [Producers -> ProduceCall]
      BY <1>a, <1>c, CheckpointAssumption DEF CheckpointTypeOK, ProduceCall, NoProduce, Offsets
    <2> QED BY <1>a, <1>c, <2>1, <2>2 DEF CheckpointTypeOK
  <1>2. LogSound'
    BY <1>a DEF Acknowledge, NoProduce, disk, mem, locks, LogSound, SingleReplica
  <1>3. FileSound'
    BY <1>a DEF Acknowledge, NoProduce, disk, mem, locks, FileSound, SingleReplica
  <1>4. Complete'
    BY <1>a DEF Acknowledge, NoProduce, disk, mem, locks, Complete, SingleReplica
  <1>5. \A q \in Producers : ProducerSound(q)'
    BY <1>a DEF Acknowledge, NoProduce, disk, mem, locks, ProducerSound, Committed, Kept, SingleReplica
  <1>6. \A q \in Producers : TaskSound(q)'
    BY <1>a DEF Acknowledge, NoProduce, disk, mem, locks, TaskSound, SingleReplica
  <1>7. ControlReads'
    BY <1>a DEF Acknowledge, NoProduce, disk, mem, locks, ControlReads
  <1>8. AnsweredSound'
    <2>1. \A o : Kept(o)' <=> Kept(o)
      BY <1>c DEF Kept
    <2>2. Committed(p) => \A o \in prod[p].base .. prod[p].end - 1 : o < persisted
      BY <1>a, <1>b, <1>d, Numbers DEF Committed
    <2> QED BY <1>a, <1>b, <1>c, <2>1, <2>2 DEF AnsweredSound, SingleReplica
  <1>9. CrashSound'
    BY <1>a DEF Acknowledge, NoProduce, disk, mem, locks, CrashSound
  <1> QED BY <1>1, <1>2, <1>3, <1>4, <1>5, <1>6, <1>7, <1>8, <1>9 DEF CheckpointInv

\* Retention moves the log start under the replication lock.
LEMMA RetentionAdvanceKeeps ==
    ASSUME CheckpointInv, NEW p \in Producers, RetentionAdvance(p)
    PROVE  CheckpointInv'
  <1>a. CheckpointTypeOK /\ LogSound /\ FileSound /\ Complete /\ ControlReads /\ AnsweredSound /\ CrashSound
        /\ \A q \in Producers : ProducerSound(q) /\ TaskSound(q)
    BY DEF CheckpointInv
  <1>b. PICK s \in sealed : logStart' = s /\ prod' = [prod EXCEPT ![p] = [@ EXCEPT !.pc = "retain", !.hw = watermark, !.start = s]]
    BY DEF RetentionAdvance
  <1>c. /\ up = "open" /\ prod[p].pc = "retention" /\ replication = Nobody /\ replication' = p
        /\ UNCHANGED <<records, bases, sealed, ckpt, up, watermark, nextOffset, persisted, requested, checkpointLock, task,
                       control, answered, reclaimed, overwritten>>
    BY DEF RetentionAdvance, disk, others
  <1>d. scenario' \in Scenario /\ scenario'.single = scenario.single
    <2>1. scenario \in Scenario /\ Use("retentions")
      BY <1>a DEF CheckpointTypeOK, RetentionAdvance
    <2> QED BY <2>1, UseKeeps
  <1>e. \A o : Kept(o)' <=> Kept(o)
    BY <1>c DEF Kept
  <1>1. CheckpointTypeOK'
    <2>1. prod' \in [Producers -> ProduceCall]
      <3>1. watermark \in Offsets /\ s \in Offsets /\ "retain" \in {"write", "retain"}
        BY <1>a DEF CheckpointTypeOK
      <3> QED BY <1>a, <1>b, <3>1, CallMovesOn
    <2>2. s \in Offsets
      BY <1>a DEF CheckpointTypeOK
    <2> QED BY <1>a, <1>b, <1>c, <1>d, <2>1, <2>2 DEF CheckpointTypeOK
  <1>2. LogSound'
    BY <1>a, <1>b, <1>c, <1>d DEF LogSound, SingleReplica
  <1>3. FileSound'
    BY <1>a, <1>c, <1>d DEF FileSound, SingleReplica
  <1>4. Complete'
    BY <1>a, <1>c, <1>d DEF Complete, SingleReplica
  <1>5. \A q \in Producers : ProducerSound(q)'
    <2> SUFFICES ASSUME NEW q \in Producers PROVE ProducerSound(q)'
      OBVIOUS
    <2>1. CASE q = p
      <3>1. prod'[p] = [prod[p] EXCEPT !.pc = "retain", !.hw = watermark, !.start = s]
        BY <1>a, <1>b DEF CheckpointTypeOK
      <3>2. /\ prod'[p].pc = "retain" /\ prod'[p].base = prod[p].base /\ prod'[p].end = prod[p].end
            /\ prod'[p].target = prod[p].target /\ prod'[p].hw = watermark /\ prod'[p].start = s
        BY <1>a, <3>1 DEF CheckpointTypeOK, ProduceCall
      <3> QED BY <1>a, <1>b, <1>c, <1>e, <2>1, <3>2 DEF ProducerSound, Committed
    <2>2. CASE q # p
      <3>1. prod'[q] = prod[q] /\ prod[q].pc \notin {"append", "retain", "reclaim"}
        BY <1>a, <1>b, <1>c, <2>2, Numbers DEF CheckpointTypeOK, ProducerSound
      <3> QED BY <1>a, <1>c, <1>d, <1>e, <3>1 DEF ProducerSound, Committed, SingleReplica
    <2> QED BY <2>1, <2>2
  <1>6. \A q \in Producers : TaskSound(q)'
    BY <1>a, <1>c, <1>d DEF TaskSound, SingleReplica
  <1>7. ControlReads'
    BY <1>a DEF RetentionAdvance, disk, others, ControlReads
  <1>8. AnsweredSound'
    BY <1>a, <1>c, <1>d, <1>e DEF AnsweredSound, SingleReplica
  <1>9. CrashSound'
    BY <1>a DEF RetentionAdvance, disk, others, CrashSound
  <1> QED BY <1>1, <1>2, <1>3, <1>4, <1>5, <1>6, <1>7, <1>8, <1>9 DEF CheckpointInv

\* Retention rewrites the checkpoint file.
LEMMA RetentionPersistKeeps ==
    ASSUME CheckpointInv, NEW p \in Producers, RetentionPersist(p)
    PROVE  CheckpointInv'
  <1>a. CheckpointTypeOK /\ LogSound /\ FileSound /\ Complete /\ ControlReads /\ AnsweredSound /\ CrashSound
        /\ \A q \in Producers : ProducerSound(q) /\ TaskSound(q)
    BY DEF CheckpointInv
  <1>b. /\ up = "open" /\ prod[p].pc = "retain" /\ prod[p].hw = watermark /\ prod[p].start = logStart
    BY <1>a DEF RetentionPersist, ProducerSound
  <1>c. /\ ckpt' = [hw |-> watermark, start |-> logStart, floor |-> watermark]
        /\ overwritten' = (overwritten \/ watermark < persisted) /\ prod' = [prod EXCEPT ![p].pc = "reclaim"]
        /\ UNCHANGED <<records, bases, sealed, up, watermark, logStart, nextOffset, persisted, requested, replication,
                       checkpointLock, task, control, answered, reclaimed, scenario>>
    BY <1>b DEF RetentionPersist, Rewrite, Persisted, mem, locks
  <1>d. ckpt'.hw = watermark /\ ckpt'.start = logStart /\ ckpt'.floor = watermark
    BY <1>c
  <1>e. \A o : Kept(o)' <=> Kept(o)
    BY <1>c DEF Kept
  <1>1. CheckpointTypeOK'
    <2>1. ckpt' \in CheckpointFile
      BY <1>a, <1>c DEF CheckpointTypeOK, CheckpointFile
    <2>2. prod' \in [Producers -> ProduceCall]
      BY <1>a, <1>c DEF CheckpointTypeOK, ProduceCall
    <2>3. overwritten' \in BOOLEAN
      BY <1>c
    <2> QED BY <1>a, <1>c, <2>1, <2>2, <2>3 DEF CheckpointTypeOK
  <1>2. LogSound'
    BY <1>a DEF RetentionPersist, mem, locks, LogSound, SingleReplica
  <1>3. FileSound'
    BY <1>a, <1>c, <1>d, Numbers DEF FileSound, SingleReplica, LogSound
  <1>4. Complete'
    BY <1>a DEF RetentionPersist, mem, locks, Complete, SingleReplica
  <1>5. \A q \in Producers : ProducerSound(q)'
    <2> SUFFICES ASSUME NEW q \in Producers PROVE ProducerSound(q)'
      OBVIOUS
    <2>1. CASE q = p
      <3>2. /\ prod'[p].pc = "reclaim" /\ prod'[p].base = prod[p].base /\ prod'[p].end = prod[p].end
            /\ prod'[p].target = prod[p].target /\ prod'[p].hw = prod[p].hw /\ prod'[p].start = prod[p].start
        BY <1>a, <1>c, CallFields
      <3> QED BY <1>a, <1>b, <1>c, <1>e, <2>1, <3>2 DEF ProducerSound, Committed
    <2>2. CASE q # p
      <3>1. prod'[q] = prod[q]
        BY <1>a, <1>c, <2>2 DEF CheckpointTypeOK
      <3> QED BY <1>a, <1>c, <1>e, <3>1 DEF ProducerSound, Committed, SingleReplica
    <2> QED BY <2>1, <2>2
  <1>6. \A q \in Producers : TaskSound(q)'
    BY <1>a DEF RetentionPersist, mem, locks, TaskSound, SingleReplica
  <1>7. ControlReads'
    BY <1>a DEF RetentionPersist, mem, locks, ControlReads
  <1>8. AnsweredSound'
    <2>1. ~overwritten' => ~overwritten /\ persisted <= watermark
      <3>1. persisted <= watermark \/ watermark < persisted
        BY <1>a, Numbers
      <3> QED BY <1>c, <3>1
    <2> QED BY <1>a, <1>c, <1>d, <1>e, <2>1 DEF AnsweredSound, SingleReplica
  <1>9. CrashSound'
    BY <1>a DEF RetentionPersist, mem, locks, CrashSound
  <1> QED BY <1>1, <1>2, <1>3, <1>4, <1>5, <1>6, <1>7, <1>8, <1>9 DEF CheckpointInv

\* Retention reclaims the sealed segments below the log start.
LEMMA RetentionReclaimKeeps ==
    ASSUME CheckpointInv, NEW p \in Producers, RetentionReclaim(p)
    PROVE  CheckpointInv'
  <1>a. CheckpointTypeOK /\ LogSound /\ FileSound /\ Complete /\ ControlReads /\ AnsweredSound /\ CrashSound
        /\ \A q \in Producers : ProducerSound(q) /\ TaskSound(q)
    BY DEF CheckpointInv
  <1>b. /\ up = "open" /\ prod[p].pc = "reclaim" /\ replication = p /\ replication' = Nobody /\ logStart \in sealed
    BY <1>a DEF RetentionReclaim, ProducerSound
  <1>c. /\ records' = {o \in records : o >= logStart} /\ bases' = bases \cap {o \in records : o >= logStart}
        /\ sealed' = {e \in sealed : e > logStart} /\ reclaimed' = logStart /\ prod' = [prod EXCEPT ![p].pc = "answer"]
        /\ UNCHANGED <<ckpt, up, watermark, logStart, nextOffset, persisted, requested, checkpointLock, task, control,
                       answered, overwritten, scenario>>
    BY DEF RetentionReclaim, Retained, mem
  <1>d. logStart \in Nat /\ nextOffset \in Nat
    BY <1>a, Numbers
  <1>e. ASSUME NEW o \in Nat, Kept(o) PROVE Kept(o)'
    <2>1. CASE o \in records /\ o >= logStart
      BY <1>c, <1>e, <2>1 DEF Kept
    <2>2. CASE o \in records /\ ~(o >= logStart)
      <3>1. o < logStart /\ o < watermark
        BY <1>d, <1>e, <2>2 DEF Kept
      <3>2. (\A r \in records' : o < r) /\ (\A e \in sealed' : o < e)
        BY <1>a, <1>c, <1>d, <3>1, Numbers
      <3> QED BY <1>c, <3>1, <3>2 DEF Kept
    <2>3. CASE o \notin records
      BY <1>b, <1>c, <1>e, <2>3 DEF Kept
    <2> QED BY <2>1, <2>2, <2>3
  <1>1. CheckpointTypeOK'
    BY <1>a DEF RetentionReclaim, Retained, mem, CheckpointTypeOK, ProduceCall
  <1>2. LogSound'
    <2>1. ASSUME NEW r \in records' PROVE r < nextOffset /\ r .. nextOffset - 1 \subseteq records'
      <3>1. r \in records /\ r >= logStart /\ r \in Nat /\ r < nextOffset /\ r .. nextOffset - 1 \subseteq records
        BY <1>a, <1>c, Numbers DEF LogSound
      <3>2. \A o \in Nat : r <= o /\ o < nextOffset => o \in records /\ o >= logStart
        BY <1>d, <3>1, IntervalMembers
      <3>3. \A o \in Nat : r <= o /\ o < nextOffset => o \in records'
        BY <1>c, <3>2
      <3> QED BY <1>d, <3>1, <3>3, IntervalInside
    <2> QED BY <1>a, <1>c, <2>1 DEF LogSound, SingleReplica
  <1>3. FileSound'
    BY <1>a DEF RetentionReclaim, Retained, mem, FileSound, SingleReplica
  <1>4. Complete'
    <2> SUFFICES ASSUME ~SingleReplica, NEW e \in sealed' \cup {reclaimed'} PROVE e .. nextOffset - 1 \subseteq records'
      BY <1>c DEF Complete, SingleReplica
    <2>1. e \in sealed /\ e \in Nat /\ e >= logStart
      BY <1>a, <1>b, <1>c, Numbers
    <2>2. e .. nextOffset - 1 \subseteq records
      BY <1>a, <2>1 DEF Complete
    <2>3. \A o \in Nat : e <= o /\ o < nextOffset => o \in records /\ o >= logStart
      BY <1>d, <2>1, <2>2, IntervalMembers
    <2>4. \A o \in Nat : e <= o /\ o < nextOffset => o \in records'
      BY <1>c, <2>3
    <2> QED BY <1>d, <2>1, <2>4, IntervalInside
  <1>5. \A q \in Producers : ProducerSound(q)'
    <2> SUFFICES ASSUME NEW q \in Producers PROVE ProducerSound(q)'
      OBVIOUS
    <2>1. prod[q].base \in Nat /\ prod[q].end \in Nat
      BY <1>a, Numbers
    <2>2. prod[q].pc \notin {"idle", "append"} /\ Committed(q) => \A o \in prod[q].base .. prod[q].end - 1 : Kept(o)'
      BY <1>a, <1>e, <2>1 DEF ProducerSound
    <2>3. CASE q = p
      <3>2. /\ prod'[p].pc = "answer" /\ prod'[p].base = prod[p].base /\ prod'[p].end = prod[p].end
            /\ prod'[p].target = prod[p].target
        BY <1>a, <1>c, CallFields
      <3> QED BY <1>a, <1>b, <1>c, <2>2, <2>3, <3>2 DEF ProducerSound, Committed
    <2>4. CASE q # p
      <3>1. prod'[q] = prod[q] /\ prod[q].pc \notin {"append", "retain", "reclaim"}
        BY <1>a, <1>b, <1>c, <2>4 DEF CheckpointTypeOK, ProducerSound
      <3> QED BY <1>a, <1>c, <2>2, <3>1 DEF ProducerSound, Committed, SingleReplica
    <2> QED BY <2>3, <2>4
  <1>6. \A q \in Producers : TaskSound(q)'
    BY <1>a DEF RetentionReclaim, Retained, mem, TaskSound, SingleReplica
  <1>7. ControlReads'
    BY <1>a DEF RetentionReclaim, Retained, mem, ControlReads
  <1>8. AnsweredSound'
    BY <1>a, <1>c, <1>e, Numbers DEF AnsweredSound, SingleReplica
  <1>9. CrashSound'
    BY <1>a DEF RetentionReclaim, Retained, mem, CrashSound
  <1> QED BY <1>1, <1>2, <1>3, <1>4, <1>5, <1>6, <1>7, <1>8, <1>9 DEF CheckpointInv

\* An election cuts the log to the watermark, or leaves it.
LEMMA ElectKeeps ==
    ASSUME CheckpointInv, ElectLeader
    PROVE  CheckpointInv'
  <1>a. CheckpointTypeOK /\ LogSound /\ FileSound /\ Complete /\ ControlReads /\ AnsweredSound /\ CrashSound
        /\ \A q \in Producers : ProducerSound(q) /\ TaskSound(q)
    BY DEF CheckpointInv
  <1>b. PICK end \in {watermark, nextOffset} :
            records' = {o \in records : o < end} /\ bases' = {o \in bases : o < end} /\ nextOffset' = end
    BY DEF ElectLeader
  <1>c. scenario' \in Scenario /\ scenario'.single = scenario.single
    <2>1. scenario \in Scenario /\ Use("controls")
      BY <1>a DEF CheckpointTypeOK, ElectLeader
    <2> QED BY <2>1, UseKeeps
  <1>d. /\ up = "open" /\ replication = Nobody /\ control' = [NoControl EXCEPT !.pc = "elected"]
        /\ UNCHANGED <<sealed, ckpt, up, watermark, logStart, persisted, requested, replication, checkpointLock, prod, task,
                       answered, reclaimed, overwritten>>
    BY DEF ElectLeader, locks, others
  <1>e. /\ end \in Nat /\ nextOffset \in Nat /\ watermark \in Nat /\ watermark <= end /\ end <= nextOffset /\ end \in Offsets
        /\ records \subseteq Nat /\ (SingleReplica => end = watermark)
    BY <1>a, Numbers DEF LogSound, CheckpointTypeOK
  <1>f. \A o \in Nat : Kept(o) => Kept(o)'
    BY <1>b, <1>d, <1>e DEF Kept
  <1>1. CheckpointTypeOK'
    <2>1. control' \in [pc : {"idle", "elected", "write"}, hw : Offsets, start : Offsets]
      BY <1>d, CheckpointAssumption DEF NoControl, Offsets
    <2> QED BY <1>a, <1>b, <1>c, <1>d, <1>e, <2>1 DEF CheckpointTypeOK
  <1>2. LogSound'
    <2>1. ASSUME NEW r \in records' PROVE r < end /\ r .. end - 1 \subseteq records'
      <3>1. r \in records /\ r \in Nat /\ r < end /\ r .. nextOffset - 1 \subseteq records
        BY <1>a, <1>b, <1>e DEF LogSound
      <3>2. \A o \in Nat : r <= o /\ o < end => o \in records
        BY <1>e, <3>1, IntervalMembers
      <3>3. \A o \in Nat : r <= o /\ o < end => o \in records'
        BY <1>b, <3>2
      <3> QED BY <1>e, <3>1, <3>3, IntervalInside
    <2> QED BY <1>a, <1>b, <1>c, <1>d, <1>e, <2>1 DEF LogSound, SingleReplica
  <1>3. FileSound'
    BY <1>a, <1>c, <1>d DEF FileSound, SingleReplica
  <1>4. Complete'
    <2> SUFFICES ASSUME ~SingleReplica, NEW e \in sealed \cup {reclaimed} PROVE e .. end - 1 \subseteq records'
      BY <1>b, <1>c, <1>d DEF Complete, SingleReplica
    <2>1. e \in Nat /\ e .. nextOffset - 1 \subseteq records
      BY <1>a, Numbers DEF Complete
    <2>2. \A o \in Nat : e <= o /\ o < end => o \in records
      BY <1>e, <2>1, IntervalMembers
    <2>3. \A o \in Nat : e <= o /\ o < end => o \in records'
      BY <1>b, <2>2
    <2> QED BY <1>e, <2>1, <2>3, IntervalInside
  <1>5. \A q \in Producers : ProducerSound(q)'
    <2> SUFFICES ASSUME NEW q \in Producers PROVE ProducerSound(q)'
      OBVIOUS
    <2>1. prod[q].pc \notin {"append", "retain", "reclaim"} /\ prod[q].base \in Nat /\ prod[q].end \in Nat
      BY <1>a, <1>d, Numbers DEF ProducerSound
    <2>2. prod[q].pc # "idle" /\ Committed(q) => \A o \in prod[q].base .. prod[q].end - 1 : Kept(o)'
      BY <1>a, <1>f, <2>1 DEF ProducerSound
    <2> QED BY <1>a, <1>c, <1>d, <2>1, <2>2 DEF ProducerSound, Committed, SingleReplica
  <1>6. \A q \in Producers : TaskSound(q)'
    BY <1>a, <1>c, <1>d DEF TaskSound, SingleReplica
  <1>7. ControlReads'
    BY <1>d DEF ControlReads, NoControl
  <1>8. AnsweredSound'
    BY <1>a, <1>c, <1>d, <1>f, Numbers DEF AnsweredSound, SingleReplica
  <1>9. CrashSound'
    BY <1>d DEF CrashSound
  <1> QED BY <1>1, <1>2, <1>3, <1>4, <1>5, <1>6, <1>7, <1>8, <1>9 DEF CheckpointInv

\* An election or reassignment reads the progress.
LEMMA ControlReadKeeps ==
    ASSUME CheckpointInv, ControlRead
    PROVE  CheckpointInv'
  <1>a. CheckpointTypeOK /\ LogSound /\ FileSound /\ Complete /\ ControlReads /\ AnsweredSound /\ CrashSound
        /\ \A q \in Producers : ProducerSound(q) /\ TaskSound(q)
    BY DEF CheckpointInv
  <1>b. scenario' = scenario
    BY DEF ControlRead, history
  <1>c. /\ up = "open" /\ control' = [pc |-> "write", hw |-> watermark, start |-> logStart]
        /\ UNCHANGED <<records, bases, sealed, ckpt, up, watermark, logStart, nextOffset, persisted, requested, replication,
                       checkpointLock, prod, task, answered, reclaimed, overwritten>>
    BY DEF ControlRead, disk, mem, locks, history
  <1>1. CheckpointTypeOK'
    BY <1>a, <1>b, <1>c DEF CheckpointTypeOK
  <1>2. LogSound'
    BY <1>a DEF ControlRead, disk, mem, locks, history, LogSound, SingleReplica
  <1>3. FileSound'
    BY <1>a, <1>b, <1>c DEF FileSound, SingleReplica
  <1>4. Complete'
    BY <1>a, <1>b, <1>c DEF Complete, SingleReplica
  <1>5. \A q \in Producers : ProducerSound(q)'
    BY <1>a, <1>b, <1>c DEF ProducerSound, Committed, Kept, SingleReplica
  <1>6. \A q \in Producers : TaskSound(q)'
    BY <1>a, <1>b, <1>c DEF TaskSound, SingleReplica
  <1>7. ControlReads'
    BY <1>a, Numbers DEF ControlRead, disk, mem, locks, history, ControlReads, LogSound
  <1>8. AnsweredSound'
    BY <1>a, <1>b, <1>c DEF AnsweredSound, Kept, SingleReplica
  <1>9. CrashSound'
    BY <1>a DEF ControlRead, disk, mem, locks, history, CrashSound
  <1> QED BY <1>1, <1>2, <1>3, <1>4, <1>5, <1>6, <1>7, <1>8, <1>9 DEF CheckpointInv

\* An election or reassignment writes what it read.
LEMMA ControlWriteKeeps ==
    ASSUME CheckpointInv, ControlWrite
    PROVE  CheckpointInv'
  <1>a. CheckpointTypeOK /\ LogSound /\ FileSound /\ Complete /\ ControlReads /\ AnsweredSound /\ CrashSound
        /\ \A q \in Producers : ProducerSound(q) /\ TaskSound(q)
    BY DEF CheckpointInv
  <1>b. /\ up = "open" /\ control.pc = "write" /\ control.start <= control.hw /\ control.hw <= watermark
    BY <1>a DEF ControlWrite, ControlReads
  <1>c. /\ ckpt' = [hw |-> control.hw, start |-> control.start, floor |-> control.hw]
        /\ overwritten' = (overwritten \/ control.hw < persisted) /\ control' = NoControl
        /\ UNCHANGED <<records, bases, sealed, up, watermark, logStart, nextOffset, persisted, requested, replication,
                       checkpointLock, prod, task, answered, reclaimed, scenario>>
    BY DEF ControlWrite, Rewrite, Persisted, mem, locks
  <1>d. ckpt'.hw = control.hw /\ ckpt'.start = control.start /\ ckpt'.floor = control.hw
    BY <1>c
  <1>e. \A o : Kept(o)' <=> Kept(o)
    BY <1>c DEF Kept
  <1>1. CheckpointTypeOK'
    BY <1>a, Numbers, CheckpointAssumption DEF ControlWrite, Rewrite, Persisted, NoControl, mem, locks,
       CheckpointTypeOK, Offsets, Assigned, CheckpointFile, ProduceCall, Scenario, Nobody
  <1>2. LogSound'
    BY <1>a DEF ControlWrite, Rewrite, Persisted, NoControl, mem, locks, LogSound, SingleReplica
  <1>3. FileSound'
    BY <1>a, <1>b, <1>c, <1>d, Numbers DEF FileSound, SingleReplica
  <1>4. Complete'
    BY <1>a DEF ControlWrite, Rewrite, Persisted, NoControl, mem, locks, Complete, SingleReplica
  <1>5. \A q \in Producers : ProducerSound(q)'
    BY <1>a DEF ControlWrite, Rewrite, Persisted, NoControl, mem, locks, ProducerSound, Committed, Kept, SingleReplica
  <1>6. \A q \in Producers : TaskSound(q)'
    BY <1>a DEF ControlWrite, Rewrite, Persisted, NoControl, mem, locks, TaskSound, SingleReplica
  <1>7. ControlReads'
    BY <1>a DEF ControlWrite, Rewrite, Persisted, NoControl, mem, locks, ControlReads
  <1>8. AnsweredSound'
    <2>1. ~overwritten' => ~overwritten /\ persisted <= control.hw
      <3>1. persisted <= control.hw \/ control.hw < persisted
        BY <1>a, Numbers
      <3> QED BY <1>c, <3>1
    <2> QED BY <1>a, <1>c, <1>d, <1>e, <2>1 DEF AnsweredSound, SingleReplica
  <1>9. CrashSound'
    BY <1>a DEF ControlWrite, Rewrite, Persisted, NoControl, mem, locks, CrashSound
  <1> QED BY <1>1, <1>2, <1>3, <1>4, <1>5, <1>6, <1>7, <1>8, <1>9 DEF CheckpointInv

\* The process stops.
LEMMA CrashKeeps ==
    ASSUME CheckpointInv, Crash
    PROVE  CheckpointInv'
  <1>a. CheckpointTypeOK /\ LogSound /\ FileSound /\ Complete /\ ControlReads /\ AnsweredSound /\ CrashSound
        /\ \A q \in Producers : ProducerSound(q) /\ TaskSound(q)
    BY DEF CheckpointInv
  <1>b. scenario' \in Scenario /\ scenario'.single = scenario.single
    <2>1. scenario \in Scenario /\ Use("crashes")
      BY <1>a DEF CheckpointTypeOK, Crash
    <2> QED BY <2>1, UseKeeps
  <1>c. /\ up' = "crashed" /\ replication' = Nobody /\ checkpointLock' = Nobody
        /\ prod' = [p \in Producers |-> NoProduce] /\ task' = [p \in Producers |-> NoTask] /\ control' = NoControl
        /\ UNCHANGED <<records, bases, sealed, ckpt, watermark, logStart, nextOffset, persisted, requested,
                       answered, reclaimed, overwritten>>
    BY DEF Crash, disk, mem, others
  <1>1. CheckpointTypeOK'
    <2>1. 0 \in Offsets
      BY CheckpointAssumption DEF Offsets
    <2>2. /\ prod' \in [Producers -> ProduceCall]
          /\ task' \in [Producers -> [pc : {"none", "spawned", "write", "done"}, base : Offsets, end : Offsets, start : Offsets]]
          /\ control' \in [pc : {"idle", "elected", "write"}, hw : Offsets, start : Offsets]
      BY <1>c, <2>1 DEF NoProduce, NoTask, NoControl, ProduceCall
    <2> QED BY <1>a, <1>b, <1>c, <2>2 DEF CheckpointTypeOK
  <1>2. LogSound'
    BY <1>a, <1>b, <1>c DEF LogSound, SingleReplica
  <1>3. FileSound'
    BY <1>a, <1>b, <1>c DEF FileSound, SingleReplica
  <1>4. Complete'
    BY <1>a, <1>b, <1>c DEF Complete, SingleReplica
  <1>5. \A q \in Producers : ProducerSound(q)'
    BY <1>a DEF Crash, NoProduce, NoTask, NoControl, disk, mem, others, ProducerSound
  <1>6. \A q \in Producers : TaskSound(q)'
    BY <1>a DEF Crash, NoProduce, NoTask, NoControl, disk, mem, others, TaskSound
  <1>7. ControlReads'
    BY <1>a DEF Crash, NoProduce, NoTask, NoControl, disk, mem, others, ControlReads
  <1>8. AnsweredSound'
    BY <1>a, <1>b, <1>c DEF AnsweredSound, Kept, SingleReplica
  <1>9. CrashSound'
    BY <1>a DEF Crash, NoProduce, NoTask, NoControl, disk, mem, others, CrashSound
  <1> QED BY <1>1, <1>2, <1>3, <1>4, <1>5, <1>6, <1>7, <1>8, <1>9 DEF CheckpointInv

\* open_partition(): either it refuses and changes nothing, or the log is cut to
\* a watermark that no acknowledged offset reaches.
LEMMA RecoverKeeps ==
    ASSUME CheckpointInv, Recover
    PROVE  CheckpointInv'
  <1>a. CheckpointTypeOK /\ LogSound /\ FileSound /\ Complete /\ ControlReads /\ AnsweredSound /\ CrashSound
        /\ \A q \in Producers : ProducerSound(q) /\ TaskSound(q)
    BY DEF CheckpointInv
  <1> DEFINE w == RecoveredWatermark
  <1>b. /\ up = "crashed"
        /\ UNCHANGED <<sealed, ckpt, replication, checkpointLock, prod, task, control, answered, reclaimed, overwritten, scenario>>
        /\ ~OpenSucceeds => up' = "refused" /\ UNCHANGED <<records, bases, watermark, logStart, nextOffset, persisted, requested>>
        /\ OpenSucceeds => /\ up' = "open" /\ watermark' = w /\ nextOffset' = w /\ logStart' = Min({ckpt.start, w})
                           /\ persisted' = w /\ requested' = w
                           /\ records' = {o \in records : o < w} /\ bases' = {o \in bases : o < w}
    BY DEF Recover, locks, procs, history, mem
  <1>c. control.pc = "idle" /\ \A q \in Producers : prod[q].pc = "idle" /\ task[q].pc = "none"
    BY <1>a, <1>b DEF CrashSound
  <1>d. /\ watermark \in Nat /\ watermark <= nextOffset /\ ckpt.hw \in Nat /\ ckpt.start \in Nat /\ ckpt.floor \in Nat /\ nextOffset \in Nat
        /\ ckpt.hw \in Offsets /\ ckpt.start \in Offsets /\ nextOffset \in Offsets
    BY <1>a, Numbers DEF CheckpointTypeOK, CheckpointFile, LogSound
  <1>e. LogEnd = IF records = {} THEN ckpt.hw ELSE nextOffset
    BY <1>a, LogEndFound
  <1>f. /\ w \in Nat /\ w \in Offsets /\ w <= ckpt.hw /\ (records # {} => w <= nextOffset)
        /\ w = ckpt.hw \/ (records # {} /\ w = nextOffset)
    BY <1>d, <1>e DEF RecoveredWatermark
  <1>g. OpenSucceeds => \A e \in sealed : e <= w
    <2>1. SealedEnd \in Nat /\ \A e \in sealed : e \in Nat /\ e <= SealedEnd
      BY <1>a, SealedEndBounds, Numbers
    <2> QED BY <1>f, <2>1 DEF OpenSucceeds
  <1>h. Min({ckpt.start, w}) \in Offsets /\ Min({ckpt.start, w}) <= w
    BY <1>d, <1>f, MinOfTwo
  <1>i. ~SingleReplica => w <= nextOffset /\ w = ckpt.hw
    BY <1>a, <1>d, <1>f DEF FileSound
  <1>j. records \subseteq Nat /\ sealed \subseteq Nat /\ reclaimed \in Nat /\ answered \subseteq Nat /\ persisted \in Nat
    BY <1>a, Numbers
  <1> HIDE DEF w
  <1>1. CheckpointTypeOK'
    <2>1. CASE OpenSucceeds
      BY <1>a, <1>b, <1>f, <1>h, <2>1 DEF CheckpointTypeOK
    <2>2. CASE ~OpenSucceeds
      BY <1>a, <1>b, <2>2 DEF CheckpointTypeOK
    <2> QED BY <2>1, <2>2
  <1>2. LogSound'
    <2>1. CASE OpenSucceeds
      <3>1. ASSUME NEW r \in records' PROVE r < w /\ r .. w - 1 \subseteq records'
        <4>1. r \in records /\ r < w /\ r \in Nat /\ r .. nextOffset - 1 \subseteq records /\ w <= nextOffset
          BY <1>a, <1>b, <1>f, <1>j, <2>1 DEF LogSound
        <4>2. \A o \in Nat : r <= o /\ o < w => o \in records
          BY <1>d, <1>f, <4>1, IntervalMembers
        <4>3. \A o \in Nat : r <= o /\ o < w => o \in records'
          BY <1>b, <2>1, <4>2
        <4> QED BY <1>f, <4>1, <4>3, IntervalInside
      <3> QED BY <1>b, <1>f, <1>g, <1>h, <2>1, <3>1 DEF LogSound
    <2>2. CASE ~OpenSucceeds
      BY <1>a, <1>b, <2>2 DEF LogSound, SingleReplica
    <2> QED BY <2>1, <2>2
  <1>3. FileSound'
    <2>1. CASE OpenSucceeds
      BY <1>a, <1>b, <1>d, <1>f, <1>i, <2>1 DEF FileSound, SingleReplica
    <2>2. CASE ~OpenSucceeds
      BY <1>a, <1>b, <2>2 DEF FileSound, SingleReplica
    <2> QED BY <2>1, <2>2
  <1>4. Complete'
    <2>1. CASE OpenSucceeds
      <3> SUFFICES ASSUME ~SingleReplica, NEW e \in sealed \cup {reclaimed} PROVE e .. w - 1 \subseteq records'
        BY <1>b, <2>1 DEF Complete, SingleReplica
      <3>1. e \in Nat /\ e .. nextOffset - 1 \subseteq records /\ w <= nextOffset
        BY <1>a, <1>i, <1>j DEF Complete
      <3>2. \A o \in Nat : e <= o /\ o < w => o \in records
        BY <1>d, <1>f, <3>1, IntervalMembers
      <3>3. \A o \in Nat : e <= o /\ o < w => o \in records'
        BY <1>b, <2>1, <3>2
      <3> QED BY <1>f, <3>1, <3>3, IntervalInside
    <2>2. CASE ~OpenSucceeds
      BY <1>a, <1>b, <2>2 DEF Complete, SingleReplica
    <2> QED BY <2>1, <2>2
  <1>5. \A q \in Producers : ProducerSound(q)'
    BY <1>b, <1>c DEF ProducerSound
  <1>6. \A q \in Producers : TaskSound(q)'
    BY <1>b, <1>c DEF TaskSound
  <1>7. ControlReads'
    BY <1>b, <1>c DEF ControlReads
  <1>8. AnsweredSound'
    <2>1. CASE OpenSucceeds
      <3>1. ASSUME ~overwritten, NEW o \in answered PROVE o < w /\ Kept(o)'
        <4>1. o \in Nat /\ o < persisted /\ persisted <= ckpt.hw /\ Kept(o)
          BY <1>a, <1>j, <3>1 DEF AnsweredSound
        <4>2. o < nextOffset /\ o < ckpt.hw
          BY <1>d, <1>j, <4>1 DEF Kept
        <4>3. o < w
          BY <1>f, <4>2
        <4> QED BY <1>b, <2>1, <4>1, <4>3 DEF Kept
      <3> QED BY <1>b, <1>f, <2>1, <3>1 DEF AnsweredSound
    <2>2. CASE ~OpenSucceeds
      BY <1>a, <1>b, <2>2 DEF AnsweredSound, Kept, SingleReplica
    <2> QED BY <2>1, <2>2
  <1>9. CrashSound'
    BY <1>b, <1>c DEF CrashSound
  <1> QED BY <1>1, <1>2, <1>3, <1>4, <1>5, <1>6, <1>7, <1>8, <1>9 DEF CheckpointInv

-----------------------------------------------------------------------------
\* A stuttering step.
LEMMA StutterKeeps ==
    ASSUME CheckpointInv, UNCHANGED checkpointVars
    PROVE  CheckpointInv'
  <1> USE DEF checkpointVars, disk, mem, locks, procs, history
  <1>1. CheckpointTypeOK' /\ LogSound' /\ FileSound' /\ Complete' /\ ControlReads' /\ CrashSound'
    BY DEF CheckpointInv, CheckpointTypeOK, LogSound, FileSound, Complete, SingleReplica, ControlReads, CrashSound
  <1>2. \A o : Kept(o)' <=> Kept(o)
    BY DEF Kept
  <1>3. AnsweredSound' /\ \A q \in Producers : ProducerSound(q)' /\ TaskSound(q)'
    BY <1>2 DEF CheckpointInv, AnsweredSound, ProducerSound, Committed, TaskSound, SingleReplica
  <1> QED BY <1>1, <1>3 DEF CheckpointInv

\* A new partition satisfies the invariant.
LEMMA InitSound ==
    ASSUME CheckpointInit
    PROVE  CheckpointInv
  <1> USE DEF CheckpointInit
  <1>1. 0 \in Offsets /\ scenario \in Scenario
    BY CheckpointAssumption DEF Offsets
  <1>2. /\ prod \in [Producers -> ProduceCall]
        /\ task \in [Producers -> [pc : {"none", "spawned", "write", "done"}, base : Offsets, end : Offsets, start : Offsets]]
        /\ control \in [pc : {"idle", "elected", "write"}, hw : Offsets, start : Offsets]
    BY <1>1 DEF NoProduce, NoTask, NoControl, ProduceCall
  <1>3. ckpt \in CheckpointFile /\ ckpt.hw = 0 /\ ckpt.start = 0 /\ ckpt.floor = 0
    BY <1>1 DEF CheckpointFile
  <1>4. CheckpointTypeOK
    BY <1>1, <1>2, <1>3 DEF CheckpointTypeOK, Nobody
  <1>5. LogSound /\ FileSound /\ Complete
    BY <1>3 DEF LogSound, FileSound, Complete
  <1>6. control.pc = "idle" /\ \A q \in Producers : prod[q].pc = "idle" /\ task[q].pc = "none"
    BY DEF NoControl, NoProduce, NoTask
  <1>7. ControlReads /\ CrashSound /\ \A q \in Producers : ProducerSound(q) /\ TaskSound(q)
    BY <1>6 DEF ControlReads, CrashSound, ProducerSound, TaskSound
  <1>8. AnsweredSound
    BY <1>3 DEF AnsweredSound
  <1> QED BY <1>4, <1>5, <1>7, <1>8 DEF CheckpointInv

\* The invariant of the checkpoint protocol: the calls in produce(), the
\* checkpoint tasks, retention and elections know what each of their steps relies
\* on, and the file, the log and checkpoint_persisted agree on what was answered.
THEOREM CheckpointInvariant == CheckpointSpec => []CheckpointInv
  <1>1. ASSUME CheckpointInv, [CheckpointNext]_checkpointVars PROVE CheckpointInv'
    <2>1. ASSUME NEW p \in Producers,
                 \/ ProduceBegin(p) \/ AppendBatch(p) \/ AppendShort(p) \/ AppendFails(p)
                 \/ TaskLock(p) \/ TaskWrite(p) \/ TaskEnds(p)
                 \/ OverlapDone(p) \/ CheckpointSkip(p) \/ CheckpointRead(p) \/ CheckpointWrite(p)
                 \/ Acknowledge(p) \/ RetentionAdvance(p) \/ RetentionPersist(p) \/ RetentionReclaim(p)
          PROVE  CheckpointInv'
      BY <1>1, <2>1, ProduceBeginKeeps, AppendBatchKeeps, AppendShortKeeps, AppendFailsKeeps, TaskLockKeeps, TaskWriteKeeps, TaskEndsKeeps,
         OverlapDoneKeeps, CheckpointSkipKeeps, CheckpointReadKeeps, CheckpointWriteKeeps, AcknowledgeKeeps,
         RetentionAdvanceKeeps, RetentionPersistKeeps, RetentionReclaimKeeps
    <2>2. CASE ElectLeader \/ ControlRead \/ ControlWrite \/ Crash \/ Recover
      BY <1>1, <2>2, ElectKeeps, ControlReadKeeps, ControlWriteKeeps, CrashKeeps, RecoverKeeps
    <2>3. CASE UNCHANGED checkpointVars
      BY <1>1, <2>3, StutterKeeps
    <2> QED BY <1>1, <2>1, <2>2, <2>3 DEF CheckpointNext
  <1> QED BY InitSound, <1>1, PTL DEF CheckpointSpec

\* Type correctness.
THEOREM CheckpointTypeCorrect == CheckpointSpec => []CheckpointTypeOK
  <1>1. CheckpointInv => CheckpointTypeOK
    BY DEF CheckpointInv
  <1> QED BY <1>1, CheckpointInvariant, PTL

\* What produce(), checkpoint_durable(), apply_retention() and open_partition()
\* promise together: an acknowledged record survives every crash unless a rewrite
\* put the file below checkpoint_persisted; recovery never takes the overlap
\* window for log loss; a replicated partition offers only what is in its log.
THEOREM CheckpointIsSound == CheckpointSpec => []CheckpointSound
  <1>1. ASSUME CheckpointInv PROVE CheckpointSound
    <2>1. CheckpointTypeOK /\ LogSound /\ FileSound /\ Complete /\ AnsweredSound
      BY <1>1 DEF CheckpointInv
    <2>2. AcknowledgedUnlessOverwritten
      <3> SUFFICES ASSUME ~overwritten, NEW o \in answered PROVE o < watermark /\ (o >= reclaimed => o \in records)
        BY DEF AcknowledgedUnlessOverwritten, AcknowledgedSurvives
      <3>1. o \in Nat /\ reclaimed \in Nat /\ Kept(o)
        BY <2>1, Numbers DEF AnsweredSound
      <3> QED BY <2>1, <3>1 DEF Kept, LogSound
    <2>3. NoFalseLogLoss
      <3>1. LogEnd = IF records = {} THEN ckpt.hw ELSE nextOffset
        BY <2>1, LogEndFound
      <3>2. RecoveryPointValid
        BY <2>1, <3>1, Numbers DEF RecoveryPointValid, FileSound, LogSound
      <3> QED BY <3>2 DEF NoFalseLogLoss
    <2>4. VisibleIsBacked
      <3> SUFFICES ASSUME ~SingleReplica PROVE Max({logStart, reclaimed}) .. watermark - 1 \subseteq records
        BY DEF VisibleIsBacked
      <3> DEFINE m == Max({logStart, reclaimed})
      <3>1. logStart \in Nat /\ reclaimed \in Nat /\ nextOffset \in Nat /\ watermark \in Nat /\ watermark <= nextOffset
        BY <2>1, Numbers DEF LogSound
      <3>2. m \in Nat /\ reclaimed <= m
        BY <3>1, MaxOfTwo
      <3>3. reclaimed .. nextOffset - 1 \subseteq records
        BY <2>1 DEF Complete
      <3> HIDE DEF m
      <3>4. \A o \in Nat : m <= o /\ o < watermark => o \in records
        BY <3>1, <3>2, <3>3, IntervalMembers
      <3> QED BY <3>1, <3>2, <3>4, IntervalInside DEF m
    <2> QED BY <2>2, <2>3, <2>4 DEF CheckpointSound
  <1> QED BY <1>1, CheckpointInvariant, PTL
=============================================================================
