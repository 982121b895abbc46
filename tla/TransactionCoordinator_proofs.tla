---------------------- MODULE TransactionCoordinator_proofs ----------------------
(***************************************************************************)
(* Proofs about TransactionCoordinator, for any producers, epochs,         *)
(* transactions, log length and number of crashes: types,                  *)
(* ExactlyOnceInOrder, CommittedShown and GroupOffsetsExact.               *)
(*                                                                         *)
(* What a shard remembers of a producer is worth something only together   *)
(* with the log: the invariant says which batches of the log a shard, in   *)
(* memory or in its file, knows of, and which of them it accounts for as   *)
(* part of the open transaction.                                           *)
(***************************************************************************)
EXTENDS TransactionCoordinator, NaturalsInduction, WellFoundedInduction, TLAPS

Saved(p) == file[p].producer

\* Only the sequence state is ever ahead of the file.
SamePersisted(p) ==
    /\ Producer(p).epoch = Saved(p).epoch /\ Producer(p).status = Saved(p).status
    /\ Producer(p).txn = Saved(p).txn /\ Producer(p).offsets = Saved(p).offsets
    /\ shards[p].aborted = file[p].aborted /\ Saved(p).last <= Producer(p).last
    /\ p \notin dirty \cup flushTaken => shards[p] = file[p]

\* During recovery nothing is produced, flushed or reclaimed.
Recovering == phase = "recovering" => call = NoCall /\ dirty = {} /\ flushTaken = {} /\ skipped = {}

\* flush_dirty() writes one shard at a time.
OneFlush == \A p, q \in flushTaken : p = q

\* The shard of p has been compared with the log.
Caught(p) == phase = "serving" \/ p \in recovered

\* The batch that produce() has appended and not completed.
Appended(i) == call # NoCall /\ call.stage = "appended" /\ i = Len(batches)

Of(p) == {i \in 1 .. Len(batches) : batches[i].pid = p}
Earlier(i, epoch, seq) ==
    batches[i].epoch < epoch \/ (batches[i].epoch = epoch /\ batches[i].seq < seq)
Covers(np, i) == batches[i].epoch < np.epoch \/ (batches[i].epoch = np.epoch /\ batches[i].seq <= np.last)

\* Of a producer whose snapshot was lost only the batches still in the log count.
Counted(p) == {i \in Of(p) : p \in lost => trimmed < i}

LogOrdered ==
    \A p \in ProducerIds : \A i, j \in Counted(p) : i < j => Earlier(i, batches[j].epoch, batches[j].seq)
EpochsBounded == \A p \in ProducerIds : \A i \in Of(p) : batches[i].epoch <= Producer(p).epoch
MemoryCovers(p) == Caught(p) => \A i \in Counted(p) : Covers(Producer(p), i) \/ Appended(i)
FileCovers(p) == p \notin lost \cup skipped => \A i \in Of(p) : i <= trimmed => Covers(Saved(p), i)

\* The append under way, and the transaction it belongs to.
CallOrdered ==
    LET np == Producer(call.pid) IN
    call # NoCall =>
        /\ call.epoch <= np.epoch
        /\ call.epoch = np.epoch => np.pend = call.seq /\ np.last < call.seq
        /\ call.stage = "prepared" =>
             /\ Len(batches) < MaxLog
             /\ \A i \in Counted(call.pid) : Earlier(i, call.epoch, call.seq)
        /\ call.stage = "appended" =>
             /\ trimmed < Len(batches) /\ batches[Len(batches)].pid = call.pid
             /\ batches[Len(batches)].epoch = call.epoch /\ batches[Len(batches)].seq = call.seq
             /\ batches[Len(batches)].txn = call.txn
CallOpen ==
    LET np == Producer(call.pid) IN
    call # NoCall => /\ call.txn <= txns[call.pid]
                     /\ np.status = "Ongoing" /\ np.txn = call.txn => np.epoch = call.epoch
                     /\ \/ np.status = "Ongoing" /\ np.txn = call.txn /\ np.epoch = call.epoch
                        \/ <<call.pid, call.txn>> \in leaked
PendingSound(p) ==
    Caught(p) /\ Producer(p).pend # None => call # NoCall /\ call.pid = p /\ call.epoch = Producer(p).epoch

\* The coordinator's decisions.
DecisionSound(p) ==
    /\ Producer(p).status # "Ready" => Producer(p).epoch # None
    /\ Producer(p).status = "Ongoing" => Producer(p).txn = txns[p] /\ txns[p] > 0
    /\ \A n \in Transactions :
        /\ outcome[p][n] = "none" <=> n > txns[p]
        /\ outcome[p][n] = "open" <=> Producer(p).status = "Ongoing" /\ Producer(p).txn = n
        /\ outcome[p][n] = "abandoned" => <<p, n>> \in leaked
    /\ \A i \in Of(p) : /\ batches[i].txn <= txns[p]
                        /\ Producer(p).status = "Ongoing" /\ batches[i].txn = Producer(p).txn
                           => batches[i].epoch = Producer(p).epoch

\* The batches of the open transaction that np knows of are in its range.
Listed(np, i) == 0 < np.first /\ np.first <= i /\ i <= np.off
OpenListed(p, np) ==
    np.status = "Ongoing" /\ <<p, np.txn>> \notin leaked =>
        /\ np.first <= Len(batches)
        /\ \A i \in Of(p) : trimmed < i /\ batches[i].txn = np.txn =>
               /\ 0 < np.first => np.first <= i
               /\ batches[i].seq <= np.last => Listed(np, i)
AbortedListed(p) ==
    \A i \in Of(p) :
        trimmed < i /\ outcome[p][batches[i].txn] = "aborted" /\ <<p, batches[i].txn>> \notin leaked
        => Aborted(i)

\* Pending offsets are of one transaction, a committed one or the open one.
OffsetsSound(p) ==
    /\ \A m, n \in Producer(p).offsets : m = n
    /\ \A n \in Producer(p).offsets :
          outcome[p][n] = "committed" \/ (Producer(p).status = "Ongoing" /\ Producer(p).txn = n)
HandlerSound(h) ==
    handlers[h] # NoHandler =>
        /\ handlers[h].offsets # {} /\ \A m, n \in handlers[h].offsets : m = n
        /\ \A n \in handlers[h].offsets : outcome[handlers[h].pid][n] = "committed"
OwedStaged == \A o \in owed : o[2] \in Producer(o[1]).offsets

FileInv == Recovering /\ OneFlush /\ \A p \in ProducerIds : SamePersisted(p)
SequenceInv ==
    /\ LogOrdered /\ EpochsBounded /\ CallOrdered
    /\ \A p \in ProducerIds : MemoryCovers(p) /\ FileCovers(p) /\ PendingSound(p)
DecisionInv == CallOpen /\ \A p \in ProducerIds : DecisionSound(p)
ListedInv == \A p \in ProducerIds : OpenListed(p, Producer(p)) /\ OpenListed(p, Saved(p)) /\ AbortedListed(p)
OffsetsInv ==
    /\ OwedStaged /\ OffsetsOnlyFromCommitted
    /\ \A p \in ProducerIds : OffsetsSound(p)
    /\ \A h \in Requests : HandlerSound(h)

TransactionsInv == TransactionsTypeOK /\ FileInv /\ SequenceInv /\ DecisionInv /\ ListedInv /\ OffsetsInv

-----------------------------------------------------------------------------
(* Types *)

\* A producer's state in numbers.
LEMMA ProducerFacts ==
    ASSUME NEW np \in ProducerState
    PROVE  /\ np.epoch \in Int /\ np.last \in Int /\ np.pend \in Int
           /\ np.off \in Nat /\ np.first \in Nat /\ np.txn \in Nat
           /\ np.off <= MaxLog /\ np.first <= MaxLog
           /\ np.offsets \subseteq Transactions
  BY TransactionsAssumption DEF ProducerState, LogOffsets, ProducerEpochs, None

\* What the types say of shards, batches and bounds.
LEMMA TypeFacts ==
    ASSUME TransactionsTypeOK
    PROVE  /\ \A p \in ProducerIds : /\ shards[p] \in TransactionShard /\ file[p] \in TransactionShard
                                     /\ Producer(p) \in ProducerState /\ Saved(p) \in ProducerState
                                     /\ txns[p] \in Nat
           /\ Len(batches) \in Nat /\ Len(batches) <= MaxLog /\ MaxLog \in Nat
           /\ trimmed \in Nat /\ stable \in Nat /\ trimmed <= stable /\ stable <= Len(batches)
           /\ \A i \in 1 .. Len(batches) :
                 /\ batches[i] \in Batch /\ batches[i].pid \in ProducerIds /\ batches[i].epoch \in Nat
                 /\ batches[i].seq \in Nat /\ batches[i].txn \in Transactions
  <1>1. \A p \in ProducerIds : /\ shards[p] \in TransactionShard /\ file[p] \in TransactionShard /\ txns[p] \in Nat
    BY DEF TransactionsTypeOK
  <1>2. \A p \in ProducerIds : Producer(p) \in ProducerState /\ Saved(p) \in ProducerState
    BY <1>1 DEF TransactionShard, Producer, Saved
  <1>3. Len(batches) \in Nat /\ MaxLog \in Nat /\ trimmed \in 0 .. Len(batches) /\ stable \in trimmed .. Len(batches)
        /\ Len(batches) <= MaxLog
    BY TransactionsAssumption DEF TransactionsTypeOK
  <1>4. \A i \in 1 .. Len(batches) : batches[i] \in Batch
    BY DEF TransactionsTypeOK
  <1>5. \A b \in Batch : b.pid \in ProducerIds /\ b.epoch \in Nat /\ b.seq \in Nat /\ b.txn \in Transactions
    BY DEF Batch, ProducerEpochs, LogOffsets
  <1> QED BY <1>1, <1>2, <1>3, <1>4, <1>5

\* A call under way in numbers.
LEMMA CallFacts ==
    ASSUME TransactionsTypeOK, call # NoCall
    PROVE  /\ call \in Call /\ call.pid \in ProducerIds /\ call.epoch \in Nat /\ call.seq \in Nat
           /\ call.txn \in Transactions /\ call.txn \in Nat /\ call.stage \in {"prepared", "appended"}
  <1>1. call \in Call
    BY DEF TransactionsTypeOK
  <1> QED BY <1>1 DEF Call, ProducerEpochs, LogOffsets, Transactions

\* A handler at work.
LEMMA HandlerFacts ==
    ASSUME TransactionsTypeOK, NEW h \in Requests, handlers[h] # NoHandler
    PROVE  /\ handlers[h] \in Handler /\ handlers[h].pid \in ProducerIds
           /\ handlers[h].offsets \subseteq Transactions /\ handlers[h].step \in {"apply", "mark"}
  <1>1. handlers[h] \in Handler
    BY DEF TransactionsTypeOK
  <1> QED BY <1>1 DEF Handler

\* The shard after persist_shard(), in memory and in the file.
LEMMA PersistFacts ==
    ASSUME TransactionsTypeOK, NEW p \in ProducerIds, NEW shard \in TransactionShard, Persist(p, shard)
    PROVE  /\ shards' \in [ProducerIds -> TransactionShard] /\ file' \in [ProducerIds -> TransactionShard] /\ dirty' = dirty
           /\ shards'[p] = shard /\ file'[p] = shard
           /\ \A q \in ProducerIds \ {p} : shards'[q] = shards[q] /\ file'[q] = file[q]
  BY DEF TransactionsTypeOK, Persist

\* The same for a change of the producer alone.
LEMMA PersistProducerFacts ==
    ASSUME TransactionsTypeOK, NEW p \in ProducerIds, NEW np \in ProducerState, PersistProducer(p, np)
    PROVE  /\ shards' \in [ProducerIds -> TransactionShard] /\ file' \in [ProducerIds -> TransactionShard] /\ dirty' = dirty
           /\ shards'[p].producer = np /\ shards'[p].aborted = shards[p].aborted /\ file'[p] = shards'[p]
           /\ \A q \in ProducerIds \ {p} : shards'[q] = shards[q] /\ file'[q] = file[q]
  <1> DEFINE shard == [shards[p] EXCEPT !.producer = np]
  <1>1. shards[p] \in TransactionShard
    BY DEF TransactionsTypeOK
  <1>2. shard \in TransactionShard /\ shard.producer = np /\ shard.aborted = shards[p].aborted
    BY <1>1 DEF TransactionShard
  <1>3. Persist(p, shard)
    BY DEF PersistProducer
  <1> HIDE DEF shard
  <1> QED BY <1>2, <1>3, PersistFacts

\* The shard after a change in memory.
LEMMA RememberFacts ==
    ASSUME TransactionsTypeOK, NEW p \in ProducerIds, NEW np \in ProducerState, Remember(p, np)
    PROVE  /\ shards' \in [ProducerIds -> TransactionShard] /\ file' = file /\ dirty' = dirty \cup {p}
           /\ shards'[p].producer = np /\ shards'[p].aborted = shards[p].aborted
           /\ \A q \in ProducerIds \ {p} : shards'[q] = shards[q]
  <1>1. shards[p] \in TransactionShard
    BY DEF TransactionsTypeOK
  <1>2. shards' = [shards EXCEPT ![p] = [shards[p] EXCEPT !.producer = np]]
    BY DEF Remember, TransactionsTypeOK
  <1>3. [shards[p] EXCEPT !.producer = np] \in TransactionShard
    BY <1>1 DEF TransactionShard
  <1>4. shards'[p] = [shards[p] EXCEPT !.producer = np]
    BY <1>2 DEF TransactionsTypeOK
  <1> QED BY <1>1, <1>2, <1>3, <1>4 DEF Remember, TransactionsTypeOK, TransactionShard

\* The states a producer gets.
LEMMA ProducerUpdates ==
    ASSUME NEW np \in ProducerState
    PROVE  /\ \A e \in ProducerEpochs : Fresh(e) \in ProducerState
           /\ \A s \in {"Ready", "Ongoing", "Committed", "Aborted"}, n \in 0 .. MaxTxns :
                 [np EXCEPT !.status = s, !.txn = n] \in ProducerState
           /\ \A S \in SUBSET Transactions : [np EXCEPT !.offsets = S] \in ProducerState
           /\ \A s \in LogOffsets \cup {None} : [np EXCEPT !.pend = s] \in ProducerState
           /\ \A s \in LogOffsets, o \in LogOffsets : Sequenced(np, s, o) \in ProducerState
  <1>1. 0 \in LogOffsets /\ 0 \in 0 .. MaxTxns
    BY TransactionsAssumption DEF LogOffsets
  <1>2. \A e \in ProducerEpochs : Fresh(e) \in ProducerState
    BY <1>1 DEF Fresh, ProducerState
  <1>3. \A s \in {"Ready", "Ongoing", "Committed", "Aborted"}, n \in 0 .. MaxTxns :
                 [np EXCEPT !.status = s, !.txn = n] \in ProducerState
    BY DEF ProducerState
  <1>4. \A S \in SUBSET Transactions : [np EXCEPT !.offsets = S] \in ProducerState
    BY DEF ProducerState
  <1>5. \A s \in LogOffsets \cup {None} : [np EXCEPT !.pend = s] \in ProducerState
    BY DEF ProducerState
  <1>6. \A s \in LogOffsets, o \in LogOffsets : Sequenced(np, s, o) \in ProducerState
    BY DEF ProducerState, Sequenced
  <1> QED BY <1>2, <1>3, <1>4, <1>5, <1>6

\* The shard of a transaction that has ended.
LEMMA EndedFacts ==
    ASSUME NEW shard \in TransactionShard, NEW commit \in BOOLEAN
    PROVE  /\ Ended(shard, commit) \in TransactionShard
           /\ Ended(shard, commit).producer.epoch = shard.producer.epoch
           /\ Ended(shard, commit).producer.last = shard.producer.last
           /\ Ended(shard, commit).producer.pend = shard.producer.pend
           /\ Ended(shard, commit).producer.txn = shard.producer.txn
           /\ Ended(shard, commit).producer.status = IF commit THEN "Committed" ELSE "Aborted"
           /\ Ended(shard, commit).producer.offsets = IF commit THEN shard.producer.offsets ELSE {}
           /\ Ended(shard, commit).aborted =
                 shard.aborted \cup (IF commit THEN {} ELSE AbortedRanges(shard.producer))
  <1> DEFINE np == shard.producer
  <1>0. np \in ProducerState /\ shard.aborted \in SUBSET [first : 1 .. MaxLog, last : LogOffsets]
    BY DEF TransactionShard
  <1>z. 0 \in LogOffsets /\ {} \in SUBSET Transactions
    BY TransactionsAssumption DEF LogOffsets
  <1>e. \A x \in ProducerState : \A s \in {"Committed", "Aborted"}, S \in SUBSET Transactions :
          LET e == [x EXCEPT !.status = s, !.first = 0, !.offsets = S] IN
          /\ e \in ProducerState /\ e.epoch = x.epoch /\ e.last = x.last /\ e.pend = x.pend
          /\ e.txn = x.txn /\ e.status = s /\ e.offsets = S
    BY <1>z, ZenonT(60) DEF ProducerState
  <1>c. \A x \in ProducerState :
          LET e == [x EXCEPT !.status = "Committed", !.first = 0] IN
          /\ e \in ProducerState /\ e.epoch = x.epoch /\ e.last = x.last /\ e.pend = x.pend
          /\ e.txn = x.txn /\ e.status = "Committed" /\ e.offsets = x.offsets
    BY <1>z DEF ProducerState
  <1> HIDE DEF np
  <1>1. CASE commit
    <2> DEFINE ended == [np EXCEPT !.status = "Committed", !.first = 0]
    <2>1. ended \in ProducerState /\ ended.epoch = np.epoch /\ ended.last = np.last /\ ended.pend = np.pend
          /\ ended.txn = np.txn /\ ended.status = "Committed" /\ ended.offsets = np.offsets
      BY <1>0, <1>c
    <2>2. Ended(shard, commit) = [shard EXCEPT !.producer = ended]
      BY <1>1 DEF Ended, TransactionShard, ProducerState, np
    <2> HIDE DEF ended
    <2>3. [shard EXCEPT !.producer = ended] \in TransactionShard /\ [shard EXCEPT !.producer = ended].producer = ended
          /\ [shard EXCEPT !.producer = ended].aborted = shard.aborted
      BY <2>1 DEF TransactionShard
    <2> QED BY <1>1, <2>1, <2>2, <2>3 DEF np
  <1>2. CASE ~commit
    <2> DEFINE ended == [np EXCEPT !.status = "Aborted", !.first = 0, !.offsets = {}]
               ranges == AbortedRanges(np)
    <2>1. ended \in ProducerState /\ ended.epoch = np.epoch /\ ended.last = np.last /\ ended.pend = np.pend
          /\ ended.txn = np.txn /\ ended.status = "Aborted" /\ ended.offsets = {}
      BY <1>0, <1>z, <1>e, ZenonT(60)
    <2>2. ranges \subseteq [first : 1 .. MaxLog, last : LogOffsets]
      BY <1>0, TransactionsAssumption DEF ProducerState, LogOffsets, AbortedRanges
    <2>3. Ended(shard, commit) = [producer |-> ended, aborted |-> shard.aborted \cup ranges]
      BY <1>2 DEF Ended, np
    <2> HIDE DEF ended, ranges
    <2>4. [producer |-> ended, aborted |-> shard.aborted \cup ranges] \in TransactionShard
      BY <1>0, <2>1, <2>2 DEF TransactionShard
    <2>5. Ended(shard, commit).producer = ended /\ Ended(shard, commit).aborted = shard.aborted \cup ranges
      BY <2>3
    <2>6. Ended(shard, commit) \in TransactionShard
      BY <2>3, <2>4
    <2> QED BY <1>2, <2>1, <2>5, <2>6 DEF ranges, np
  <1> QED BY <1>1, <1>2

-----------------------------------------------------------------------------
(* Sequences: which batches a shard knows of *)

\* The parts of the invariant for one producer.
LEMMA SequenceFacts ==
    ASSUME TransactionsInv, NEW p \in ProducerIds
    PROVE  /\ MemoryCovers(p) /\ FileCovers(p) /\ PendingSound(p) /\ SamePersisted(p)
           /\ Recovering /\ CallOrdered /\ LogOrdered /\ EpochsBounded /\ TransactionsTypeOK
  BY DEF TransactionsInv, SequenceInv, FileInv

\* The memory covers what was reclaimed, before the log scan too.
LEMMA ReclaimedCovered ==
    ASSUME TransactionsInv, NEW p \in ProducerIds, p \notin lost \cup skipped,
           NEW i \in Of(p), i <= trimmed
    PROVE  Covers(Producer(p), i)
  <1>1. CASE Caught(p)
    <2>1. i \in Counted(p)
      BY DEF Counted
    <2>2. ~Appended(i)
      <3>1. Len(batches) \in Nat /\ trimmed \in Nat /\ i \in Nat
        BY TypeFacts, SequenceFacts DEF Of
      <3> QED BY <3>1, SequenceFacts DEF Appended, CallOrdered
    <2> QED BY <1>1, <2>1, <2>2, SequenceFacts DEF MemoryCovers
  <1>2. CASE ~Caught(p)
    <2>1. phase = "recovering"
      BY <1>2, SequenceFacts DEF Caught, TransactionsTypeOK
    <2>2. shards[p] = file[p]
      BY <2>1, SequenceFacts DEF Recovering, SamePersisted
    <2>3. Covers(Saved(p), i)
      BY SequenceFacts DEF FileCovers
    <2> QED BY <2>2, <2>3 DEF Saved, Producer
  <1> QED BY <1>1, <1>2

\* With no append under way a shard that is caught up covers its batches.
LEMMA QuietCovered ==
    ASSUME TransactionsInv, NEW p \in ProducerIds, Caught(p), NEW i \in Counted(p),
           call = NoCall \/ i < Len(batches)
    PROVE  Covers(Producer(p), i)
  <1>1. Len(batches) \in Nat /\ i \in Nat
    BY TypeFacts, SequenceFacts DEF Counted, Of
  <1> QED BY <1>1, SequenceFacts DEF MemoryCovers, Appended

\* The order of the log, and the bound on its epochs, while the log stays.
LEMMA LogStays ==
    ASSUME TransactionsInv, UNCHANGED <<batches, trimmed, lost>>,
           \A q \in ProducerIds : shards'[q].producer.epoch \in Int /\ Producer(q).epoch <= shards'[q].producer.epoch
    PROVE  /\ LogOrdered' /\ EpochsBounded'
           /\ \A q \in ProducerIds : Of(q)' = Of(q) /\ Counted(q)' = Counted(q)
  <1>1. \A q \in ProducerIds : Of(q)' = Of(q) /\ Counted(q)' = Counted(q)
    BY DEF Of, Counted
  <1>2. LogOrdered'
    <2> SUFFICES ASSUME NEW q \in ProducerIds, NEW i \in Counted(q), NEW j \in Counted(q), i < j
                 PROVE  Earlier(i, batches[j].epoch, batches[j].seq)'
      BY <1>1 DEF LogOrdered
    <2> QED BY SequenceFacts DEF LogOrdered, Earlier
  <1>3. EpochsBounded'
    <2> SUFFICES ASSUME NEW q \in ProducerIds, NEW i \in Of(q)
                 PROVE  batches[i].epoch <= shards'[q].producer.epoch
      BY <1>1 DEF EpochsBounded, Producer
    <2>1. batches[i].epoch <= Producer(q).epoch
      BY SequenceFacts DEF EpochsBounded
    <2>2. batches[i].epoch \in Nat /\ Producer(q).epoch \in Int
      BY TypeFacts, SequenceFacts, ProducerFacts DEF Of
    <2> QED BY <2>1, <2>2
  <1> QED BY <1>1, <1>2, <1>3 DEF Earlier

\* A step that leaves the sequence states, the log and the append alone.
LEMMA SequencesSame ==
    ASSUME TransactionsInv, UNCHANGED <<shards, file, batches, trimmed, call, phase, recovered, lost, skipped>>
    PROVE  SequenceInv'
  BY DEF TransactionsInv, SequenceInv, LogOrdered, EpochsBounded, CallOrdered, MemoryCovers, FileCovers,
         PendingSound, Of, Counted, Earlier, Covers, Caught, Appended, Producer, Saved

\* A step that writes the shard of p to its file with another transaction state
\* or in another epoch.
LEMMA SequencesKept ==
    ASSUME TransactionsInv, NEW p \in ProducerIds, NEW np \in ProducerState,
           shards'[p].producer = np, file'[p].producer = np,
           \A q \in ProducerIds \ {p} : shards'[q] = shards[q] /\ file'[q] = file[q],
           \/ np.epoch = Producer(p).epoch /\ np.last = Producer(p).last /\ np.pend = Producer(p).pend
           \/ Producer(p).epoch < np.epoch /\ np.pend = None,
           UNCHANGED <<batches, trimmed, call, phase, recovered, lost, skipped>>
    PROVE  SequenceInv'
  <1>t. TransactionsTypeOK
    BY DEF TransactionsInv
  <1>1. \A q \in ProducerIds : /\ Producer(q) \in ProducerState /\ Producer(q).epoch \in Int /\ Producer(q).last \in Int
    BY <1>t, TypeFacts, ProducerFacts
  <1>2. np.epoch \in Int /\ np.last \in Int
    BY ProducerFacts
  <1>3. \A q \in ProducerIds : shards'[q].producer.epoch \in Int /\ Producer(q).epoch <= shards'[q].producer.epoch
    BY <1>1, <1>2 DEF Producer
  <1>4. /\ LogOrdered' /\ EpochsBounded' /\ \A q \in ProducerIds : Of(q)' = Of(q) /\ Counted(q)' = Counted(q)
    BY <1>3, LogStays
  <1>5. \A q \in ProducerIds : \A i \in Of(q) : Covers(Producer(q), i) => Covers(Producer(q), i)'
    <2> SUFFICES ASSUME NEW q \in ProducerIds, NEW i \in Of(q), Covers(Producer(q), i)
                 PROVE  Covers(Producer(q), i)'
      OBVIOUS
    <2>1. batches[i].epoch \in Nat
      BY <1>t, TypeFacts DEF Of
    <2> QED BY <1>1, <1>2, <2>1 DEF Covers, Producer
  <1>6. \A q \in ProducerIds : MemoryCovers(q)'
    <2> SUFFICES ASSUME NEW q \in ProducerIds, Caught(q)', NEW i \in Counted(q)
                 PROVE  Covers(Producer(q), i)' \/ Appended(i)'
      BY <1>4 DEF MemoryCovers
    <2>1. i \in Of(q)
      BY DEF Counted
    <2>2. Covers(Producer(q), i) \/ Appended(i)
      BY SequenceFacts DEF MemoryCovers, Caught
    <2> QED BY <1>5, <2>1, <2>2 DEF Appended
  <1>7. \A q \in ProducerIds : FileCovers(q)'
    <2> SUFFICES ASSUME NEW q \in ProducerIds, q \notin lost \cup skipped, NEW i \in Of(q), i <= trimmed
                 PROVE  Covers(Saved(q), i)'
      BY <1>4 DEF FileCovers
    <2>1. CASE q = p
      <3>1. Covers(Producer(q), i)'
        BY <1>5, ReclaimedCovered
      <3> QED BY <2>1, <3>1 DEF Covers, Producer, Saved
    <2>2. CASE q # p
      BY <2>2, SequenceFacts DEF FileCovers, Covers, Saved
    <2> QED BY <2>1, <2>2
  <1>8. \A q \in ProducerIds : PendingSound(q)'
    <2> SUFFICES ASSUME NEW q \in ProducerIds
                 PROVE  PendingSound(q)'
      OBVIOUS
    <2>1. PendingSound(q)
      BY SequenceFacts
    <2> QED BY <2>1 DEF PendingSound, Caught, Producer, NoCall
  <1>9. CallOrdered'
    <2> SUFFICES ASSUME call # NoCall
                 PROVE  CallOrdered'
      BY DEF CallOrdered
    <2>1. CallOrdered /\ call.pid \in ProducerIds /\ call.epoch \in Nat
      BY <1>t, SequenceFacts, CallFacts
    <2>2. /\ call.epoch <= Producer(call.pid).epoch
          /\ call.epoch = Producer(call.pid).epoch => Producer(call.pid).pend = call.seq /\ Producer(call.pid).last < call.seq
      BY <2>1 DEF CallOrdered
    <2>3. /\ call.epoch <= shards'[call.pid].producer.epoch
          /\ call.epoch = shards'[call.pid].producer.epoch
                => shards'[call.pid].producer.pend = call.seq /\ shards'[call.pid].producer.last < call.seq
      BY <1>1, <1>2, <2>1, <2>2 DEF Producer
    <2>4. call.stage = "prepared" => /\ Len(batches) < MaxLog
                                     /\ \A i \in Counted(call.pid) : Earlier(i, call.epoch, call.seq)
      BY <2>1 DEF CallOrdered
    <2>5. \A i \in Counted(call.pid) : Earlier(i, call.epoch, call.seq)' <=> Earlier(i, call.epoch, call.seq)
      BY DEF Earlier
    <2>6. Counted(call.pid)' = Counted(call.pid)
      BY DEF Counted, Of
    <2> QED BY <2>1, <2>3, <2>4, <2>5, <2>6 DEF CallOrdered, Producer
  <1> QED BY <1>4, <1>6, <1>7, <1>8, <1>9 DEF SequenceInv

\* A step of produce(): the sequence state of p moves on in memory.
LEMMA MemoryAhead ==
    ASSUME TransactionsInv, NEW p \in ProducerIds, NEW np \in ProducerState,
           shards'[p].producer = np, \A q \in ProducerIds \ {p} : shards'[q] = shards[q],
           np.epoch = Producer(p).epoch, Producer(p).last <= np.last,
           UNCHANGED <<file, batches, trimmed, phase, recovered, lost, skipped>>
    PROVE  /\ LogOrdered' /\ EpochsBounded'
           /\ \A q \in ProducerIds : FileCovers(q)' /\ Of(q)' = Of(q) /\ Counted(q)' = Counted(q)
           /\ \A q \in ProducerIds : \A i \in Of(q) : Covers(Producer(q), i) => Covers(Producer(q), i)'
           /\ \A q \in ProducerIds : Caught(q)' <=> Caught(q)
  <1>t. TransactionsTypeOK
    BY DEF TransactionsInv
  <1>1. \A q \in ProducerIds : /\ Producer(q) \in ProducerState /\ Producer(q).epoch \in Int /\ Producer(q).last \in Int
    BY <1>t, TypeFacts, ProducerFacts
  <1>2. np.epoch \in Int /\ np.last \in Int
    BY ProducerFacts
  <1>3. \A q \in ProducerIds : shards'[q].producer.epoch \in Int /\ Producer(q).epoch <= shards'[q].producer.epoch
    BY <1>1, <1>2 DEF Producer
  <1>4. /\ LogOrdered' /\ EpochsBounded' /\ \A q \in ProducerIds : Of(q)' = Of(q) /\ Counted(q)' = Counted(q)
    BY <1>3, LogStays
  <1>5. \A q \in ProducerIds : \A i \in Of(q) : Covers(Producer(q), i) => Covers(Producer(q), i)'
    <2> SUFFICES ASSUME NEW q \in ProducerIds, NEW i \in Of(q), Covers(Producer(q), i)
                 PROVE  Covers(Producer(q), i)'
      OBVIOUS
    <2>1. batches[i].epoch \in Nat /\ batches[i].seq \in Nat
      BY <1>t, TypeFacts DEF Of
    <2> QED BY <1>1, <1>2, <2>1 DEF Covers, Producer
  <1>6. \A q \in ProducerIds : FileCovers(q)'
    <2> SUFFICES ASSUME NEW q \in ProducerIds
                 PROVE  FileCovers(q)'
      OBVIOUS
    <2>1. FileCovers(q)
      BY SequenceFacts
    <2> QED BY <1>4, <2>1 DEF FileCovers, Covers, Saved
  <1> QED BY <1>4, <1>5, <1>6 DEF Caught

\* prepare_append() keeps every sequence ahead of, or equal to, the batches in the log.
LEMMA PrepareAppendSequences ==
    ASSUME TransactionsInv, NEW p \in ProducerIds, NEW epoch \in ProducerEpochs, NEW seq \in 0 .. MaxLog,
           PrepareAppend(p, epoch, seq)
    PROVE  SequenceInv'
  <1> DEFINE old == Producer(p)
             np == [old EXCEPT !.pend = seq]
  <1>t. TransactionsTypeOK /\ seq \in LogOffsets /\ seq \in Nat
    BY DEF TransactionsInv, LogOffsets
  <1>0. old \in ProducerState /\ old.last \in Int /\ old.epoch \in Int
    BY <1>t, TypeFacts, ProducerFacts
  <1>g. /\ phase = "serving" /\ call = NoCall /\ Len(batches) < MaxLog /\ old.epoch = epoch
        /\ seq = old.last + 1 /\ old.pend = None /\ Remember(p, np)
    BY DEF PrepareAppend, NextInSequence, Known
  <1>c. call' = [stage |-> "prepared", pid |-> p, epoch |-> epoch, seq |-> seq, txn |-> old.txn]
    BY DEF PrepareAppend
  <1>u. UNCHANGED <<batches, trimmed, phase, recovered, lost, skipped>>
    BY DEF PrepareAppend, partitionDisk, brokerState, transactionHistory, otherHistory
  <1>1. np \in ProducerState /\ np.epoch = epoch /\ np.last = old.last /\ np.pend = seq
    <2>1. np \in ProducerState
      BY <1>0, <1>t, ProducerUpdates
    <2> HIDE DEF old
    <2> QED BY <1>0, <1>g, <2>1 DEF ProducerState
  <1> HIDE DEF np, old
  <1>2. /\ shards'[p].producer = np /\ file' = file
        /\ \A q \in ProducerIds \ {p} : shards'[q] = shards[q]
    BY <1>t, <1>g, <1>1, RememberFacts
  <1>o. old = Producer(p)
    BY DEF old
  <1>3. /\ LogOrdered' /\ EpochsBounded'
        /\ \A q \in ProducerIds : FileCovers(q)' /\ Of(q)' = Of(q) /\ Counted(q)' = Counted(q)
        /\ \A q \in ProducerIds : \A i \in Of(q) : Covers(Producer(q), i) => Covers(Producer(q), i)'
        /\ \A q \in ProducerIds : Caught(q)' <=> Caught(q)
    BY <1>0, <1>g, <1>u, <1>1, <1>2, <1>o, MemoryAhead
  <1>4. \A q \in ProducerIds : MemoryCovers(q)'
    BY <1>g, <1>3, QuietCovered DEF MemoryCovers, Counted
  <1>5. \A q \in ProducerIds : PendingSound(q)'
    <2> SUFFICES ASSUME NEW q \in ProducerIds
                 PROVE  PendingSound(q)'
      OBVIOUS
    <2>1. PendingSound(q)
      BY SequenceFacts
    <2>2. call'.pid = p /\ call'.epoch = epoch /\ call' # NoCall
      BY <1>c DEF NoCall
    <2> QED BY <1>g, <1>1, <1>2, <1>3, <2>1, <2>2 DEF PendingSound, Producer
  <1>6. CallOrdered'
    <2>1. /\ call'.pid = p /\ call'.epoch = epoch /\ call' # NoCall /\ call'.stage = "prepared" /\ call'.seq = seq
      BY <1>c DEF NoCall
    <2>2. \A i \in Counted(p) : Earlier(i, epoch, seq)
      <3> SUFFICES ASSUME NEW i \in Counted(p)
                   PROVE  Earlier(i, epoch, seq)
        OBVIOUS
      <3>1. Covers(Producer(p), i)
        BY <1>g, QuietCovered DEF Caught
      <3>2. batches[i].epoch \in Nat /\ batches[i].seq \in Nat
        BY <1>t, TypeFacts DEF Counted, Of
      <3> QED BY <1>0, <1>g, <1>o, <3>1, <3>2 DEF Covers, Earlier
    <2>3. \A i \in Counted(p)' : Earlier(i, call.epoch, call.seq)'
      BY <1>u, <1>3, <2>1, <2>2 DEF Earlier
    <2> QED BY <1>0, <1>t, <1>g, <1>u, <1>1, <1>2, <2>1, <2>3 DEF CallOrdered, Producer
  <1> QED BY <1>3, <1>4, <1>5, <1>6 DEF SequenceInv

\* The appended batch is later than every other of its producer.
LEMMA AppendToLogSequences ==
    ASSUME TransactionsInv, AppendToLog
    PROVE  SequenceInv'
  <1> DEFINE p == call.pid
             b == [pid |-> call.pid, epoch |-> call.epoch, seq |-> call.seq, txn |-> call.txn]
             n == Len(batches) + 1
  <1>g. call # NoCall /\ call.stage = "prepared"
    BY DEF AppendToLog
  <1>t. TransactionsTypeOK /\ Len(batches) \in Nat /\ trimmed \in Nat /\ trimmed <= Len(batches)
    BY TypeFacts DEF TransactionsInv
  <1>0. call \in Call /\ p \in ProducerIds /\ call.epoch \in Nat /\ call.seq \in Nat /\ call.txn \in Transactions
    BY <1>g, <1>t, CallFacts
  <1>c. call' \in Call /\ call' # NoCall /\ call'.stage = "appended" /\ call'.pid = p /\ call'.epoch = call.epoch
        /\ call'.seq = call.seq /\ call'.txn = call.txn
    <2>1. call' = [call EXCEPT !.stage = "appended"]
      BY DEF AppendToLog
    <2> QED BY <1>0, <2>1 DEF Call, NoCall
  <1>u. UNCHANGED <<shards, file, trimmed, phase, recovered, lost, skipped>>
    BY DEF AppendToLog, brokerState, transactionHistory, otherHistory
  <1>1. /\ Len(batches') = n /\ batches'[n] = b
        /\ \A i \in 1 .. Len(batches) : batches'[i] = batches[i]
    BY <1>t DEF AppendToLog, TransactionsTypeOK
  <1>b. b.pid = p /\ b.epoch = call.epoch /\ b.seq = call.seq /\ b.txn = call.txn
    OBVIOUS
  <1>2. /\ \A q \in ProducerIds : Of(q)' = IF q = p THEN Of(q) \cup {n} ELSE Of(q)
        /\ \A q \in ProducerIds : Counted(q)' = IF q = p THEN Counted(q) \cup {n} ELSE Counted(q)
    <2>1. \A q \in ProducerIds : Of(q)' = IF q = p THEN Of(q) \cup {n} ELSE Of(q)
      BY <1>t, <1>1, <1>b DEF Of
    <2>2. n > trimmed
      BY <1>t
    <2> QED BY <1>u, <2>1, <2>2 DEF Counted
  <1>3. CallOrdered /\ \A q \in ProducerIds : \A i \in Of(q) : i \in Nat /\ i < n /\ batches'[i] = batches[i]
    BY <1>t, <1>0, <1>1, SequenceFacts DEF Of
  <1> HIDE DEF b, n
  <1>n. n \in Nat /\ n = Len(batches')
    BY <1>t, <1>1 DEF n
  <1>4. \A i \in Counted(p) : Earlier(i, call.epoch, call.seq)
    BY <1>g, <1>3 DEF CallOrdered
  <1>5. LogOrdered'
    <2> SUFFICES ASSUME NEW q \in ProducerIds, NEW i \in Counted(q)', NEW j \in Counted(q)', i < j
                 PROVE  Earlier(i, batches[j].epoch, batches[j].seq)'
      BY DEF LogOrdered
    <2>1. i \in Counted(q)
      BY <1>2, <1>3, <1>n DEF Counted
    <2>2. CASE j \in Counted(q)
      <3>1. Earlier(i, batches[j].epoch, batches[j].seq)
        BY <2>1, <2>2, SequenceFacts DEF LogOrdered
      <3> QED BY <1>3, <2>1, <2>2, <3>1 DEF Earlier, Counted
    <2>3. CASE q = p /\ j = n
      BY <1>1, <1>3, <1>4, <1>b, <2>1, <2>3 DEF Earlier, Counted
    <2> QED BY <1>2, <2>2, <2>3
  <1>6. EpochsBounded'
    <2> SUFFICES ASSUME NEW q \in ProducerIds, NEW i \in Of(q)'
                 PROVE  batches'[i].epoch <= Producer(q).epoch
      BY <1>u DEF EpochsBounded, Producer
    <2>1. CASE i \in Of(q)
      BY <1>3, <2>1, SequenceFacts DEF EpochsBounded
    <2>2. CASE q = p /\ i = n
      BY <1>1, <1>3, <1>g, <1>b, <2>2 DEF CallOrdered
    <2> QED BY <1>2, <2>1, <2>2
  <1>7. \A q \in ProducerIds : MemoryCovers(q)'
    <2> SUFFICES ASSUME NEW q \in ProducerIds, Caught(q), NEW i \in Counted(q)'
                 PROVE  Covers(Producer(q), i)' \/ Appended(i)'
      BY <1>u DEF MemoryCovers, Caught
    <2>1. CASE i \in Counted(q)
      <3>1. Covers(Producer(q), i)
        BY <1>g, <2>1, SequenceFacts DEF MemoryCovers, Appended
      <3> QED BY <1>u, <1>3, <2>1, <3>1 DEF Covers, Producer, Counted
    <2>2. CASE i = n
      BY <1>c, <1>n, <2>2 DEF Appended
    <2> QED BY <1>2, <2>1, <2>2
  <1>8. \A q \in ProducerIds : FileCovers(q)'
    <2> SUFFICES ASSUME NEW q \in ProducerIds, q \notin lost \cup skipped, NEW i \in Of(q)', i <= trimmed
                 PROVE  Covers(Saved(q), i)'
      BY <1>u DEF FileCovers
    <2>1. i \in Of(q)
      BY <1>2, <1>t DEF n
    <2> QED BY <1>u, <1>3, <2>1, SequenceFacts DEF FileCovers, Covers, Saved
  <1>9. \A q \in ProducerIds : PendingSound(q)'
    BY <1>g, <1>u, <1>c, SequenceFacts DEF PendingSound, Caught, Producer
  <1>10. CallOrdered'
    <2>1. /\ call.epoch <= Producer(p).epoch
          /\ call.epoch = Producer(p).epoch => Producer(p).pend = call.seq /\ Producer(p).last < call.seq
      BY <1>g, <1>3 DEF CallOrdered
    <2>2. trimmed < Len(batches')
      BY <1>t, <1>n DEF n
    <2> QED BY <1>u, <1>c, <1>1, <1>b, <1>n, <2>1, <2>2 DEF CallOrdered, Producer
  <1> QED BY <1>5, <1>6, <1>7, <1>8, <1>9, <1>10 DEF SequenceInv

\* cancel_append() takes the pending mark with it.
LEMMA CancelFacts ==
    ASSUME TransactionsInv, call # NoCall, CancelAppend(call.pid, call.epoch, call.seq)
    PROVE  /\ shards' \in [ProducerIds -> TransactionShard] /\ file' = file
           /\ \A q \in ProducerIds \ {call.pid} : shards'[q] = shards[q]
           /\ shards'[call.pid].aborted = shards[call.pid].aborted
           /\ shards'[call.pid].producer = [Producer(call.pid) EXCEPT !.pend = shards'[call.pid].producer.pend]
           /\ shards'[call.pid].producer \in ProducerState
           /\ \/ dirty' = dirty /\ shards' = shards
              \/ dirty' = dirty \cup {call.pid}
           /\ Producer(call.pid).epoch = call.epoch => shards'[call.pid].producer.pend = None
           /\ Producer(call.pid).epoch # call.epoch => shards' = shards
  <1> DEFINE p == call.pid
             np == [Producer(p) EXCEPT !.pend = None]
  <1>t. TransactionsTypeOK /\ p \in ProducerIds /\ Producer(p) \in ProducerState
    BY CallFacts, TypeFacts DEF TransactionsInv
  <1>1. CASE Known(p, call.epoch) /\ Producer(p).pend = call.seq
    <2>1. Remember(p, np)
      BY <1>1 DEF CancelAppend
    <2>2. np \in ProducerState
      BY <1>t, ProducerUpdates
    <2>3. np.pend = None
      BY <1>t DEF ProducerState
    <2> HIDE DEF np
    <2>4. /\ shards' \in [ProducerIds -> TransactionShard] /\ file' = file /\ dirty' = dirty \cup {p}
          /\ shards'[p].producer = np /\ shards'[p].aborted = shards[p].aborted
          /\ \A q \in ProducerIds \ {p} : shards'[q] = shards[q]
      BY <1>t, <2>1, <2>2, RememberFacts
    <2> QED BY <1>1, <2>2, <2>3, <2>4 DEF Known, np
  <1>2. CASE ~(Known(p, call.epoch) /\ Producer(p).pend = call.seq)
    <2>1. UNCHANGED <<shards, file, dirty>>
      BY <1>2 DEF CancelAppend
    <2>2. Producer(p).epoch # call.epoch
      BY <1>2, SequenceFacts, <1>t DEF Known, CallOrdered
    <2>3. [Producer(p) EXCEPT !.pend = Producer(p).pend] = Producer(p)
      BY <1>t DEF ProducerState
    <2> QED BY <1>t, <2>1, <2>2, <2>3 DEF TransactionsTypeOK, Producer
  <1> QED BY <1>1, <1>2

\* A failed append gives its reserved sequence back.
LEMMA AppendToLogFailsSequences ==
    ASSUME TransactionsInv, AppendToLogFails
    PROVE  SequenceInv'
  <1> DEFINE p == call.pid
             np == shards'[p].producer
  <1>g. call # NoCall /\ call.stage = "prepared" /\ CancelAppend(p, call.epoch, call.seq) /\ call' = NoCall
    BY DEF AppendToLogFails
  <1>u. UNCHANGED <<batches, trimmed, phase, recovered, lost, skipped>>
    BY DEF AppendToLogFails, partitionDisk, brokerState, transactionHistory, otherHistory
  <1>t. TransactionsTypeOK /\ p \in ProducerIds /\ Producer(p) \in ProducerState /\ call.epoch \in Nat
    BY <1>g, CallFacts, TypeFacts DEF TransactionsInv
  <1>1. /\ file' = file /\ \A q \in ProducerIds \ {p} : shards'[q] = shards[q]
        /\ np = [Producer(p) EXCEPT !.pend = np.pend] /\ np \in ProducerState
        /\ Producer(p).epoch = call.epoch => np.pend = None
        /\ Producer(p).epoch # call.epoch => shards' = shards
    BY <1>g, CancelFacts
  <1> HIDE DEF np
  <1>n. shards'[p].producer = np
    BY DEF np
  <1>2. np.epoch = Producer(p).epoch /\ np.last = Producer(p).last /\ np.last \in Int
    BY <1>t, <1>1, ProducerFacts DEF ProducerState
  <1>3. /\ LogOrdered' /\ EpochsBounded'
        /\ \A q \in ProducerIds : FileCovers(q)' /\ Of(q)' = Of(q) /\ Counted(q)' = Counted(q)
        /\ \A q \in ProducerIds : \A i \in Of(q) : Covers(Producer(q), i) => Covers(Producer(q), i)'
        /\ \A q \in ProducerIds : Caught(q)' <=> Caught(q)
    <2>1. Producer(p).last <= np.last
      BY <1>2
    <2> QED BY <1>t, <1>u, <1>n, <1>1, <1>2, <2>1, MemoryAhead
  <1>4. \A q \in ProducerIds : MemoryCovers(q)'
    <2> SUFFICES ASSUME NEW q \in ProducerIds, Caught(q), NEW i \in Counted(q)
                 PROVE  Covers(Producer(q), i)'
      BY <1>3 DEF MemoryCovers
    <2>1. Covers(Producer(q), i)
      BY <1>g, SequenceFacts DEF MemoryCovers, Appended
    <2> QED BY <1>3, <2>1 DEF Counted
  <1>5. \A q \in ProducerIds : PendingSound(q)'
    <2> SUFFICES ASSUME NEW q \in ProducerIds, Caught(q), shards'[q].producer.pend # None
                 PROVE  FALSE
      BY <1>3 DEF PendingSound, Producer
    <2>1. PendingSound(q)
      BY SequenceFacts
    <2>2. CASE q # p
      BY <1>1, <2>1, <2>2 DEF PendingSound, Producer
    <2>3. CASE q = p
      BY <1>1, <1>n, <2>1, <2>3 DEF PendingSound, Producer
    <2> QED BY <2>2, <2>3
  <1>6. CallOrdered'
    BY <1>g DEF CallOrdered
  <1> QED BY <1>3, <1>4, <1>5, <1>6 DEF SequenceInv

\* What complete_append() makes of its producer.
LEMMA CompleteFacts ==
    ASSUME TransactionsInv, CompleteAppend
    PROVE  LET p == call.pid
               np == shards'[p].producer
           IN
           /\ call # NoCall /\ call.stage = "appended" /\ call' = NoCall
           /\ p \in ProducerIds /\ shards' \in [ProducerIds -> TransactionShard] /\ np \in ProducerState
           /\ file' = file /\ \A q \in ProducerIds \ {p} : shards'[q] = shards[q]
           /\ shards'[p].aborted = shards[p].aborted
           /\ np.epoch = Producer(p).epoch /\ np.status = Producer(p).status /\ np.txn = Producer(p).txn
           /\ np.offsets = Producer(p).offsets
           /\ Producer(p).epoch = call.epoch =>
                /\ np = Sequenced(Producer(p), call.seq, Len(batches)) /\ dirty' = dirty \cup {p}
                /\ np.pend = None /\ np.last = call.seq /\ np.off = Len(batches)
                /\ np.first = IF Producer(p).first = 0 THEN Len(batches) ELSE Producer(p).first
           /\ Producer(p).epoch # call.epoch => UNCHANGED <<shards, dirty>>
  <1> DEFINE p == call.pid
             sq == Sequenced(Producer(p), call.seq, Len(batches))
  <1>g. call # NoCall /\ call.stage = "appended" /\ call' = NoCall
    BY DEF CompleteAppend
  <1>t. TransactionsTypeOK /\ p \in ProducerIds /\ Producer(p) \in ProducerState /\ call \in Call
        /\ Len(batches) \in LogOffsets /\ call.seq \in LogOffsets
    BY <1>g, CallFacts, TypeFacts DEF TransactionsInv, LogOffsets, Call
  <1>1. Producer(p).epoch = call.epoch => Producer(p).pend = call.seq
    BY <1>g, <1>t, SequenceFacts DEF CallOrdered
  <1>2. /\ sq \in ProducerState
        /\ sq.pend = None /\ sq.last = call.seq /\ sq.off = Len(batches)
        /\ sq.first = IF Producer(p).first = 0 THEN Len(batches) ELSE Producer(p).first
        /\ sq.epoch = Producer(p).epoch /\ sq.status = Producer(p).status /\ sq.txn = Producer(p).txn
        /\ sq.offsets = Producer(p).offsets
    <2>1. sq \in ProducerState
      BY <1>t, ProducerUpdates
    <2> QED BY <1>t, <2>1 DEF Sequenced, ProducerState
  <1>3. CASE Producer(p).epoch = call.epoch
    <2>1. Remember(p, sq)
      BY <1>1, <1>3 DEF CompleteAppend, Known
    <2> HIDE DEF sq
    <2>2. /\ shards' \in [ProducerIds -> TransactionShard] /\ file' = file /\ dirty' = dirty \cup {p}
          /\ shards'[p].producer = sq /\ shards'[p].aborted = shards[p].aborted
          /\ \A q \in ProducerIds \ {p} : shards'[q] = shards[q]
      BY <1>t, <1>2, <2>1, RememberFacts
    <2> QED BY <1>g, <1>t, <1>2, <1>3, <2>2 DEF sq
  <1>4. CASE Producer(p).epoch # call.epoch
    <2>1. UNCHANGED <<shards, file, dirty>>
      BY <1>4 DEF CompleteAppend, Known
    <2> QED BY <1>g, <1>t, <1>4, <2>1 DEF TransactionsTypeOK, Producer
  <1> QED BY <1>3, <1>4

\* complete_append() moves the last sequence with the batch that was appended.
LEMMA CompleteAppendSequences ==
    ASSUME TransactionsInv, CompleteAppend
    PROVE  SequenceInv'
  <1> DEFINE p == call.pid
             np == shards'[p].producer
  <1>u. UNCHANGED <<batches, trimmed, phase, recovered, lost, skipped>>
    BY DEF CompleteAppend, partitionDisk, brokerState, transactionHistory, otherHistory
  <1>1. /\ call # NoCall /\ call.stage = "appended" /\ call' = NoCall /\ p \in ProducerIds
        /\ np \in ProducerState /\ np.epoch = Producer(p).epoch
        /\ file' = file /\ \A q \in ProducerIds \ {p} : shards'[q] = shards[q]
        /\ Producer(p).epoch = call.epoch => np.pend = None /\ np.last = call.seq
        /\ Producer(p).epoch # call.epoch => shards' = shards
    BY CompleteFacts
  <1>t. TransactionsTypeOK /\ Producer(p) \in ProducerState /\ call.epoch \in Nat /\ call.seq \in Nat
        /\ Producer(p).last \in Int /\ Producer(p).epoch \in Int /\ CallOrdered
    BY <1>1, CallFacts, TypeFacts, ProducerFacts, SequenceFacts
  <1> HIDE DEF np
  <1>n. shards'[p].producer = np
    BY DEF np
  <1>2. Producer(p).last <= np.last
    BY <1>1, <1>t, <1>n DEF CallOrdered, Producer
  <1>3. /\ LogOrdered' /\ EpochsBounded'
        /\ \A q \in ProducerIds : FileCovers(q)' /\ Of(q)' = Of(q) /\ Counted(q)' = Counted(q)
        /\ \A q \in ProducerIds : \A i \in Of(q) : Covers(Producer(q), i) => Covers(Producer(q), i)'
        /\ \A q \in ProducerIds : Caught(q)' <=> Caught(q)
    BY <1>u, <1>1, <1>2, <1>n, MemoryAhead
  <1>4. \A q \in ProducerIds : MemoryCovers(q)'
    <2> SUFFICES ASSUME NEW q \in ProducerIds, Caught(q), NEW i \in Counted(q)
                 PROVE  Covers(Producer(q), i)'
      BY <1>3 DEF MemoryCovers
    <2>1. Covers(Producer(q), i) \/ Appended(i)
      BY SequenceFacts DEF MemoryCovers
    <2>2. CASE Appended(i)
      <3>1. batches[i].epoch = call.epoch /\ batches[i].seq = call.seq /\ batches[i].pid = p
        BY <1>1, <1>t, <2>2 DEF Appended, CallOrdered
      <3>2. q = p
        BY <3>1 DEF Counted, Of
      <3>3. call.epoch <= Producer(p).epoch
        BY <1>1, <1>t DEF CallOrdered
      <3> QED BY <1>u, <1>1, <1>t, <1>n, <3>1, <3>2, <3>3 DEF Covers, Producer
    <2> QED BY <1>3, <2>1, <2>2 DEF Counted
  <1>5. \A q \in ProducerIds : PendingSound(q)'
    <2> SUFFICES ASSUME NEW q \in ProducerIds, Caught(q), shards'[q].producer.pend # None
                 PROVE  FALSE
      BY <1>3 DEF PendingSound, Producer
    <2>1. PendingSound(q)
      BY SequenceFacts
    <2>2. CASE q # p
      BY <1>1, <2>1, <2>2 DEF PendingSound, Producer
    <2>3. CASE q = p
      BY <1>1, <1>n, <2>1, <2>3 DEF PendingSound, Producer
    <2> QED BY <2>2, <2>3
  <1>6. CallOrdered'
    BY <1>1 DEF CallOrdered
  <1> QED BY <1>3, <1>4, <1>5, <1>6 DEF SequenceInv

\* flush_dirty() writes a shard.
LEMMA FlushWriteSequences ==
    ASSUME TransactionsInv, NEW p \in ProducerIds, FlushWrite(p)
    PROVE  SequenceInv'
  <1>u. UNCHANGED <<shards, batches, trimmed, call, phase, recovered, lost>>
    BY DEF FlushWrite, partitionDisk
  <1>t. TransactionsTypeOK /\ trimmed \in Nat /\ Len(batches) \in Nat
    BY TypeFacts DEF TransactionsInv
  <1>1. file'[p] = shards[p] /\ skipped' = skipped \ {p} /\ \A q \in ProducerIds \ {p} : file'[q] = file[q]
    BY <1>t DEF FlushWrite, TransactionsTypeOK
  <1>2. phase = "serving"
    BY <1>t, SequenceFacts DEF FlushWrite, Recovering, TransactionsTypeOK
  <1>3. \A q \in ProducerIds : FileCovers(q)'
    <2> SUFFICES ASSUME NEW q \in ProducerIds, q \notin lost \cup skipped', NEW i \in Of(q), i <= trimmed
                 PROVE  Covers(Saved(q), i)'
      BY <1>u DEF FileCovers, Of
    <2>1. CASE q = p
      <3>1. i \in Counted(q) /\ i \in Nat
        BY DEF Counted, Of
      <3>2. CallOrdered
        BY SequenceFacts
      <3>3. Covers(Producer(q), i) \/ Appended(i)
        BY <1>2, <3>1, SequenceFacts DEF MemoryCovers, Caught
      <3>4. ~Appended(i)
        BY <1>t, <3>1, <3>2 DEF Appended, CallOrdered
      <3> QED BY <1>u, <1>1, <2>1, <3>3, <3>4 DEF Covers, Producer, Saved
    <2>2. CASE q # p
      BY <1>u, <1>1, <2>2, SequenceFacts DEF FileCovers, Covers, Saved
    <2> QED BY <2>1, <2>2
  <1>4. LogOrdered' /\ EpochsBounded' /\ CallOrdered' /\ \A q \in ProducerIds : MemoryCovers(q)' /\ PendingSound(q)'
    BY <1>u DEF TransactionsInv, SequenceInv, LogOrdered, EpochsBounded, CallOrdered, MemoryCovers,
                PendingSound, Of, Counted, Earlier, Covers, Caught, Appended, Producer
  <1> QED BY <1>3, <1>4 DEF SequenceInv

\* Retention reclaims only what the files know of, unless a flush is under way.
LEMMA RetainSequences ==
    ASSUME TransactionsInv, NEW start \in 1 .. MaxLog, Retain(start)
    PROVE  SequenceInv'
  <1>u. UNCHANGED <<shards, batches, call, phase, recovered, lost>>
    BY DEF Retain, brokerState
  <1>g. /\ phase = "serving" /\ call = NoCall /\ start \in trimmed + 1 .. Len(batches) /\ trimmed' = start
        /\ file' = Flushed /\ skipped' = skipped \cup (flushTaken \ dirty)
    BY DEF Retain
  <1>t. TransactionsTypeOK /\ trimmed \in Nat /\ Len(batches) \in Nat
    BY TypeFacts DEF TransactionsInv
  <1>1. \A q \in ProducerIds : Of(q)' = Of(q) /\ Counted(q)' \subseteq Counted(q)
    BY <1>u, <1>g, <1>t DEF Of, Counted
  <1>2. \A q \in ProducerIds : FileCovers(q)'
    <2> SUFFICES ASSUME NEW q \in ProducerIds, q \notin lost \cup skipped', NEW i \in Of(q)
                 PROVE  Covers(Saved(q), i)'
      BY <1>u, <1>1 DEF FileCovers
    <2>1. Covers(Producer(q), i)
      <3>1. i \in Counted(q)
        BY DEF Counted
      <3> QED BY <1>g, <3>1, QuietCovered DEF Caught
    <2>2. file'[q] = shards[q]
      <3>1. file'[q] = IF q \in dirty THEN shards[q] ELSE file[q]
        BY <1>g DEF Flushed
      <3>2. q \in dirty \/ q \notin flushTaken
        BY <1>g
      <3> QED BY <3>1, <3>2, SequenceFacts DEF SamePersisted
    <2> QED BY <1>u, <2>1, <2>2 DEF Covers, Saved, Producer
  <1>3. LogOrdered'
    <2> SUFFICES ASSUME NEW q \in ProducerIds, NEW i \in Counted(q)', NEW j \in Counted(q)', i < j
                 PROVE  Earlier(i, batches[j].epoch, batches[j].seq)
      BY <1>u DEF LogOrdered, Earlier
    <2>1. i \in Counted(q) /\ j \in Counted(q)
      BY <1>1
    <2> QED BY <2>1, SequenceFacts DEF LogOrdered
  <1>4. EpochsBounded'
    <2> SUFFICES ASSUME NEW q \in ProducerIds, NEW i \in Of(q)
                 PROVE  batches[i].epoch <= Producer(q).epoch
      BY <1>u, <1>1 DEF EpochsBounded, Producer
    <2> QED BY SequenceFacts DEF EpochsBounded
  <1>5. \A q \in ProducerIds : MemoryCovers(q)'
    <2> SUFFICES ASSUME NEW q \in ProducerIds, NEW i \in Counted(q)'
                 PROVE  Covers(Producer(q), i)'
      BY DEF MemoryCovers
    <2>1. i \in Counted(q)
      BY <1>1
    <2> QED BY <1>u, <1>g, <2>1, QuietCovered DEF Caught, Covers, Producer
  <1>6. CallOrdered'
    BY <1>u, <1>g DEF CallOrdered
  <1>7. \A q \in ProducerIds : PendingSound(q)'
    <2> SUFFICES ASSUME NEW q \in ProducerIds
                 PROVE  PendingSound(q)'
      OBVIOUS
    <2>1. PendingSound(q)
      BY SequenceFacts
    <2> QED BY <1>u, <2>1 DEF PendingSound, Caught, Producer
  <1> QED BY <1>2, <1>3, <1>4, <1>5, <1>6, <1>7 DEF SequenceInv

-----------------------------------------------------------------------------
(* Restart *)

\* A nonempty set of naturals has a least element.
LEMMA LeastOfNaturals ==
    ASSUME NEW T \in SUBSET Nat, T # {}
    PROVE  \E m \in T : \A n \in T : m <= n
  <1>1. PICK m \in T : \A n \in T : ~(<<n, m>> \in OpToRel(<, Nat))
    BY NatLessThanWellFounded, WFMin
  <1>2. \A n \in T : ~(n < m)
    BY <1>1 DEF OpToRel
  <1> QED BY <1>2

\* Min() of a nonempty set of offsets.
LEMMA MinIsLeast ==
    ASSUME NEW S \in SUBSET Nat, S # {}
    PROVE  Min(S) \in S /\ \A x \in S : Min(S) <= x
  <1>1. \E m \in S : \A n \in S : m <= n
    BY LeastOfNaturals
  <1> QED BY <1>1 DEF Min

\* Max() of a nonempty set of offsets of the log.
LEMMA MaxIsGreatest ==
    ASSUME NEW n \in Nat, NEW S \in SUBSET (0 .. n), S # {}
    PROVE  Max(S) \in S /\ \A x \in S : x <= Max(S)
  <1> DEFINE T == {m \in Nat : \A x \in S : x <= m}
  <1>0. S \subseteq Nat /\ \A x \in S : x <= n
    OBVIOUS
  <1>1. T \in SUBSET Nat /\ T # {}
    BY <1>0
  <1>2. PICK m \in T : \A k \in T : m <= k
    BY <1>1, LeastOfNaturals
  <1>3. m \in S
    <2>1. SUFFICES ASSUME m \notin S
                   PROVE  FALSE
      OBVIOUS
    <2>2. \A x \in S : x < m
      BY <1>0, <1>2, <2>1
    <2>3. m # 0
      <3>1. PICK x \in S : TRUE
        OBVIOUS
      <3> QED BY <1>0, <2>2, <3>1
    <2>4. m - 1 \in T
      BY <1>0, <1>2, <2>2, <2>3
    <2> QED BY <1>2, <2>4
  <1>4. \E x \in S : \A y \in S : x >= y
    BY <1>0, <1>2, <1>3
  <1>5. Max(S) \in S /\ \A y \in S : Max(S) >= y
    BY <1>4 DEF Max
  <1> QED BY <1>0, <1>5

\* A crash cuts the log, never below the watermark.
LEMMA CrashFacts ==
    ASSUME TransactionsInv, BrokerCrash
    PROVE  \E n \in stable .. Len(batches) :
             /\ n \in Nat /\ trimmed <= n /\ n <= Len(batches)
             /\ batches' \in Seq(Batch) /\ Len(batches') = n /\ stable' = n
             /\ \A i \in 1 .. n : batches'[i] = batches[i]
             /\ leaked' = leaked \cup {<<p, file[p].producer.txn>> : p \in Ahead(n)}
             /\ \A q \in ProducerIds : /\ Of(q)' \subseteq Of(q) /\ Counted(q)' \subseteq Counted(q)
                                       /\ \A i \in Of(q)' : batches'[i] = batches[i] /\ i <= n
  <1>t. TransactionsTypeOK /\ Len(batches) \in Nat /\ stable \in Nat /\ trimmed \in Nat /\ trimmed <= stable
        /\ batches \in Seq(Batch)
    BY TypeFacts DEF TransactionsInv, TransactionsTypeOK
  <1>1. PICK n \in stable .. Len(batches) : /\ batches' = SubSeq(batches, 1, n) /\ stable' = n
                                            /\ leaked' = leaked \cup {<<p, file[p].producer.txn>> : p \in Ahead(n)}
    BY DEF BrokerCrash
  <1>2. n \in Nat /\ trimmed <= n /\ n <= Len(batches)
    BY <1>t
  <1>3. batches' \in Seq(Batch) /\ Len(batches') = n /\ \A i \in 1 .. n : batches'[i] = batches[i]
    BY <1>t, <1>1, <1>2
  <1>u. trimmed' = trimmed /\ lost' = lost \cup skipped
    BY DEF BrokerCrash
  <1>4. \A q \in ProducerIds : /\ Of(q)' \subseteq Of(q) /\ \A i \in Of(q)' : batches'[i] = batches[i] /\ i <= n
    BY <1>t, <1>2, <1>3 DEF Of
  <1>5. \A q \in ProducerIds : Counted(q)' \subseteq Counted(q)
    BY <1>u, <1>4 DEF Counted
  <1> QED BY <1>1, <1>2, <1>3, <1>4, <1>5

\* After a crash the persisted sequences and the scanned log still agree.
LEMMA CrashSequences ==
    ASSUME TransactionsInv, BrokerCrash
    PROVE  SequenceInv'
  <1>1. \A q \in ProducerIds : /\ Of(q)' \subseteq Of(q) /\ Counted(q)' \subseteq Counted(q)
                               /\ \A i \in Of(q)' : batches'[i] = batches[i]
    BY CrashFacts
  <1>u. /\ shards' = file /\ file' = file /\ call' = NoCall /\ phase' = "recovering" /\ recovered' = {}
        /\ lost' = lost \cup skipped /\ skipped' = {} /\ trimmed' = trimmed
    BY DEF BrokerCrash
  <1>2. LogOrdered'
    <2> SUFFICES ASSUME NEW q \in ProducerIds, NEW i \in Counted(q)', NEW j \in Counted(q)', i < j
                 PROVE  Earlier(i, batches[j].epoch, batches[j].seq)'
      BY DEF LogOrdered
    <2>1. i \in Counted(q) /\ j \in Counted(q) /\ i \in Of(q)' /\ j \in Of(q)'
      BY <1>1 DEF Counted
    <2>2. Earlier(i, batches[j].epoch, batches[j].seq)
      BY <2>1, SequenceFacts DEF LogOrdered
    <2> QED BY <1>1, <2>1, <2>2 DEF Earlier
  <1>3. EpochsBounded'
    <2> SUFFICES ASSUME NEW q \in ProducerIds, NEW i \in Of(q)'
                 PROVE  batches'[i].epoch <= file[q].producer.epoch
      BY <1>u DEF EpochsBounded, Producer
    <2>1. SamePersisted(q) /\ EpochsBounded
      BY SequenceFacts
    <2> QED BY <1>1, <2>1 DEF EpochsBounded, SamePersisted, Saved
  <1>4. CallOrdered' /\ \A q \in ProducerIds : MemoryCovers(q)' /\ PendingSound(q)'
    BY <1>u DEF CallOrdered, MemoryCovers, PendingSound, Caught
  <1>5. \A q \in ProducerIds : FileCovers(q)'
    <2> SUFFICES ASSUME NEW q \in ProducerIds, q \notin lost \cup skipped, NEW i \in Of(q)', i <= trimmed
                 PROVE  Covers(Saved(q), i)'
      BY <1>u DEF FileCovers
    <2>1. i \in Of(q) /\ batches'[i] = batches[i]
      BY <1>1
    <2>2. Covers(Saved(q), i)
      BY <2>1, SequenceFacts DEF FileCovers
    <2> QED BY <1>u, <2>1, <2>2 DEF Covers, Saved
  <1> QED BY <1>2, <1>3, <1>4, <1>5 DEF SequenceInv

\* The log scan leaves a producer that is past every batch of its epoch in the
\* log, and that has nothing pending.
LEMMA RecoveredFacts ==
    ASSUME TransactionsInv, NEW p \in ProducerIds
    PROVE  LET old == Producer(p)
               np == Recovered(old, Replayed(p))
           IN
           /\ np \in ProducerState /\ np.epoch = old.epoch /\ np.status = old.status /\ np.txn = old.txn
           /\ np.offsets = old.offsets /\ np.pend = None /\ old.last <= np.last
           /\ \A i \in Scanned(p) : batches[i].seq <= np.last
           /\ \A i \in Scanned(p) : i \in Replayed(p) => i <= np.off
           /\ Replayed(p) # {} => np.off \in Replayed(p)
           /\ Replayed(p) = {} => np.off = old.off /\ np.last = old.last
           /\ np.first = old.first \/ np.first \in Replayed(p)
           /\ old.first # 0 => np.first = old.first
           /\ old.status = "Ongoing" => \A i \in Replayed(p) : 0 < np.first /\ (old.first = 0 => np.first <= i)
           /\ \A i \in Scanned(p) : old.last <= batches[i].seq => i \in Replayed(p)
  <1> DEFINE old == Producer(p)
             R == Replayed(p)
             np == Recovered(old, R)
  <1>t. TransactionsTypeOK /\ Len(batches) \in Nat /\ trimmed \in Nat /\ MaxLog \in Nat /\ Len(batches) <= MaxLog
    BY TypeFacts DEF TransactionsInv
  <1>0. old \in ProducerState /\ old.last \in Int /\ old.epoch \in Int /\ old.first \in Nat
    BY <1>t, TypeFacts, ProducerFacts
  <1>1. Scanned(p) \subseteq 1 .. Len(batches) /\ R \subseteq Scanned(p)
        /\ \A i \in Scanned(p) : trimmed < i /\ i \in Counted(p) /\ batches[i].epoch = old.epoch
                                 /\ i \in Nat /\ i \in LogOffsets /\ i > 0
                                 /\ batches[i].seq \in Nat /\ batches[i].seq \in LogOffsets
    <2>1. Scanned(p) \subseteq 1 .. Len(batches) /\ R \subseteq Scanned(p)
      BY <1>t DEF Scanned, Replayed
    <2>2. \A i \in Scanned(p) : trimmed < i /\ i \in Counted(p) /\ batches[i].epoch = old.epoch
      BY <1>t, <2>1 DEF Scanned, Counted, Of
    <2>3. \A i \in 1 .. Len(batches) : batches[i].seq \in LogOffsets /\ batches[i].seq \in Nat
      BY <1>t, TypeFacts DEF Batch, LogOffsets
    <2>4. \A i \in 1 .. Len(batches) : i \in LogOffsets /\ i \in Nat /\ i > 0
      BY <1>t DEF LogOffsets
    <2> QED BY <2>1, <2>2, <2>3, <2>4
  <1>2. \A i, j \in Scanned(p) : i < j => batches[i].seq < batches[j].seq
    <2> SUFFICES ASSUME NEW i \in Scanned(p), NEW j \in Scanned(p), i < j
                 PROVE  batches[i].seq < batches[j].seq
      OBVIOUS
    <2>1. i \in Counted(p) /\ j \in Counted(p)
      BY <1>1
    <2>2. Earlier(i, batches[j].epoch, batches[j].seq)
      BY <2>1, SequenceFacts DEF LogOrdered
    <2> QED BY <1>0, <1>1, <2>2 DEF Earlier
  <1>3. \A i \in Scanned(p) : old.last <= batches[i].seq => i \in R
    BY <1>0, <1>1, <1>2 DEF Replayed
  <1>4. CASE R = {}
    <2>1. np = [old EXCEPT !.pend = None]
      BY <1>4 DEF Recovered
    <2>2. np \in ProducerState /\ np.pend = None /\ np.epoch = old.epoch /\ np.status = old.status /\ np.txn = old.txn
          /\ np.offsets = old.offsets /\ np.last = old.last /\ np.off = old.off /\ np.first = old.first
      <3>1. None \in LogOffsets \cup {None}
        OBVIOUS
      <3>2. np \in ProducerState
        BY <1>0, <2>1, <3>1, ProducerUpdates
      <3> HIDE DEF np, old
      <3> QED BY <1>0, <2>1, <3>2 DEF ProducerState
    <2>3. \A i \in Scanned(p) : batches[i].seq <= np.last
      BY <1>0, <1>1, <1>3, <1>4, <2>2
    <2> HIDE DEF np, R
    <2> QED BY <1>0, <1>1, <1>3, <1>4, <2>2, <2>3 DEF np, R
  <1>5. CASE R # {}
    <2> DEFINE m == Max(R)
               f == IF old.status = "Ongoing" /\ old.first = 0 THEN Min(R) ELSE old.first
    <2>1. m \in R /\ \A x \in R : x <= m
      <3>1. R \subseteq 0 .. Len(batches)
        BY <1>t, <1>1
      <3> QED BY <1>t, <1>5, <3>1, MaxIsGreatest
    <2>2. Min(R) \in R /\ \A x \in R : Min(R) <= x
      <3>1. R \subseteq Nat
        BY <1>1
      <3> QED BY <1>5, <3>1, MinIsLeast
    <2>3. np = [old EXCEPT !.pend = None, !.last = batches[m].seq, !.off = m, !.first = f]
      BY <1>5 DEF Recovered
    <2>4. m \in LogOffsets /\ batches[m].seq \in LogOffsets /\ f \in LogOffsets /\ batches[m].seq \in Nat
      BY <1>0, <1>1, <2>1, <2>2 DEF ProducerState
    <2> HIDE DEF R, m, f
    <2>5. np \in ProducerState /\ np.pend = None /\ np.epoch = old.epoch /\ np.status = old.status /\ np.txn = old.txn
          /\ np.offsets = old.offsets /\ np.last = batches[m].seq /\ np.off = m /\ np.first = f
      <3> HIDE DEF np, old
      <3> QED BY <1>0, <2>3, <2>4 DEF ProducerState
    <2>6. old.last <= batches[m].seq
      BY <2>1, <1>0, <2>4 DEF R, Replayed
    <2>7. \A i \in Scanned(p) : batches[i].seq <= batches[m].seq
      <3> SUFFICES ASSUME NEW i \in Scanned(p), ~(batches[i].seq <= batches[m].seq)
                   PROVE  FALSE
        OBVIOUS
      <3>1. batches[i].seq \in Nat /\ i \in Nat /\ m \in Nat /\ m \in Scanned(p)
        BY <1>1, <2>1 DEF R
      <3>2. i \in R
        BY <1>0, <1>3, <2>4, <2>6, <3>1
      <3>3. i <= m
        BY <2>1, <3>2
      <3> QED BY <1>2, <2>4, <3>1, <3>3
    <2>8. f = old.first \/ f \in R
      BY <2>2 DEF f
    <2>9. old.first # 0 => f = old.first
      BY DEF f
    <2>10. old.status = "Ongoing" => \A i \in R : 0 < f /\ (old.first = 0 => f <= i)
      <3>1. Min(R) > 0
        BY <1>1, <2>2 DEF R
      <3> QED BY <1>0, <2>2, <3>1 DEF f
    <2> HIDE DEF np, old
    <2> QED BY <1>3, <1>5, <2>1, <2>5, <2>6, <2>7, <2>8, <2>9, <2>10 DEF np, old, R
  <1> QED BY <1>4, <1>5

\* What recover_partition() makes of the shard of p.
LEMMA RecoverFacts ==
    ASSUME TransactionsInv, NEW p \in ProducerIds, RecoverShard(p)
    PROVE  LET np == Recovered(Producer(p), Replayed(p)) IN
           /\ phase = "recovering" /\ p \notin recovered /\ call = NoCall /\ skipped = {}
           /\ np \in ProducerState /\ shards' \in [ProducerIds -> TransactionShard] /\ file' \in [ProducerIds -> TransactionShard]
           /\ shards'[p].producer = np /\ shards'[p].aborted = shards[p].aborted /\ file'[p] = shards'[p]
           /\ \A q \in ProducerIds \ {p} : shards'[q] = shards[q] /\ file'[q] = file[q]
           /\ recovered' = recovered \cup {p} /\ UNCHANGED <<batches, trimmed, stable, call, phase>>
  <1>1. TransactionsTypeOK /\ Recovering
    BY SequenceFacts
  <1>2. phase = "recovering" /\ p \notin recovered /\ recovered' = recovered \cup {p}
        /\ PersistProducer(p, Recovered(Producer(p), Replayed(p))) /\ UNCHANGED <<batches, trimmed, stable, call, phase>>
    BY DEF RecoverShard, partitionDisk
  <1>3. Recovered(Producer(p), Replayed(p)) \in ProducerState
    BY RecoveredFacts
  <1>4. call = NoCall /\ skipped = {}
    BY <1>1, <1>2 DEF Recovering
  <1> QED BY <1>1, <1>2, <1>3, <1>4, PersistProducerFacts

\* The log scan catches the shard of p up with the log.
LEMMA RecoverShardSequences ==
    ASSUME TransactionsInv, NEW p \in ProducerIds, RecoverShard(p)
    PROVE  SequenceInv'
  <1> DEFINE np == Recovered(Producer(p), Replayed(p))
  <1>1. /\ phase = "recovering" /\ p \notin recovered /\ call = NoCall /\ skipped = {}
        /\ np \in ProducerState
        /\ shards'[p].producer = np /\ file'[p] = shards'[p]
        /\ \A q \in ProducerIds \ {p} : shards'[q] = shards[q] /\ file'[q] = file[q]
        /\ recovered' = recovered \cup {p} /\ UNCHANGED <<batches, trimmed, call, phase>>
    BY RecoverFacts
  <1>u. UNCHANGED <<lost, skipped>>
    BY DEF RecoverShard, transactionHistory, otherHistory
  <1>2. /\ np.epoch = Producer(p).epoch /\ np.pend = None /\ Producer(p).last <= np.last
        /\ \A i \in Scanned(p) : batches[i].seq <= np.last
    BY RecoveredFacts
  <1> HIDE DEF np
  <1>t. TransactionsTypeOK
    BY SequenceFacts
  <1>3. \A q \in ProducerIds : Producer(q).epoch \in Int /\ Producer(q).last \in Int
    BY <1>t, TypeFacts, ProducerFacts
  <1>4. np.epoch \in Int /\ np.last \in Int
    BY <1>1, ProducerFacts
  <1>5. /\ LogOrdered' /\ EpochsBounded' /\ \A q \in ProducerIds : Of(q)' = Of(q) /\ Counted(q)' = Counted(q)
    <2>1. \A q \in ProducerIds : shards'[q].producer.epoch \in Int /\ Producer(q).epoch <= shards'[q].producer.epoch
      BY <1>1, <1>2, <1>3, <1>4 DEF Producer
    <2> QED BY <1>1, <1>u, <2>1, LogStays
  <1>6. \A i \in Of(p) : Covers(Producer(p), i) => Covers(Producer(p), i)'
    <2> SUFFICES ASSUME NEW i \in Of(p), Covers(Producer(p), i)
                 PROVE  Covers(Producer(p), i)'
      OBVIOUS
    <2>1. batches[i].epoch \in Nat /\ batches[i].seq \in Nat
      BY <1>t, TypeFacts DEF Of
    <2> QED BY <1>1, <1>2, <1>3, <1>4, <2>1 DEF Covers, Producer
  <1>7. \A q \in ProducerIds : MemoryCovers(q)'
    <2> SUFFICES ASSUME NEW q \in ProducerIds, Caught(q)', NEW i \in Counted(q)
                 PROVE  Covers(Producer(q), i)'
      BY <1>5 DEF MemoryCovers
    <2>1. CASE q # p
      <3>1. Caught(q)
        BY <1>1, <2>1 DEF Caught
      <3>2. Covers(Producer(q), i)
        BY <1>1, <3>1, QuietCovered
      <3> QED BY <1>1, <2>1, <3>2 DEF Covers, Producer
    <2>2. CASE q = p
      <3>1. i \in Of(p) /\ i \in 1 .. Len(batches) /\ i \in Nat /\ trimmed \in Nat /\ Len(batches) \in Nat
            /\ (p \in lost => trimmed < i) /\ batches[i].epoch \in Nat /\ batches[i].pid = p
        BY <1>t, <2>2, TypeFacts DEF Counted, Of
      <3>2. CASE i <= trimmed
        <4>1. p \notin lost \cup skipped
          BY <1>1, <3>1, <3>2
        <4>2. Covers(Producer(p), i)
          BY <3>1, <3>2, <4>1, ReclaimedCovered
        <4> QED BY <1>6, <2>2, <3>1, <4>2
      <3>3. CASE trimmed < i
        <4>1. batches[i].epoch <= Producer(p).epoch
          BY <3>1, SequenceFacts DEF EpochsBounded
        <4>2. batches[i].epoch = Producer(p).epoch => i \in Scanned(p)
          BY <3>1, <3>3 DEF Scanned
        <4> QED BY <1>1, <1>2, <1>3, <2>2, <3>1, <4>1, <4>2 DEF Covers, Producer
      <3> QED BY <3>1, <3>2, <3>3
    <2> QED BY <2>1, <2>2
  <1>8. \A q \in ProducerIds : FileCovers(q)'
    <2> SUFFICES ASSUME NEW q \in ProducerIds, q \notin lost \cup skipped, NEW i \in Of(q), i <= trimmed
                 PROVE  Covers(Saved(q), i)'
      BY <1>1, <1>u, <1>5 DEF FileCovers
    <2>1. CASE q = p
      <3>1. Covers(Producer(q), i)'
        BY <1>6, <2>1, ReclaimedCovered
      <3> QED BY <1>1, <2>1, <3>1 DEF Covers, Producer, Saved
    <2>2. CASE q # p
      BY <1>1, <2>2, SequenceFacts DEF FileCovers, Covers, Saved
    <2> QED BY <2>1, <2>2
  <1>9. \A q \in ProducerIds : PendingSound(q)'
    <2> SUFFICES ASSUME NEW q \in ProducerIds
                 PROVE  PendingSound(q)'
      OBVIOUS
    <2>1. PendingSound(q)
      BY SequenceFacts
    <2> QED BY <1>1, <1>2, <2>1 DEF PendingSound, Caught, Producer
  <1>10. CallOrdered'
    BY <1>1 DEF CallOrdered
  <1> QED BY <1>5, <1>7, <1>8, <1>9, <1>10 DEF SequenceInv

\* open() returns when every shard has been compared with the log.
LEMMA ServeSequences ==
    ASSUME TransactionsInv, Serve
    PROVE  SequenceInv'
  <1>1. \A q \in ProducerIds : Caught(q)' <=> Caught(q)
    BY DEF Serve, Caught
  <1>2. UNCHANGED <<shards, file, batches, trimmed, call, lost, skipped>>
    BY DEF Serve, partitionDisk, transactionHistory, otherHistory
  <1> QED BY <1>1, <1>2 DEF TransactionsInv, SequenceInv, LogOrdered, EpochsBounded, CallOrdered, MemoryCovers, FileCovers,
         PendingSound, Of, Counted, Earlier, Covers, Appended, Producer, Saved

-----------------------------------------------------------------------------
(* Types, action by action *)

\* A step that leaves the producers' states alone but for one shard.
LEMMA TypesKept ==
    ASSUME TransactionsTypeOK, shards' \in [ProducerIds -> TransactionShard], file' \in [ProducerIds -> TransactionShard],
           dirty' \subseteq ProducerIds, flushTaken' \subseteq ProducerIds, skipped' \subseteq ProducerIds,
           UNCHANGED <<batches, trimmed, stable, groupOffset, recovered, lost, brokerRestarts, workload>>,
           phase' \in {"serving", "recovering"},
           call' \in {NoCall} \cup Call, handlers' \in [Requests -> {NoHandler} \cup Handler],
           txns' \in [ProducerIds -> 0 .. MaxTxns],
           outcome' \in [ProducerIds -> [Transactions -> {"none", "open", "committed", "aborted", "abandoned"}]],
           leaked' \subseteq ProducerIds \X (0 .. MaxTxns), owed' \subseteq ProducerIds \X Transactions
    PROVE  TransactionsTypeOK'
  BY DEF TransactionsTypeOK

\* The parts of the types that TypesKept asks for.
LEMMA TypeParts ==
    ASSUME TransactionsTypeOK
    PROVE  /\ shards \in [ProducerIds -> TransactionShard] /\ file \in [ProducerIds -> TransactionShard]
           /\ dirty \subseteq ProducerIds /\ flushTaken \subseteq ProducerIds /\ skipped \subseteq ProducerIds
           /\ phase \in {"serving", "recovering"}
           /\ call \in {NoCall} \cup Call /\ handlers \in [Requests -> {NoHandler} \cup Handler]
           /\ txns \in [ProducerIds -> 0 .. MaxTxns]
           /\ outcome \in [ProducerIds -> [Transactions -> {"none", "open", "committed", "aborted", "abandoned"}]]
           /\ leaked \subseteq ProducerIds \X (0 .. MaxTxns) /\ owed \subseteq ProducerIds \X Transactions
  BY DEF TransactionsTypeOK

\* A decision on a transaction.
LEMMA OutcomeTyped ==
    ASSUME TransactionsTypeOK, NEW p \in ProducerIds, NEW n \in Transactions,
           NEW v \in {"none", "open", "committed", "aborted", "abandoned"}
    PROVE  [outcome EXCEPT ![p][n] = v] \in
               [ProducerIds -> [Transactions -> {"none", "open", "committed", "aborted", "abandoned"}]]
  BY DEF TransactionsTypeOK

\* The open transaction is one that was begun.
LEMMA OpenBegun ==
    ASSUME TransactionsInv, NEW p \in ProducerIds, Producer(p).status = "Ongoing"
    PROVE  /\ Producer(p).txn = txns[p] /\ txns[p] \in Transactions /\ outcome[p][txns[p]] = "open"
           /\ Producer(p).txn \in 0 .. MaxTxns /\ Producer(p).txn \in Transactions
  <1>1. DecisionSound(p) /\ TransactionsTypeOK /\ txns[p] \in 0 .. MaxTxns
    BY DEF TransactionsInv, DecisionInv, TransactionsTypeOK
  <1>2. Producer(p).txn = txns[p] /\ txns[p] > 0
    BY <1>1 DEF DecisionSound
  <1>3. txns[p] \in Transactions
    BY <1>1, <1>2, TransactionsAssumption DEF Transactions
  <1> QED BY <1>1, <1>2, <1>3 DEF DecisionSound

\* What init_producer_id() leaves of the producer.
LEMMA InitProducerFacts ==
    ASSUME TransactionsInv, NEW p \in ProducerIds, InitProducer(p)
    PROVE  LET np == Fresh(Producer(p).epoch + 1) IN
           /\ np \in ProducerState /\ shards' \in [ProducerIds -> TransactionShard] /\ file' \in [ProducerIds -> TransactionShard]
           /\ dirty' = dirty
           /\ shards'[p].producer = np /\ shards'[p].aborted = shards[p].aborted /\ file'[p] = shards'[p]
           /\ \A q \in ProducerIds \ {p} : shards'[q] = shards[q] /\ file'[q] = file[q]
           /\ np.epoch = Producer(p).epoch + 1 /\ np.pend = None /\ np.status = "Ready" /\ np.offsets = {}
           /\ Producer(p).epoch < np.epoch
  <1> DEFINE np == Fresh(Producer(p).epoch + 1)
  <1>t. TransactionsTypeOK /\ workload \in Workloads /\ Producer(p) \in ProducerState /\ Producer(p).epoch \in Int
    BY TypeFacts, ProducerFacts DEF TransactionsInv, TransactionsTypeOK
  <1>1. workload[p].epochs \in 0 .. MaxProducerEpoch + 1
    BY <1>t, TransactionsAssumption
  <1>2. Producer(p).epoch + 1 < workload[p].epochs /\ PersistProducer(p, np)
    BY DEF InitProducer
  <1>3. Producer(p).epoch + 1 \in ProducerEpochs
    <2>1. Producer(p).epoch >= -1
      BY <1>t, TransactionsAssumption DEF ProducerState, ProducerEpochs, None
    <2> QED BY <1>t, <1>1, <1>2, <2>1, TransactionsAssumption DEF ProducerEpochs
  <1>4. np \in ProducerState
    BY <1>t, <1>3, ProducerUpdates
  <1>5. np.epoch = Producer(p).epoch + 1 /\ np.pend = None /\ np.status = "Ready" /\ np.offsets = {}
    BY DEF Fresh
  <1> HIDE DEF np
  <1>6. Producer(p).epoch < np.epoch
    BY <1>t, <1>5
  <1> QED BY <1>t, <1>2, <1>4, <1>5, <1>6, PersistProducerFacts DEF np

\* init_producer_id() preserves the type invariant.
LEMMA InitProducerTypes ==
    ASSUME TransactionsInv, NEW p \in ProducerIds, InitProducer(p)
    PROVE  TransactionsTypeOK'
  <1>t. TransactionsTypeOK
    BY DEF TransactionsInv
  <1>1. shards' \in [ProducerIds -> TransactionShard] /\ file' \in [ProducerIds -> TransactionShard] /\ dirty' = dirty
    BY InitProducerFacts
  <1>2. owed' \subseteq ProducerIds \X Transactions
    BY <1>t DEF InitProducer, TransactionsTypeOK
  <1>3. /\ leaked' \subseteq ProducerIds \X (0 .. MaxTxns)
        /\ outcome' \in [ProducerIds -> [Transactions -> {"none", "open", "committed", "aborted", "abandoned"}]]
    <2>1. CASE Producer(p).status = "Ongoing"
      <3>1. Producer(p).txn \in 0 .. MaxTxns /\ Producer(p).txn \in Transactions
        BY <2>1, OpenBegun
      <3>2. leaked' = leaked \cup {<<p, Producer(p).txn>>}
            /\ outcome' = [outcome EXCEPT ![p][Producer(p).txn] = "abandoned"]
        BY <2>1 DEF InitProducer
      <3> QED BY <1>t, <3>1, <3>2, OutcomeTyped, TypeParts
    <2>2. CASE Producer(p).status # "Ongoing"
      BY <1>t, <2>2, TypeParts DEF InitProducer
    <2> QED BY <2>1, <2>2
  <1> QED BY <1>t, <1>1, <1>2, <1>3, TypeParts, TypesKept
          DEF InitProducer, partitionDisk, brokerState, otherHistory

\* add_partitions(): the transaction begun or continued.
LEMMA AddPartitionsFacts ==
    ASSUME TransactionsInv, NEW p \in ProducerIds, NEW epoch \in ProducerEpochs, AddPartitions(p, epoch)
    PROVE  LET old == Producer(p)
               n == IF old.status = "Ongoing" THEN old.txn ELSE txns[p] + 1
               np == [old EXCEPT !.status = "Ongoing", !.txn = n]
           IN
           /\ n \in 0 .. MaxTxns /\ n \in Transactions
           /\ np \in ProducerState /\ shards' \in [ProducerIds -> TransactionShard] /\ file' \in [ProducerIds -> TransactionShard]
           /\ dirty' = dirty
           /\ shards'[p].producer = np /\ shards'[p].aborted = shards[p].aborted /\ file'[p] = shards'[p]
           /\ \A q \in ProducerIds \ {p} : shards'[q] = shards[q] /\ file'[q] = file[q]
           /\ np.epoch = old.epoch /\ np.last = old.last /\ np.pend = old.pend /\ np.off = old.off
           /\ np.first = old.first /\ np.offsets = old.offsets /\ np.status = "Ongoing" /\ np.txn = n
           /\ txns' = [txns EXCEPT ![p] = n] /\ outcome' = [outcome EXCEPT ![p][n] = "open"]
           /\ leaked' = IF FirstBeyondLog(old) THEN leaked \cup {<<p, n>>} ELSE leaked
  <1> DEFINE old == Producer(p)
             n == IF old.status = "Ongoing" THEN old.txn ELSE txns[p] + 1
             np == [old EXCEPT !.status = "Ongoing", !.txn = n]
  <1>t. TransactionsTypeOK /\ workload \in Workloads /\ old \in ProducerState /\ txns[p] \in 0 .. MaxTxns
    BY TypeFacts DEF TransactionsInv, TransactionsTypeOK
  <1>1. workload[p].txns \in 0 .. MaxTxns
    BY <1>t, TransactionsAssumption
  <1>2. n <= workload[p].txns /\ PersistProducer(p, np)
        /\ txns' = [txns EXCEPT ![p] = n] /\ outcome' = [outcome EXCEPT ![p][n] = "open"]
        /\ leaked' = IF FirstBeyondLog(old) THEN leaked \cup {<<p, n>>} ELSE leaked
    BY DEF AddPartitions
  <1>3. n \in 0 .. MaxTxns /\ n \in Transactions
    <2>1. CASE old.status = "Ongoing"
      BY <2>1, OpenBegun
    <2>2. CASE old.status # "Ongoing"
      BY <1>t, <1>1, <1>2, <2>2, TransactionsAssumption DEF Transactions
    <2> QED BY <2>1, <2>2
  <1> HIDE DEF n, old
  <1>4. np \in ProducerState
    BY <1>t, <1>3, ProducerUpdates
  <1>5. /\ np.epoch = old.epoch /\ np.last = old.last /\ np.pend = old.pend /\ np.off = old.off
        /\ np.first = old.first /\ np.offsets = old.offsets /\ np.status = "Ongoing" /\ np.txn = n
    BY <1>t DEF ProducerState
  <1> HIDE DEF np
  <1>6. /\ shards' \in [ProducerIds -> TransactionShard] /\ file' \in [ProducerIds -> TransactionShard] /\ dirty' = dirty
        /\ shards'[p].producer = np /\ shards'[p].aborted = shards[p].aborted /\ file'[p] = shards'[p]
        /\ \A q \in ProducerIds \ {p} : shards'[q] = shards[q] /\ file'[q] = file[q]
    BY <1>t, <1>2, <1>4, PersistProducerFacts
  <1> QED BY <1>2, <1>3, <1>4, <1>5, <1>6 DEF np, n, old

\* add_partitions_to_txn() preserves the type invariant.
LEMMA AddPartitionsTypes ==
    ASSUME TransactionsInv, NEW p \in ProducerIds, NEW epoch \in ProducerEpochs, AddPartitions(p, epoch)
    PROVE  TransactionsTypeOK'
  <1> DEFINE n == IF Producer(p).status = "Ongoing" THEN Producer(p).txn ELSE txns[p] + 1
  <1>t. TransactionsTypeOK
    BY DEF TransactionsInv
  <1>1. /\ shards' \in [ProducerIds -> TransactionShard] /\ file' \in [ProducerIds -> TransactionShard] /\ dirty' = dirty
        /\ n \in 0 .. MaxTxns /\ n \in Transactions
        /\ txns' = [txns EXCEPT ![p] = n] /\ outcome' = [outcome EXCEPT ![p][n] = "open"]
        /\ leaked' \subseteq leaked \cup {<<p, n>>}
    BY AddPartitionsFacts
  <1> HIDE DEF n
  <1>2. /\ txns' \in [ProducerIds -> 0 .. MaxTxns] /\ leaked' \subseteq ProducerIds \X (0 .. MaxTxns)
        /\ outcome' \in [ProducerIds -> [Transactions -> {"none", "open", "committed", "aborted", "abandoned"}]]
    BY <1>t, <1>1, TypeParts, OutcomeTyped
  <1> QED BY <1>t, <1>1, <1>2, TypeParts, TypesKept
          DEF AddPartitions, partitionDisk, brokerState, otherHistory

\* stage_offsets().
LEMMA StageOffsetsFacts ==
    ASSUME TransactionsInv, NEW p \in ProducerIds, NEW epoch \in ProducerEpochs, StageOffsets(p, epoch)
    PROVE  LET old == Producer(p)
               np == [old EXCEPT !.offsets = {old.txn}]
           IN
           /\ old.status = "Ongoing"
           /\ np \in ProducerState /\ shards' \in [ProducerIds -> TransactionShard] /\ file' \in [ProducerIds -> TransactionShard]
           /\ dirty' = dirty
           /\ shards'[p].producer = np /\ shards'[p].aborted = shards[p].aborted /\ file'[p] = shards'[p]
           /\ \A q \in ProducerIds \ {p} : shards'[q] = shards[q] /\ file'[q] = file[q]
           /\ np.epoch = old.epoch /\ np.last = old.last /\ np.pend = old.pend /\ np.off = old.off
           /\ np.first = old.first /\ np.offsets = {old.txn} /\ np.status = old.status /\ np.txn = old.txn
  <1> DEFINE old == Producer(p)
             np == [old EXCEPT !.offsets = {old.txn}]
  <1>t. TransactionsTypeOK /\ old \in ProducerState
    BY TypeFacts DEF TransactionsInv
  <1>1. old.status = "Ongoing" /\ PersistProducer(p, np)
    BY DEF StageOffsets
  <1>2. {old.txn} \in SUBSET Transactions
    BY <1>1, OpenBegun
  <1> HIDE DEF old
  <1>3. np \in ProducerState
    BY <1>t, <1>2, ProducerUpdates
  <1>4. /\ np.epoch = old.epoch /\ np.last = old.last /\ np.pend = old.pend /\ np.off = old.off
        /\ np.first = old.first /\ np.offsets = {old.txn} /\ np.status = old.status /\ np.txn = old.txn
    BY <1>t DEF ProducerState
  <1> HIDE DEF np
  <1>5. /\ shards' \in [ProducerIds -> TransactionShard] /\ file' \in [ProducerIds -> TransactionShard] /\ dirty' = dirty
        /\ shards'[p].producer = np /\ shards'[p].aborted = shards[p].aborted /\ file'[p] = shards'[p]
        /\ \A q \in ProducerIds \ {p} : shards'[q] = shards[q] /\ file'[q] = file[q]
    BY <1>t, <1>1, <1>3, PersistProducerFacts
  <1> QED BY <1>1, <1>3, <1>4, <1>5 DEF np, old

\* txn_offset_commit() preserves the type invariant.
LEMMA StageOffsetsTypes ==
    ASSUME TransactionsInv, NEW p \in ProducerIds, NEW epoch \in ProducerEpochs, StageOffsets(p, epoch)
    PROVE  TransactionsTypeOK'
  <1>t. TransactionsTypeOK
    BY DEF TransactionsInv
  <1>1. shards' \in [ProducerIds -> TransactionShard] /\ file' \in [ProducerIds -> TransactionShard] /\ dirty' = dirty
    BY StageOffsetsFacts
  <1>2. owed' \subseteq ProducerIds \X Transactions
    BY <1>t DEF StageOffsets, TransactionsTypeOK
  <1> QED BY <1>t, <1>1, <1>2, TypeParts, TypesKept
          DEF StageOffsets, partitionDisk, brokerState, otherHistory

\* prepare_append(): the pending mark.
LEMMA PrepareFacts ==
    ASSUME TransactionsInv, NEW p \in ProducerIds, NEW epoch \in ProducerEpochs, NEW seq \in 0 .. MaxLog,
           PrepareAppend(p, epoch, seq)
    PROVE  LET old == Producer(p)
               np == [old EXCEPT !.pend = seq]
           IN
           /\ phase = "serving" /\ call = NoCall /\ old.epoch = epoch /\ old.status = "Ongoing"
           /\ np \in ProducerState /\ shards' \in [ProducerIds -> TransactionShard] /\ file' = file
           /\ dirty' = dirty \cup {p}
           /\ shards'[p].producer = np /\ shards'[p].aborted = shards[p].aborted
           /\ \A q \in ProducerIds \ {p} : shards'[q] = shards[q]
           /\ np.epoch = old.epoch /\ np.last = old.last /\ np.off = old.off /\ np.first = old.first
           /\ np.offsets = old.offsets /\ np.status = old.status /\ np.txn = old.txn
           /\ call' \in Call /\ call' # NoCall
           /\ call'.pid = p /\ call'.epoch = epoch /\ call'.txn = old.txn /\ call'.stage = "prepared"
  <1> DEFINE old == Producer(p)
             np == [old EXCEPT !.pend = seq]
  <1>t. TransactionsTypeOK /\ old \in ProducerState /\ seq \in LogOffsets
    BY TypeFacts DEF TransactionsInv, LogOffsets
  <1>1. phase = "serving" /\ call = NoCall /\ old.epoch = epoch /\ old.status = "Ongoing" /\ Remember(p, np)
    BY DEF PrepareAppend, Known
  <1>2. call' = [stage |-> "prepared", pid |-> p, epoch |-> epoch, seq |-> seq, txn |-> old.txn]
    BY DEF PrepareAppend
  <1>3. old.txn \in Transactions
    BY <1>1, OpenBegun
  <1> HIDE DEF old
  <1>4. call' \in Call /\ call' # NoCall
        /\ call'.pid = p /\ call'.epoch = epoch /\ call'.txn = old.txn /\ call'.stage = "prepared"
    BY <1>t, <1>2, <1>3 DEF Call, NoCall
  <1>5. np \in ProducerState
    BY <1>t, ProducerUpdates
  <1>6. /\ np.epoch = old.epoch /\ np.last = old.last /\ np.off = old.off /\ np.first = old.first
        /\ np.offsets = old.offsets /\ np.status = old.status /\ np.txn = old.txn
    BY <1>t DEF ProducerState
  <1> HIDE DEF np
  <1>7. /\ shards' \in [ProducerIds -> TransactionShard] /\ file' = file /\ dirty' = dirty \cup {p}
        /\ shards'[p].producer = np /\ shards'[p].aborted = shards[p].aborted
        /\ \A q \in ProducerIds \ {p} : shards'[q] = shards[q]
    BY <1>t, <1>1, <1>5, RememberFacts
  <1> QED BY <1>1, <1>4, <1>5, <1>6, <1>7 DEF np, old

\* The types of a produce() that leaves the log alone.
LEMMA ProduceTypes ==
    ASSUME TransactionsInv,
           \/ \E p \in ProducerIds, epoch \in ProducerEpochs, seq \in 0 .. MaxLog : PrepareAppend(p, epoch, seq)
           \/ AppendToLogFails
           \/ CompleteAppend
    PROVE  TransactionsTypeOK'
  <1>t. TransactionsTypeOK
    BY DEF TransactionsInv
  <1>1. ASSUME NEW p \in ProducerIds, NEW epoch \in ProducerEpochs, NEW seq \in 0 .. MaxLog, PrepareAppend(p, epoch, seq)
        PROVE  TransactionsTypeOK'
    <2>1. shards' \in [ProducerIds -> TransactionShard] /\ file' = file /\ dirty' = dirty \cup {p} /\ call' \in Call
      BY <1>1, PrepareFacts
    <2> QED BY <1>t, <1>1, <2>1, TypeParts, TypesKept
            DEF PrepareAppend, partitionDisk, brokerState, transactionHistory, otherHistory
  <1>2. CASE AppendToLogFails
    <2>1. call # NoCall /\ CancelAppend(call.pid, call.epoch, call.seq) /\ call' = NoCall
      BY <1>2 DEF AppendToLogFails
    <2>2. call.pid \in ProducerIds
      BY <1>t, <2>1, CallFacts
    <2>3. shards' \in [ProducerIds -> TransactionShard] /\ file' = file /\ dirty' \subseteq dirty \cup {call.pid}
      BY <2>1, CancelFacts
    <2> QED BY <1>t, <1>2, <2>1, <2>2, <2>3, TypeParts, TypesKept
            DEF AppendToLogFails, partitionDisk, brokerState, transactionHistory, otherHistory
  <1>3. CASE CompleteAppend
    <2>1. call.pid \in ProducerIds /\ shards' \in [ProducerIds -> TransactionShard] /\ file' = file
          /\ dirty' \subseteq dirty \cup {call.pid} /\ call' = NoCall
      BY <1>3, CompleteFacts
    <2> QED BY <1>t, <1>3, <2>1, TypeParts, TypesKept
            DEF CompleteAppend, partitionDisk, brokerState, transactionHistory, otherHistory
  <1> QED BY <1>1, <1>2, <1>3

\* The log after an append.
LEMMA AppendFacts ==
    ASSUME TransactionsInv, AppendToLog
    PROVE  LET n == Len(batches) + 1 IN
           /\ call # NoCall /\ call.stage = "prepared" /\ call.pid \in ProducerIds
           /\ call' \in Call /\ call' # NoCall /\ call'.stage = "appended" /\ call'.pid = call.pid
           /\ call'.epoch = call.epoch /\ call'.seq = call.seq /\ call'.txn = call.txn
           /\ n \in Nat /\ n <= MaxLog /\ Len(batches') = n /\ batches' \in Seq(Batch)
           /\ batches'[n].pid = call.pid /\ batches'[n].epoch = call.epoch
           /\ batches'[n].seq = call.seq /\ batches'[n].txn = call.txn
           /\ \A i \in 1 .. Len(batches) : batches'[i] = batches[i]
           /\ \A q \in ProducerIds : Of(q)' = IF q = call.pid THEN Of(q) \cup {n} ELSE Of(q)
           /\ \A q \in ProducerIds : \A i \in Of(q) : batches'[i] = batches[i] /\ i < n
  <1> DEFINE n == Len(batches) + 1
             b == [pid |-> call.pid, epoch |-> call.epoch, seq |-> call.seq, txn |-> call.txn]
  <1>g. call # NoCall /\ call.stage = "prepared"
    BY DEF AppendToLog
  <1>t. TransactionsTypeOK /\ Len(batches) \in Nat /\ batches \in Seq(Batch) /\ MaxLog \in Nat
    BY TypeFacts DEF TransactionsInv, TransactionsTypeOK
  <1>0. call \in Call /\ call.pid \in ProducerIds
    BY <1>g, <1>t, CallFacts
  <1>1. call' \in Call /\ call' # NoCall /\ call'.stage = "appended" /\ call'.pid = call.pid
        /\ call'.epoch = call.epoch /\ call'.seq = call.seq /\ call'.txn = call.txn
    <2>1. call' = [call EXCEPT !.stage = "appended"]
      BY DEF AppendToLog
    <2> QED BY <1>0, <2>1 DEF Call, NoCall
  <1>2. b \in Batch
    BY <1>0 DEF Call, Batch
  <1>3. Len(batches) < MaxLog
    BY <1>g, <1>0, SequenceFacts DEF CallOrdered
  <1>4. batches' = Append(batches, b)
    BY DEF AppendToLog
  <1> HIDE DEF b
  <1>5. /\ Len(batches') = n /\ batches' \in Seq(Batch) /\ batches'[n] = b
        /\ \A i \in 1 .. Len(batches) : batches'[i] = batches[i]
    BY <1>t, <1>2, <1>4
  <1>6. b.pid = call.pid /\ b.epoch = call.epoch /\ b.seq = call.seq /\ b.txn = call.txn
    BY DEF b
  <1>7. \A q \in ProducerIds : Of(q)' = IF q = call.pid THEN Of(q) \cup {n} ELSE Of(q)
    BY <1>t, <1>5, <1>6 DEF Of
  <1>8. \A q \in ProducerIds : \A i \in Of(q) : batches'[i] = batches[i] /\ i < n
    BY <1>t, <1>5 DEF Of
  <1> QED BY <1>g, <1>t, <1>0, <1>1, <1>3, <1>5, <1>6, <1>7, <1>8

\* The types of the steps that move the log or its watermark.
LEMMA LogTypes ==
    ASSUME TransactionsInv, AppendToLog \/ Checkpoint \/ \E start \in 1 .. MaxLog : Retain(start)
    PROVE  TransactionsTypeOK'
  <1>t. TransactionsTypeOK /\ Len(batches) \in Nat /\ trimmed \in Nat /\ stable \in Nat
        /\ trimmed <= stable /\ stable <= Len(batches) /\ Len(batches) <= MaxLog
    BY TypeFacts DEF TransactionsInv
  <1>1. CASE AppendToLog
    <2>1. Len(batches') = Len(batches) + 1 /\ batches' \in Seq(Batch) /\ call' \in Call /\ Len(batches') <= MaxLog
      BY <1>1, AppendFacts
    <2>2. UNCHANGED <<shards, file, dirty, trimmed, stable, handlers, groupOffset, flushTaken, phase, recovered,
                      txns, outcome, leaked, owed, skipped, lost, brokerRestarts, workload>>
      BY <1>1 DEF AppendToLog, brokerState, transactionHistory, otherHistory
    <2>3. trimmed' \in 0 .. Len(batches') /\ stable' \in trimmed' .. Len(batches')
      BY <1>t, <2>1, <2>2
    <2> QED BY <1>t, <2>1, <2>2, <2>3 DEF TransactionsTypeOK
  <1>2. CASE Checkpoint
    <2>1. UNCHANGED <<shards, file, dirty, batches, trimmed, call, handlers, groupOffset, flushTaken, phase, recovered,
                      txns, outcome, leaked, owed, skipped, lost, brokerRestarts, workload>>
      BY <1>2 DEF Checkpoint, brokerState, transactionHistory, otherHistory
    <2>2. trimmed' \in 0 .. Len(batches') /\ stable' \in trimmed' .. Len(batches')
      BY <1>t, <1>2, <2>1 DEF Checkpoint
    <2> QED BY <1>t, <2>1, <2>2 DEF TransactionsTypeOK
  <1>3. ASSUME NEW start \in 1 .. MaxLog, Retain(start)
        PROVE  TransactionsTypeOK'
    <2>1. UNCHANGED <<shards, batches, call, handlers, groupOffset, flushTaken, phase, recovered,
                      txns, outcome, leaked, owed, lost, brokerRestarts, workload>>
      BY <1>3 DEF Retain, brokerState
    <2>2. trimmed' \in 0 .. Len(batches') /\ stable' \in trimmed' .. Len(batches')
      BY <1>t, <1>3, <2>1 DEF Retain
    <2>3. file' \in [ProducerIds -> TransactionShard] /\ dirty' = {} /\ skipped' \subseteq ProducerIds
      BY <1>t, <1>3 DEF Retain, Flushed, TransactionsTypeOK
    <2> QED BY <1>t, <2>1, <2>2, <2>3 DEF TransactionsTypeOK
  <1> QED BY <1>1, <1>2, <1>3

\* end_transaction() on an open transaction.
LEMMA EndOpenFacts ==
    ASSUME TransactionsInv, NEW p \in ProducerIds, NEW commit \in BOOLEAN, EndOpen(p, commit)
    PROVE  LET old == Producer(p)
               np == shards'[p].producer
           IN
           /\ old.status = "Ongoing" /\ old.txn \in Transactions /\ old.txn \in 0 .. MaxTxns
           /\ np \in ProducerState /\ shards' \in [ProducerIds -> TransactionShard] /\ file' \in [ProducerIds -> TransactionShard]
           /\ dirty' = dirty /\ file'[p] = shards'[p]
           /\ \A q \in ProducerIds \ {p} : shards'[q] = shards[q] /\ file'[q] = file[q]
           /\ np.epoch = old.epoch /\ np.last = old.last /\ np.pend = old.pend /\ np.txn = old.txn
           /\ np.status = IF commit THEN "Committed" ELSE "Aborted"
           /\ np.offsets = IF commit THEN old.offsets ELSE {}
           /\ shards'[p].aborted = shards[p].aborted \cup (IF commit THEN {} ELSE AbortedRanges(old))
           /\ outcome' = [outcome EXCEPT ![p][old.txn] = IF commit THEN "committed" ELSE "aborted"]
           /\ leaked' = IF ~commit /\ Unaccounted(p) THEN leaked \cup {<<p, old.txn>>} ELSE leaked
           /\ owed' = IF commit THEN owed \cup {<<p, n>> : n \in old.offsets} ELSE {o \in owed : o[1] # p}
  <1> DEFINE old == Producer(p)
             shard == Ended(shards[p], commit)
  <1>t. TransactionsTypeOK /\ old \in ProducerState /\ shards[p] \in TransactionShard
    BY TypeFacts DEF TransactionsInv
  <1>1. /\ old.status = "Ongoing" /\ Persist(p, shard)
        /\ outcome' = [outcome EXCEPT ![p][old.txn] = IF commit THEN "committed" ELSE "aborted"]
        /\ leaked' = IF ~commit /\ Unaccounted(p) THEN leaked \cup {<<p, old.txn>>} ELSE leaked
        /\ owed' = IF commit THEN owed \cup {<<p, n>> : n \in old.offsets} ELSE {o \in owed : o[1] # p}
    BY DEF EndOpen
  <1>2. old.txn \in Transactions /\ old.txn \in 0 .. MaxTxns
    BY <1>1, OpenBegun
  <1>3. /\ shard \in TransactionShard /\ shard.producer.epoch = old.epoch /\ shard.producer.last = old.last
        /\ shard.producer.pend = old.pend /\ shard.producer.txn = old.txn
        /\ shard.producer.status = IF commit THEN "Committed" ELSE "Aborted"
        /\ shard.producer.offsets = IF commit THEN old.offsets ELSE {}
        /\ shard.aborted = shards[p].aborted \cup (IF commit THEN {} ELSE AbortedRanges(old))
    BY <1>t, EndedFacts DEF Producer
  <1> HIDE DEF shard
  <1>4. /\ shards' \in [ProducerIds -> TransactionShard] /\ file' \in [ProducerIds -> TransactionShard] /\ dirty' = dirty
        /\ shards'[p] = shard /\ file'[p] = shard
        /\ \A q \in ProducerIds \ {p} : shards'[q] = shards[q] /\ file'[q] = file[q]
    BY <1>t, <1>1, <1>3, PersistFacts
  <1>5. shard.producer \in ProducerState
    BY <1>3 DEF TransactionShard
  <1> HIDE DEF old
  <1> QED BY <1>1, <1>2, <1>3, <1>4, <1>5 DEF old

\* The types of the history that the end of a transaction writes.
LEMMA EndOpenTypes ==
    ASSUME TransactionsInv, NEW p \in ProducerIds, NEW commit \in BOOLEAN, EndOpen(p, commit)
    PROVE  /\ leaked' \subseteq ProducerIds \X (0 .. MaxTxns) /\ owed' \subseteq ProducerIds \X Transactions
           /\ outcome' \in [ProducerIds -> [Transactions -> {"none", "open", "committed", "aborted", "abandoned"}]]
           /\ shards' \in [ProducerIds -> TransactionShard] /\ file' \in [ProducerIds -> TransactionShard] /\ dirty' \subseteq ProducerIds
  <1> DEFINE old == Producer(p)
  <1>t. TransactionsTypeOK /\ old \in ProducerState /\ old.offsets \subseteq Transactions
    BY TypeFacts, ProducerFacts DEF TransactionsInv
  <1>1. /\ old.txn \in Transactions /\ old.txn \in 0 .. MaxTxns
        /\ shards' \in [ProducerIds -> TransactionShard] /\ file' \in [ProducerIds -> TransactionShard] /\ dirty' = dirty
        /\ outcome' = [outcome EXCEPT ![p][old.txn] = IF commit THEN "committed" ELSE "aborted"]
        /\ leaked' \subseteq leaked \cup {<<p, old.txn>>}
        /\ owed' \subseteq owed \cup {<<p, n>> : n \in old.offsets}
    BY EndOpenFacts
  <1> HIDE DEF old
  <1>2. owed' \subseteq ProducerIds \X Transactions /\ leaked' \subseteq ProducerIds \X (0 .. MaxTxns)
    BY <1>t, <1>1, TypeParts
  <1>3. outcome' \in [ProducerIds -> [Transactions -> {"none", "open", "committed", "aborted", "abandoned"}]]
    BY <1>t, <1>1, OutcomeTyped
  <1> QED BY <1>t, <1>1, <1>2, <1>3, TypeParts

\* A slot taken by end_txn() or by recovery.
LEMMA HandleFacts ==
    ASSUME TransactionsTypeOK, NEW p \in ProducerIds, NEW epoch \in ProducerEpochs, NEW offsets \in SUBSET Transactions,
           Handle(p, epoch, offsets)
    PROVE  /\ handlers' \in [Requests -> {NoHandler} \cup Handler]
           /\ \A h \in Requests : \/ handlers'[h] = handlers[h]
                                  \/ /\ handlers'[h].pid = p /\ handlers'[h].offsets = offsets /\ offsets # {}
                                     /\ handlers'[h] # NoHandler
  <1>1. CASE offsets = {}
    BY <1>1, TypeParts DEF Handle
  <1>2. CASE offsets # {}
    <2> DEFINE r == [step |-> "apply", pid |-> p, epoch |-> epoch, offsets |-> offsets]
    <2>1. PICK h \in Requests : handlers' = [handlers EXCEPT ![h] = r]
      BY <1>2 DEF Handle
    <2>2. r \in Handler /\ r.pid = p /\ r.offsets = offsets /\ r # NoHandler
      BY DEF Handler, NoHandler
    <2> HIDE DEF r
    <2> QED BY <1>2, <2>1, <2>2, TypeParts
  <1> QED BY <1>1, <1>2

\* A producer that has begun a transaction has an epoch.
LEMMA EpochTyped ==
    ASSUME TransactionsInv, NEW p \in ProducerIds, Producer(p).status # "Ready"
    PROVE  Producer(p).epoch \in ProducerEpochs
  <1>1. DecisionSound(p) /\ Producer(p) \in ProducerState
    BY TypeFacts DEF TransactionsInv, DecisionInv
  <1> QED BY <1>1 DEF DecisionSound, ProducerState

\* The types of the end of a transaction.
LEMMA EndTypes ==
    ASSUME TransactionsInv,
           \/ \E p \in ProducerIds, epoch \in ProducerEpochs, commit \in BOOLEAN : EndTxn(p, epoch, commit)
           \/ \E p \in ProducerIds : ExpireTransaction(p)
    PROVE  TransactionsTypeOK'
  <1>t. TransactionsTypeOK
    BY DEF TransactionsInv
  <1>1. ASSUME NEW p \in ProducerIds, NEW epoch \in ProducerEpochs, NEW commit \in BOOLEAN, EndTxn(p, epoch, commit)
        PROVE  TransactionsTypeOK'
    <2>1. Producer(p).offsets \in SUBSET Transactions
      BY <1>t, TypeFacts, ProducerFacts
    <2>2. handlers' \in [Requests -> {NoHandler} \cup Handler]
      <3>1. CASE commit
        BY <1>t, <1>1, <2>1, <3>1, HandleFacts DEF EndTxn
      <3>2. CASE ~commit
        BY <1>t, <1>1, <3>2, TypeParts DEF EndTxn
      <3> QED BY <3>1, <3>2
    <2>3. /\ leaked' \subseteq ProducerIds \X (0 .. MaxTxns) /\ owed' \subseteq ProducerIds \X Transactions
          /\ outcome' \in [ProducerIds -> [Transactions -> {"none", "open", "committed", "aborted", "abandoned"}]]
          /\ shards' \in [ProducerIds -> TransactionShard] /\ file' \in [ProducerIds -> TransactionShard] /\ dirty' \subseteq ProducerIds
      <3>1. CASE EndOpen(p, commit)
        BY <3>1, EndOpenTypes
      <3>2. CASE UNCHANGED <<shards, file, dirty, outcome, leaked, owed>>
        BY <1>t, <3>2, TypeParts
      <3> QED BY <1>1, <3>1, <3>2 DEF EndTxn
    <2>4. UNCHANGED <<batches, trimmed, stable, call, groupOffset, flushTaken, phase, recovered, txns, skipped, lost,
                      brokerRestarts, workload>>
      BY <1>1 DEF EndTxn, partitionDisk, brokerState, otherHistory
    <2> QED BY <1>t, <2>2, <2>3, <2>4, TypeParts, TypesKept
  <1>2. ASSUME NEW p \in ProducerIds, ExpireTransaction(p)
        PROVE  TransactionsTypeOK'
    <2>1. /\ leaked' \subseteq ProducerIds \X (0 .. MaxTxns) /\ owed' \subseteq ProducerIds \X Transactions
          /\ outcome' \in [ProducerIds -> [Transactions -> {"none", "open", "committed", "aborted", "abandoned"}]]
          /\ shards' \in [ProducerIds -> TransactionShard] /\ file' \in [ProducerIds -> TransactionShard] /\ dirty' \subseteq ProducerIds
      BY <1>2, EndOpenTypes DEF ExpireTransaction
    <2>2. UNCHANGED <<batches, trimmed, stable, call, handlers, groupOffset, flushTaken, phase, recovered, txns, skipped,
                      lost, brokerRestarts, workload>>
      BY <1>2 DEF ExpireTransaction, partitionDisk, brokerState, otherHistory
    <2> QED BY <1>t, <2>1, <2>2, TypeParts, TypesKept
  <1> QED BY <1>1, <1>2

\* The offsets a handler applies are of one transaction.
LEMMA AppliedOffset ==
    ASSUME TransactionsInv, NEW h \in Requests, handlers[h] # NoHandler
    PROVE  /\ Max(handlers[h].offsets) \in handlers[h].offsets /\ handlers[h].pid \in ProducerIds
           /\ handlers[h].offsets \subseteq Transactions /\ Max(handlers[h].offsets) \in 0 .. MaxTxns
           /\ outcome[handlers[h].pid][Max(handlers[h].offsets)] = "committed"
  <1> DEFINE S == handlers[h].offsets
  <1>t. TransactionsTypeOK /\ HandlerSound(h) /\ MaxTxns \in Nat
    BY TransactionsAssumption DEF TransactionsInv, OffsetsInv
  <1>1. S # {} /\ \A n \in S : outcome[handlers[h].pid][n] = "committed"
    BY <1>t DEF HandlerSound
  <1>2. S \subseteq Transactions /\ handlers[h].pid \in ProducerIds
    BY <1>t, HandlerFacts
  <1>3. S \in SUBSET (0 .. MaxTxns)
    BY <1>t, <1>2 DEF Transactions
  <1>4. Max(S) \in S
    BY <1>t, <1>1, <1>3, MaxIsGreatest
  <1> QED BY <1>1, <1>2, <1>3, <1>4

\* mark_offsets_applied(): the producer it clears.
LEMMA MarkFacts ==
    ASSUME TransactionsInv, NEW h \in Requests, MarkApplied(h)
    PROVE  LET p == handlers[h].pid
               old == Producer(p)
               np == shards'[p].producer
           IN
           /\ p \in ProducerIds /\ handlers' = [handlers EXCEPT ![h] = NoHandler]
           /\ \/ UNCHANGED <<shards, file, dirty, owed>>
              \/ /\ old.status = "Committed"
                 /\ np \in ProducerState /\ shards' \in [ProducerIds -> TransactionShard] /\ file' \in [ProducerIds -> TransactionShard]
                 /\ dirty' = dirty /\ shards'[p].aborted = shards[p].aborted /\ file'[p] = shards'[p]
                 /\ \A q \in ProducerIds \ {p} : shards'[q] = shards[q] /\ file'[q] = file[q]
                 /\ np.epoch = old.epoch /\ np.last = old.last /\ np.pend = old.pend /\ np.off = old.off
                 /\ np.first = old.first /\ np.offsets = {} /\ np.status = old.status /\ np.txn = old.txn
                 /\ owed' = {o \in owed : o[1] # p}
  <1> DEFINE p == handlers[h].pid
             old == Producer(p)
             np == [old EXCEPT !.offsets = {}]
  <1>1. handlers[h] # NoHandler /\ handlers' = [handlers EXCEPT ![h] = NoHandler]
    BY DEF MarkApplied
  <1>t. TransactionsTypeOK
    BY DEF TransactionsInv
  <1>2. p \in ProducerIds
    BY <1>t, <1>1, HandlerFacts
  <1>3. \/ UNCHANGED <<shards, file, dirty, owed>>
        \/ /\ old.status = "Committed" /\ PersistProducer(p, np) /\ owed' = {o \in owed : o[1] # p}
    BY DEF MarkApplied
  <1>4. old \in ProducerState
    BY <1>t, <1>2, TypeFacts
  <1> HIDE DEF old, p
  <1>5. np \in ProducerState
    <2>1. {} \in SUBSET Transactions
      OBVIOUS
    <2> QED BY <1>4, <2>1, ProducerUpdates
  <1>6. /\ np.epoch = old.epoch /\ np.last = old.last /\ np.pend = old.pend /\ np.off = old.off
        /\ np.first = old.first /\ np.offsets = {} /\ np.status = old.status /\ np.txn = old.txn
    BY <1>4 DEF ProducerState
  <1> HIDE DEF np
  <1>7. CASE UNCHANGED <<shards, file, dirty, owed>>
    BY <1>1, <1>2, <1>7 DEF p
  <1>8. CASE old.status = "Committed" /\ PersistProducer(p, np) /\ owed' = {o \in owed : o[1] # p}
    <2>1. /\ shards' \in [ProducerIds -> TransactionShard] /\ file' \in [ProducerIds -> TransactionShard] /\ dirty' = dirty
          /\ shards'[p].producer = np /\ shards'[p].aborted = shards[p].aborted /\ file'[p] = shards'[p]
          /\ \A q \in ProducerIds \ {p} : shards'[q] = shards[q] /\ file'[q] = file[q]
      BY <1>t, <1>2, <1>5, <1>8, PersistProducerFacts
    <2> QED BY <1>1, <1>2, <1>5, <1>6, <1>8, <2>1 DEF p, old
  <1> QED BY <1>3, <1>7, <1>8

\* The types of the steps of a handler.
LEMMA HandlerTypes ==
    ASSUME TransactionsInv, NEW h \in Requests, ApplyOffsets(h) \/ ApplyFails(h) \/ MarkApplied(h)
    PROVE  TransactionsTypeOK'
  <1>t. TransactionsTypeOK
    BY DEF TransactionsInv
  <1>1. CASE ApplyOffsets(h)
    <2>1. handlers[h] # NoHandler
      BY <1>1 DEF ApplyOffsets
    <2>2. handlers[h] \in Handler
      BY <1>t, <2>1, HandlerFacts
    <2>3. [handlers[h] EXCEPT !.step = "mark"] \in Handler
      BY <2>2 DEF Handler
    <2>4. handlers' = [handlers EXCEPT ![h] = [handlers[h] EXCEPT !.step = "mark"]]
      BY <1>1, <1>t, TypeParts DEF ApplyOffsets
    <2>5. handlers' \in [Requests -> {NoHandler} \cup Handler]
      BY <1>t, <2>3, <2>4, TypeParts
    <2>6. groupOffset' \in [ProducerIds -> 0 .. MaxTxns]
      BY <1>t, <1>1, <2>1, AppliedOffset DEF ApplyOffsets, TransactionsTypeOK
    <2>7. owed' \subseteq ProducerIds \X Transactions
      BY <1>t, <1>1, TypeParts DEF ApplyOffsets
    <2>8. UNCHANGED <<shards, file, dirty, batches, trimmed, stable, call, flushTaken, phase, recovered, txns, outcome,
                      leaked, skipped, lost, brokerRestarts, workload>>
      BY <1>1 DEF ApplyOffsets, partitionDisk, brokerState, otherHistory
    <2> QED BY <1>t, <2>5, <2>6, <2>7, <2>8 DEF TransactionsTypeOK
  <1>2. CASE ApplyFails(h)
    <2>1. handlers' \in [Requests -> {NoHandler} \cup Handler]
      BY <1>t, <1>2, TypeParts DEF ApplyFails
    <2> QED BY <1>t, <1>2, <2>1, TypeParts, TypesKept
            DEF ApplyFails, partitionDisk, brokerState, transactionHistory, otherHistory
  <1>3. CASE MarkApplied(h)
    <2>1. handlers' = [handlers EXCEPT ![h] = NoHandler]
      BY <1>3, MarkFacts
    <2>2. handlers' \in [Requests -> {NoHandler} \cup Handler]
      BY <1>t, <2>1, TypeParts
    <2>3. /\ shards' \in [ProducerIds -> TransactionShard] /\ file' \in [ProducerIds -> TransactionShard] /\ dirty' = dirty /\ owed' \subseteq owed
      BY <1>t, <1>3, MarkFacts, TypeParts
    <2> QED BY <1>t, <1>3, <2>2, <2>3, TypeParts, TypesKept
            DEF MarkApplied, partitionDisk, brokerState, otherHistory
  <1> QED BY <1>1, <1>2, <1>3

\* The types of the flush of one shard.
LEMMA FlushTypes ==
    ASSUME TransactionsInv, NEW p \in ProducerIds, FlushTake(p) \/ FlushWrite(p)
    PROVE  TransactionsTypeOK'
  <1>t. TransactionsTypeOK
    BY DEF TransactionsInv
  <1>1. CASE FlushTake(p)
    BY <1>t, <1>1, TypeParts, TypesKept DEF FlushTake, partitionDisk, transactionHistory, otherHistory
  <1>2. CASE FlushWrite(p)
    <2>1. file' \in [ProducerIds -> TransactionShard] /\ flushTaken' = {} /\ skipped' \subseteq ProducerIds
      BY <1>t, <1>2, TypeParts DEF FlushWrite
    <2> QED BY <1>t, <1>2, <2>1, TypeParts, TypesKept DEF FlushWrite, partitionDisk
  <1> QED BY <1>1, <1>2

\* The types of a restart.
LEMMA RestartTypes ==
    ASSUME TransactionsInv,
           BrokerCrash \/ Serve \/ \E p \in ProducerIds : RecoverShard(p) \/ RecoverOffsets(p)
    PROVE  TransactionsTypeOK'
  <1>t. TransactionsTypeOK
    BY DEF TransactionsInv
  <1>1. CASE BrokerCrash
    <2>1. PICK n \in Nat : /\ trimmed <= n /\ n <= Len(batches)
                           /\ batches' \in Seq(Batch) /\ Len(batches') = n /\ stable' = n
                           /\ leaked' = leaked \cup {<<p, file[p].producer.txn>> : p \in Ahead(n)}
      BY <1>1, CrashFacts
    <2>2. /\ shards' = file /\ dirty' = {} /\ flushTaken' = {} /\ call' = NoCall
          /\ handlers' = [h \in Requests |-> NoHandler] /\ phase' = "recovering" /\ recovered' = {}
          /\ lost' = lost \cup skipped /\ skipped' = {} /\ brokerRestarts' = brokerRestarts + 1
          /\ UNCHANGED <<file, trimmed, groupOffset, txns, outcome, owed, workload>>
      BY <1>1 DEF BrokerCrash
    <2>3. leaked' \subseteq ProducerIds \X (0 .. MaxTxns)
      <3>1. \A p \in ProducerIds : file[p].producer.txn \in 0 .. MaxTxns
        BY <1>t, TypeFacts DEF Saved, ProducerState
      <3> QED BY <1>t, <2>1, <3>1, TypeParts DEF Ahead
    <2>4. Len(batches) \in Nat /\ trimmed \in Nat /\ Len(batches) <= MaxLog /\ MaxLog \in Nat
      BY <1>t, TypeFacts
    <2>5. trimmed' \in 0 .. Len(batches') /\ stable' \in trimmed' .. Len(batches') /\ Len(batches') <= MaxLog
      BY <2>1, <2>2, <2>4
    <2>6. lost' \subseteq ProducerIds /\ brokerRestarts' \in Nat
      BY <1>t, <2>2 DEF TransactionsTypeOK
    <2> QED BY <1>t, <2>1, <2>2, <2>3, <2>5, <2>6 DEF TransactionsTypeOK
  <1>2. CASE Serve
    BY <1>t, <1>2, TypeParts, TypesKept DEF Serve, partitionDisk, transactionHistory, otherHistory
  <1>3. ASSUME NEW p \in ProducerIds, RecoverShard(p)
        PROVE  TransactionsTypeOK'
    <2>1. shards' \in [ProducerIds -> TransactionShard] /\ file' \in [ProducerIds -> TransactionShard] /\ recovered' = recovered \cup {p}
      BY <1>3, RecoverFacts
    <2>2. UNCHANGED <<dirty, batches, trimmed, stable, call, handlers, groupOffset, flushTaken, phase, txns, outcome,
                      leaked, owed, skipped, lost, brokerRestarts, workload>>
      BY <1>3 DEF RecoverShard, PersistProducer, Persist, partitionDisk, transactionHistory, otherHistory
    <2> QED BY <1>t, <2>1, <2>2 DEF TransactionsTypeOK
  <1>4. ASSUME NEW p \in ProducerIds, RecoverOffsets(p)
        PROVE  TransactionsTypeOK'
    <2>1. Producer(p).status = "Committed" /\ Handle(p, Producer(p).epoch, Producer(p).offsets)
      BY <1>4 DEF RecoverOffsets
    <2>2. Producer(p).epoch \in ProducerEpochs /\ Producer(p).offsets \in SUBSET Transactions
      BY <1>t, <2>1, EpochTyped, TypeFacts, ProducerFacts
    <2>3. handlers' \in [Requests -> {NoHandler} \cup Handler]
      BY <1>t, <2>1, <2>2, HandleFacts
    <2> QED BY <1>t, <1>4, <2>3, TypeParts, TypesKept
            DEF RecoverOffsets, partitionDisk, brokerState, transactionHistory, otherHistory
  <1> QED BY <1>1, <1>2, <1>3, <1>4

-----------------------------------------------------------------------------
(* Memory and file *)

\* A step that writes the shard of p to its file.
LEMMA FilesPersisted ==
    ASSUME TransactionsInv, NEW p \in ProducerIds, shards' \in [ProducerIds -> TransactionShard], file'[p] = shards'[p],
           \A q \in ProducerIds \ {p} : shards'[q] = shards[q] /\ file'[q] = file[q],
           UNCHANGED <<dirty, flushTaken, phase, call, skipped>>
    PROVE  FileInv'
  <1>1. Recovering' /\ OneFlush'
    BY DEF TransactionsInv, FileInv, Recovering, OneFlush
  <1>2. SamePersisted(p)'
    <2>1. shards'[p].producer \in ProducerState
      BY DEF TransactionShard
    <2>2. shards'[p].producer.last \in Int
      BY <2>1, ProducerFacts
    <2> QED BY <2>2 DEF SamePersisted, Producer, Saved
  <1>3. \A q \in ProducerIds \ {p} : SamePersisted(q)'
    BY DEF TransactionsInv, FileInv, SamePersisted, Producer, Saved
  <1> QED BY <1>1, <1>2, <1>3 DEF FileInv

\* A step that leaves shards and files alone.
LEMMA FilesSame ==
    ASSUME TransactionsInv, UNCHANGED <<shards, file, dirty, flushTaken, skipped>>,
           phase' = "serving" \/ (phase' = phase /\ call' \in {NoCall, call})
    PROVE  FileInv'
  <1>1. Recovering' /\ OneFlush'
    BY DEF TransactionsInv, FileInv, Recovering, OneFlush
  <1>2. \A q \in ProducerIds : SamePersisted(q)'
    BY DEF TransactionsInv, FileInv, SamePersisted, Producer, Saved
  <1> QED BY <1>1, <1>2 DEF FileInv

\* A step of produce() that changes the sequence state of p in memory.
LEMMA FilesBehind ==
    ASSUME TransactionsInv, NEW p \in ProducerIds, shards' \in [ProducerIds -> TransactionShard], file' = file,
           dirty' = dirty \cup {p}, \A q \in ProducerIds \ {p} : shards'[q] = shards[q],
           shards'[p].aborted = shards[p].aborted,
           shards'[p].producer.epoch = Producer(p).epoch, shards'[p].producer.status = Producer(p).status,
           shards'[p].producer.txn = Producer(p).txn, shards'[p].producer.offsets = Producer(p).offsets,
           Producer(p).last <= shards'[p].producer.last,
           phase = "serving", UNCHANGED <<flushTaken, phase>>
    PROVE  FileInv'
  <1>1. Recovering' /\ OneFlush'
    BY DEF TransactionsInv, FileInv, Recovering, OneFlush
  <1>2. SamePersisted(p)'
    <2>1. shards'[p].producer \in ProducerState
      BY DEF TransactionShard
    <2>2. shards'[p].producer.last \in Int /\ Producer(p).last \in Int /\ Saved(p).last \in Int
      BY <2>1, ProducerFacts, TypeFacts DEF TransactionsInv
    <2>3. SamePersisted(p)
      BY DEF TransactionsInv, FileInv
    <2>4. Saved(p).last <= shards'[p].producer.last
      BY <2>2, <2>3 DEF SamePersisted
    <2> QED BY <2>3, <2>4 DEF SamePersisted, Producer, Saved
  <1>3. \A q \in ProducerIds \ {p} : SamePersisted(q)'
    BY DEF TransactionsInv, FileInv, SamePersisted, Producer, Saved
  <1> QED BY <1>1, <1>2, <1>3 DEF FileInv

\* produce(): only the sequence state changes, and the shard is marked.
LEMMA ProduceFiles ==
    ASSUME TransactionsInv,
           \/ \E p \in ProducerIds, epoch \in ProducerEpochs, seq \in 0 .. MaxLog : PrepareAppend(p, epoch, seq)
           \/ AppendToLogFails
           \/ CompleteAppend
           \/ AppendToLog
    PROVE  FileInv'
  <1>t. TransactionsTypeOK /\ Recovering /\ CallOrdered
    BY DEF TransactionsInv, FileInv, SequenceInv
  <1>s. call # NoCall => phase = "serving"
    BY <1>t DEF Recovering, TransactionsTypeOK
  <1>1. ASSUME NEW p \in ProducerIds, NEW epoch \in ProducerEpochs, NEW seq \in 0 .. MaxLog, PrepareAppend(p, epoch, seq)
        PROVE  FileInv'
    <2> DEFINE np == [Producer(p) EXCEPT !.pend = seq]
    <2>1. /\ shards' \in [ProducerIds -> TransactionShard] /\ file' = file /\ dirty' = dirty \cup {p}
          /\ shards'[p].producer = np /\ shards'[p].aborted = shards[p].aborted
          /\ \A q \in ProducerIds \ {p} : shards'[q] = shards[q]
          /\ np.epoch = Producer(p).epoch /\ np.last = Producer(p).last
          /\ np.offsets = Producer(p).offsets /\ np.status = Producer(p).status /\ np.txn = Producer(p).txn
          /\ phase = "serving"
      BY <1>1, PrepareFacts
    <2> HIDE DEF np
    <2>2. Producer(p).last \in Int
      BY <1>t, TypeFacts, ProducerFacts
    <2>3. UNCHANGED <<flushTaken, phase>>
      BY <1>1 DEF PrepareAppend, brokerState
    <2> QED BY <2>1, <2>2, <2>3, FilesBehind
  <1>2. CASE AppendToLogFails
    <2> DEFINE p == call.pid
               np == shards'[p].producer
    <2>0. call # NoCall /\ CancelAppend(call.pid, call.epoch, call.seq) /\ call' = NoCall
          /\ UNCHANGED <<flushTaken, phase, skipped>>
      BY <1>2 DEF AppendToLogFails, brokerState, transactionHistory, otherHistory
    <2>1. p \in ProducerIds /\ Producer(p) \in ProducerState /\ Producer(p).last \in Int
      BY <1>t, <2>0, CallFacts, TypeFacts, ProducerFacts
    <2>2. /\ shards' \in [ProducerIds -> TransactionShard] /\ file' = file
          /\ \A q \in ProducerIds \ {p} : shards'[q] = shards[q]
          /\ shards'[p].aborted = shards[p].aborted
          /\ np = [Producer(p) EXCEPT !.pend = np.pend] /\ np \in ProducerState
          /\ \/ dirty' = dirty /\ shards' = shards
             \/ dirty' = dirty \cup {p}
      BY <2>0, CancelFacts
    <2>n. shards'[p].producer = np
      OBVIOUS
    <2> HIDE DEF np, p
    <2>3. /\ np.epoch = Producer(p).epoch /\ np.last = Producer(p).last
          /\ np.offsets = Producer(p).offsets /\ np.status = Producer(p).status /\ np.txn = Producer(p).txn
      BY <2>1, <2>2 DEF ProducerState
    <2>4. CASE dirty' = dirty /\ shards' = shards
      BY <2>0, <2>2, <2>4, FilesSame
    <2>5. CASE dirty' = dirty \cup {p}
      BY <1>s, <2>0, <2>1, <2>2, <2>3, <2>5, <2>n, FilesBehind
    <2> QED BY <2>2, <2>4, <2>5
  <1>3. CASE CompleteAppend
    <2> DEFINE p == call.pid
               np == shards'[p].producer
    <2>1. /\ call # NoCall /\ call' = NoCall /\ p \in ProducerIds
          /\ shards' \in [ProducerIds -> TransactionShard] /\ file' = file
          /\ \A q \in ProducerIds \ {p} : shards'[q] = shards[q]
          /\ shards'[p].aborted = shards[p].aborted
          /\ np.epoch = Producer(p).epoch /\ np.status = Producer(p).status /\ np.txn = Producer(p).txn
          /\ np.offsets = Producer(p).offsets
          /\ Producer(p).epoch = call.epoch => dirty' = dirty \cup {p} /\ np.last = call.seq
          /\ Producer(p).epoch # call.epoch => UNCHANGED <<shards, dirty>>
      BY <1>3, CompleteFacts
    <2>2. UNCHANGED <<flushTaken, phase, skipped>>
      BY <1>3 DEF CompleteAppend, brokerState, transactionHistory, otherHistory
    <2>3. Producer(p).last \in Int /\ call.seq \in Nat
      BY <1>t, <2>1, TypeFacts, ProducerFacts, CallFacts
    <2>4. CASE Producer(p).epoch = call.epoch
      <3>1. Producer(p).last <= np.last
        BY <1>t, <2>1, <2>3, <2>4 DEF CallOrdered
      <3> QED BY <1>s, <2>1, <2>2, <2>4, <3>1, FilesBehind
    <2>5. CASE Producer(p).epoch # call.epoch
      BY <2>1, <2>2, <2>5, FilesSame
    <2> QED BY <2>4, <2>5
  <1>4. CASE AppendToLog
    BY <1>s, <1>4, FilesSame DEF AppendToLog, brokerState, transactionHistory, otherHistory
  <1> QED BY <1>1, <1>2, <1>3, <1>4

\* The flushes and a restart.
LEMMA SnapshotFiles ==
    ASSUME TransactionsInv,
           \/ \E p \in ProducerIds : FlushTake(p) \/ FlushWrite(p)
           \/ \E start \in 1 .. MaxLog : Retain(start)
           \/ BrokerCrash
    PROVE  FileInv'
  <1>t. TransactionsTypeOK /\ Recovering /\ OneFlush /\ \A q \in ProducerIds : SamePersisted(q)
    BY DEF TransactionsInv, FileInv
  <1>i. \A q \in ProducerIds : Producer(q).last \in Int /\ Saved(q).last \in Int
    BY <1>t, TypeFacts, ProducerFacts
  <1>1. ASSUME NEW p \in ProducerIds, FlushTake(p)
        PROVE  FileInv'
    <2>1. p \in dirty /\ dirty' = dirty \ {p} /\ flushTaken' = {p} /\ flushTaken = {}
          /\ UNCHANGED <<shards, file, call, phase, skipped>>
      BY <1>1 DEF FlushTake, transactionHistory, otherHistory
    <2>2. Recovering' /\ OneFlush'
      BY <1>t, <2>1 DEF Recovering, OneFlush
    <2>3. \A q \in ProducerIds : SamePersisted(q)'
      BY <1>t, <2>1 DEF SamePersisted, Producer, Saved
    <2> QED BY <2>2, <2>3 DEF FileInv
  <1>2. ASSUME NEW p \in ProducerIds, FlushWrite(p)
        PROVE  FileInv'
    <2>1. p \in flushTaken /\ flushTaken' = {} /\ UNCHANGED <<shards, dirty, call, phase>>
          /\ file' = [file EXCEPT ![p] = shards[p]] /\ skipped' = skipped \ {p}
      BY <1>2 DEF FlushWrite
    <2>2. flushTaken \subseteq {p}
      BY <1>t, <2>1 DEF OneFlush
    <2>3. /\ file'[p] = shards[p] /\ \A q \in ProducerIds \ {p} : file'[q] = file[q]
      BY <1>t, <2>1 DEF TransactionsTypeOK
    <2>4. \A q \in ProducerIds : SamePersisted(q)'
      BY <1>t, <1>i, <2>1, <2>2, <2>3 DEF SamePersisted, Producer, Saved
    <2> QED BY <1>t, <2>1, <2>4 DEF FileInv, Recovering, OneFlush
  <1>3. ASSUME NEW start \in 1 .. MaxLog, Retain(start)
        PROVE  FileInv'
    <2>1. /\ phase = "serving" /\ file' = Flushed /\ dirty' = {} /\ UNCHANGED <<shards, flushTaken, phase>>
      BY <1>3 DEF Retain, brokerState
    <2>2. \A q \in ProducerIds : file'[q] = IF q \in dirty THEN shards[q] ELSE file[q]
      BY <2>1 DEF Flushed
    <2>3. \A q \in ProducerIds : SamePersisted(q)'
      BY <1>t, <1>i, <2>1, <2>2 DEF SamePersisted, Producer, Saved
    <2> QED BY <1>t, <2>1, <2>3 DEF FileInv, Recovering, OneFlush
  <1>4. CASE BrokerCrash
    <2>1. shards' = file /\ file' = file /\ dirty' = {} /\ flushTaken' = {} /\ call' = NoCall /\ skipped' = {}
      BY <1>4 DEF BrokerCrash
    <2> QED BY <1>i, <2>1 DEF FileInv, Recovering, OneFlush, SamePersisted, Producer, Saved
  <1> QED BY <1>1, <1>2, <1>3, <1>4

-----------------------------------------------------------------------------
(* Decisions *)

\* The parts of the invariant on decisions.
LEMMA DecisionFacts ==
    ASSUME TransactionsInv, NEW p \in ProducerIds
    PROVE  /\ DecisionSound(p) /\ CallOpen /\ TransactionsTypeOK
           /\ txns[p] \in Nat /\ Producer(p) \in ProducerState /\ Producer(p).txn \in Nat
           /\ \A i \in Of(p) : batches[i].txn \in Transactions /\ batches[i].txn \in Nat
  <1>1. TransactionsTypeOK
    BY DEF TransactionsInv
  <1>2. \A i \in Of(p) : batches[i].txn \in Transactions
    BY <1>1, TypeFacts DEF Of
  <1> QED BY <1>1, <1>2, TypeFacts, ProducerFacts DEF TransactionsInv, DecisionInv, Transactions

\* A step that leaves the state of every transaction alone.
LEMMA DecisionsSame ==
    ASSUME TransactionsInv,
           \A q \in ProducerIds : /\ shards'[q].producer.epoch = Producer(q).epoch
                                  /\ shards'[q].producer.status = Producer(q).status
                                  /\ shards'[q].producer.txn = Producer(q).txn
                                  /\ Of(q)' \subseteq Of(q) /\ \A i \in Of(q)' : batches'[i] = batches[i],
           UNCHANGED <<txns, outcome>>, leaked \subseteq leaked',
           \/ call' = NoCall
           \/ /\ call # NoCall
              /\ call'.pid = call.pid /\ call'.epoch = call.epoch /\ call'.txn = call.txn
    PROVE  DecisionInv'
  <1>1. \A q \in ProducerIds : DecisionSound(q)'
    <2> SUFFICES ASSUME NEW q \in ProducerIds
                 PROVE  DecisionSound(q)'
      OBVIOUS
    <2>1. DecisionSound(q)
      BY DecisionFacts
    <2> QED BY <2>1 DEF DecisionSound, Producer
  <1>2. CallOpen'
    <2>1. CASE call' = NoCall
      BY <2>1 DEF CallOpen
    <2>2. CASE /\ call # NoCall
               /\ call'.pid = call.pid /\ call'.epoch = call.epoch /\ call'.txn = call.txn
      <3>1. CallOpen /\ call.pid \in ProducerIds
        BY <2>2, CallFacts DEF TransactionsInv, DecisionInv
      <3> QED BY <2>2, <3>1 DEF CallOpen, Producer
    <2> QED BY <2>1, <2>2
  <1> QED BY <1>1, <1>2 DEF DecisionInv

\* init_producer() abandons an open transaction.
LEMMA InitProducerDecisions ==
    ASSUME TransactionsInv, NEW p \in ProducerIds, InitProducer(p)
    PROVE  DecisionInv'
  <1> DEFINE old == Producer(p)
             np == Fresh(old.epoch + 1)
  <1>1. /\ shards'[p].producer = np /\ \A q \in ProducerIds \ {p} : shards'[q] = shards[q]
        /\ np.epoch = old.epoch + 1 /\ np.status = "Ready"
    BY InitProducerFacts
  <1>u. UNCHANGED <<txns, call, batches>>
    BY DEF InitProducer, partitionDisk
  <1>o. \A q \in ProducerIds : Of(q)' = Of(q)
    BY <1>u DEF Of
  <1>t. TransactionsTypeOK
    BY DecisionFacts
  <1>2. \/ /\ old.status = "Ongoing" /\ old.txn = txns[p] /\ old.txn \in Transactions
           /\ leaked' = leaked \cup {<<p, old.txn>>} /\ outcome' = [outcome EXCEPT ![p][old.txn] = "abandoned"]
        \/ old.status # "Ongoing" /\ leaked' = leaked /\ outcome' = outcome
    BY OpenBegun DEF InitProducer
  <1>l. leaked \subseteq leaked' /\ (old.status = "Ongoing" => <<p, old.txn>> \in leaked')
    BY <1>2
  <1>3. \A q \in ProducerIds \ {p} : outcome'[q] = outcome[q]
    BY <1>2, <1>t DEF TransactionsTypeOK
  <1>4. \A n \in Transactions : outcome'[p][n] = IF old.status = "Ongoing" /\ n = old.txn THEN "abandoned" ELSE outcome[p][n]
    BY <1>2, <1>t DEF TransactionsTypeOK
  <1> HIDE DEF np, old
  <1>5. \A q \in ProducerIds \ {p} : DecisionSound(q)'
    <2> SUFFICES ASSUME NEW q \in ProducerIds \ {p}
                 PROVE  DecisionSound(q)'
      OBVIOUS
    <2>1. DecisionSound(q)
      BY DecisionFacts
    <2> QED BY <1>1, <1>u, <1>o, <1>l, <1>3, <2>1 DEF DecisionSound, Producer
  <1>6. DecisionSound(p)'
    <2>1. DecisionSound(p) /\ txns[p] \in Nat
      BY DecisionFacts
    <2>2. old = Producer(p)
      BY DEF old
    <2>3. old.status = "Ongoing" => old.txn = txns[p]
      BY <1>2
    <2>4. \A n \in Transactions : /\ outcome'[p][n] = "none" <=> n > txns[p]
                                  /\ outcome'[p][n] # "open"
                                  /\ outcome'[p][n] = "abandoned" => <<p, n>> \in leaked'
      <3> SUFFICES ASSUME NEW n \in Transactions
                   PROVE  /\ outcome'[p][n] = "none" <=> n > txns[p]
                          /\ outcome'[p][n] # "open"
                          /\ outcome'[p][n] = "abandoned" => <<p, n>> \in leaked'
        OBVIOUS
      <3>1. /\ outcome[p][n] = "none" <=> n > txns[p]
            /\ outcome[p][n] = "open" <=> old.status = "Ongoing" /\ old.txn = n
            /\ outcome[p][n] = "abandoned" => <<p, n>> \in leaked
        BY <2>1, <2>2 DEF DecisionSound
      <3> QED BY <1>4, <1>l, <2>1, <2>3, <3>1
    <2>5. \A i \in Of(p) : batches[i].txn <= txns[p]
      BY <2>1 DEF DecisionSound
    <2> QED BY <1>1, <1>u, <1>o, <2>4, <2>5 DEF DecisionSound, Producer
  <1>7. CallOpen'
    <2> SUFFICES ASSUME call # NoCall
                 PROVE  CallOpen'
      BY <1>u DEF CallOpen
    <2>1. CallOpen /\ call.pid \in ProducerIds
      BY <1>t, CallFacts, DecisionFacts
    <2> QED BY <1>1, <1>u, <1>l, <2>1 DEF CallOpen, Producer, old
  <1> QED BY <1>5, <1>6, <1>7 DEF DecisionInv

\* add_partitions() goes on with the open transaction or takes the next number.
LEMMA AddPartitionsDecisions ==
    ASSUME TransactionsInv, NEW p \in ProducerIds, NEW epoch \in ProducerEpochs, AddPartitions(p, epoch)
    PROVE  DecisionInv'
  <1> DEFINE old == Producer(p)
             n == IF old.status = "Ongoing" THEN old.txn ELSE txns[p] + 1
             np == [old EXCEPT !.status = "Ongoing", !.txn = n]
  <1>1. /\ shards'[p].producer = np /\ \A q \in ProducerIds \ {p} : shards'[q] = shards[q]
        /\ np.epoch = old.epoch /\ np.status = "Ongoing" /\ np.txn = n /\ n \in Transactions
        /\ txns' = [txns EXCEPT ![p] = n] /\ outcome' = [outcome EXCEPT ![p][n] = "open"]
        /\ leaked \subseteq leaked'
    BY AddPartitionsFacts
  <1>e. old.epoch = epoch /\ epoch # None
    BY TransactionsAssumption DEF AddPartitions, Known, None, ProducerEpochs
  <1>u. UNCHANGED <<call, batches>>
    BY DEF AddPartitions, partitionDisk
  <1>o. \A q \in ProducerIds : Of(q)' = Of(q)
    BY <1>u DEF Of
  <1>t. TransactionsTypeOK /\ txns[p] \in Nat /\ DecisionSound(p)
    BY DecisionFacts
  <1>2. /\ \A q \in ProducerIds \ {p} : outcome'[q] = outcome[q] /\ txns'[q] = txns[q]
        /\ txns'[p] = n
        /\ \A m \in Transactions : outcome'[p][m] = IF m = n THEN "open" ELSE outcome[p][m]
    BY <1>1, <1>t DEF TransactionsTypeOK
  <1>3. /\ old.status = "Ongoing" => n = txns[p] /\ n = old.txn /\ n > 0
        /\ old.status # "Ongoing" => n = txns[p] + 1
    BY <1>t DEF DecisionSound
  <1>n. n \in Nat /\ n >= 1
    BY <1>1 DEF Transactions
  <1>d. old = Producer(p)
    OBVIOUS
  <1> HIDE DEF np, n, old
  <1>5. \A q \in ProducerIds \ {p} : DecisionSound(q)'
    <2> SUFFICES ASSUME NEW q \in ProducerIds \ {p}
                 PROVE  DecisionSound(q)'
      OBVIOUS
    <2>1. DecisionSound(q)
      BY DecisionFacts
    <2> QED BY <1>1, <1>u, <1>o, <1>2, <2>1 DEF DecisionSound, Producer
  <1>6. DecisionSound(p)'
    <2>1. \A m \in Transactions : /\ outcome'[p][m] = "none" <=> m > n
                                  /\ outcome'[p][m] = "open" <=> m = n
                                  /\ outcome'[p][m] = "abandoned" => <<p, m>> \in leaked'
      <3> SUFFICES ASSUME NEW m \in Transactions
                   PROVE  /\ outcome'[p][m] = "none" <=> m > n
                          /\ outcome'[p][m] = "open" <=> m = n
                          /\ outcome'[p][m] = "abandoned" => <<p, m>> \in leaked'
        OBVIOUS
      <3>1. /\ outcome[p][m] = "none" <=> m > txns[p]
            /\ outcome[p][m] = "open" <=> old.status = "Ongoing" /\ old.txn = m
            /\ outcome[p][m] = "abandoned" => <<p, m>> \in leaked
        BY <1>t, <1>d DEF DecisionSound
      <3>2. m \in Nat
        BY DEF Transactions
      <3> QED BY <1>1, <1>2, <1>3, <1>n, <1>t, <3>1, <3>2
    <2>2. \A i \in Of(p) : /\ batches[i].txn <= n
                           /\ batches[i].txn = n => batches[i].epoch = old.epoch
      <3> SUFFICES ASSUME NEW i \in Of(p)
                   PROVE  /\ batches[i].txn <= n
                          /\ batches[i].txn = n => batches[i].epoch = old.epoch
        OBVIOUS
      <3>1. /\ batches[i].txn <= txns[p] /\ batches[i].txn \in Nat
            /\ old.status = "Ongoing" /\ batches[i].txn = old.txn => batches[i].epoch = old.epoch
        BY <1>t, <1>d, DecisionFacts DEF DecisionSound
      <3> QED BY <1>t, <1>3, <1>n, <3>1
    <2> QED BY <1>1, <1>e, <1>u, <1>o, <1>2, <1>n, <2>1, <2>2 DEF DecisionSound, Producer
  <1>7. CallOpen'
    <2> SUFFICES ASSUME call # NoCall
                 PROVE  CallOpen'
      BY <1>u DEF CallOpen
    <2>1. CallOpen /\ call.pid \in ProducerIds /\ call.txn \in Nat /\ txns[call.pid] \in Nat
      BY <1>t, CallFacts, DecisionFacts
    <2>2. txns[call.pid] <= txns'[call.pid]
      BY <1>2, <1>3, <1>n, <1>t, <2>1
    <2>3. txns'[call.pid] \in Nat
      BY <1>2, <1>n, <2>1
    <2> QED BY <1>1, <1>3, <1>d, <1>u, <2>1, <2>2, <2>3 DEF CallOpen, Producer
  <1> QED BY <1>5, <1>6, <1>7 DEF DecisionInv

\* The end of a transaction decides it; an append of it is then unaccounted for.
LEMMA EndOpenDecisions ==
    ASSUME TransactionsInv, NEW p \in ProducerIds, NEW commit \in BOOLEAN, EndOpen(p, commit),
           commit => ~InFlight(p), UNCHANGED <<txns, call, batches>>
    PROVE  DecisionInv'
  <1> DEFINE old == Producer(p)
             np == shards'[p].producer
  <1>1. /\ old.status = "Ongoing" /\ old.txn \in Transactions
        /\ \A q \in ProducerIds \ {p} : shards'[q] = shards[q]
        /\ np.epoch = old.epoch /\ np.txn = old.txn /\ np.status = IF commit THEN "Committed" ELSE "Aborted"
        /\ outcome' = [outcome EXCEPT ![p][old.txn] = IF commit THEN "committed" ELSE "aborted"]
        /\ leaked' = IF ~commit /\ Unaccounted(p) THEN leaked \cup {<<p, old.txn>>} ELSE leaked
    BY EndOpenFacts
  <1>o. \A q \in ProducerIds : Of(q)' = Of(q)
    BY DEF Of
  <1>t. TransactionsTypeOK /\ txns[p] \in Nat /\ DecisionSound(p)
    BY DecisionFacts
  <1>2. /\ \A q \in ProducerIds \ {p} : outcome'[q] = outcome[q]
        /\ \A m \in Transactions : outcome'[p][m] = IF m = old.txn THEN (IF commit THEN "committed" ELSE "aborted")
                                                    ELSE outcome[p][m]
    BY <1>1, <1>t DEF TransactionsTypeOK
  <1>l. leaked \subseteq leaked' /\ (InFlight(p) => <<p, old.txn>> \in leaked')
    BY <1>1 DEF Unaccounted
  <1>d. old = Producer(p) /\ np = shards'[p].producer
    OBVIOUS
  <1> HIDE DEF np, old
  <1>5. \A q \in ProducerIds \ {p} : DecisionSound(q)'
    <2> SUFFICES ASSUME NEW q \in ProducerIds \ {p}
                 PROVE  DecisionSound(q)'
      OBVIOUS
    <2>1. DecisionSound(q)
      BY DecisionFacts
    <2> QED BY <1>1, <1>o, <1>l, <1>2, <2>1 DEF DecisionSound, Producer
  <1>6. DecisionSound(p)'
    <2>1. \A m \in Transactions : /\ outcome'[p][m] = "none" <=> m > txns[p]
                                  /\ outcome'[p][m] # "open"
                                  /\ outcome'[p][m] = "abandoned" => <<p, m>> \in leaked'
      <3> SUFFICES ASSUME NEW m \in Transactions
                   PROVE  /\ outcome'[p][m] = "none" <=> m > txns[p]
                          /\ outcome'[p][m] # "open"
                          /\ outcome'[p][m] = "abandoned" => <<p, m>> \in leaked'
        OBVIOUS
      <3>1. /\ outcome[p][m] = "none" <=> m > txns[p]
            /\ outcome[p][m] = "open" <=> old.status = "Ongoing" /\ old.txn = m
            /\ outcome[p][m] = "abandoned" => <<p, m>> \in leaked
            /\ old.txn = txns[p]
        BY <1>t, <1>d, <1>1 DEF DecisionSound
      <3> QED BY <1>1, <1>2, <1>l, <1>t, <3>1
    <2>2. \A i \in Of(p) : batches[i].txn <= txns[p]
      BY <1>t DEF DecisionSound
    <2>3. old.epoch # None
      BY <1>1, <1>d, <1>t DEF DecisionSound
    <2> QED BY <1>1, <1>d, <1>o, <2>1, <2>2, <2>3 DEF DecisionSound, Producer
  <1>7. CallOpen'
    <2> SUFFICES ASSUME call # NoCall
                 PROVE  CallOpen'
      BY DEF CallOpen
    <2>1. CallOpen /\ call.pid \in ProducerIds
      BY <1>t, CallFacts, DecisionFacts
    <2>2. call.pid = p => InFlight(p)
      BY DEF InFlight
    <2> QED BY <1>1, <1>l, <1>d, <2>1, <2>2 DEF CallOpen, Producer
  <1> QED BY <1>5, <1>6, <1>7 DEF DecisionInv

\* produce() appends to the transaction that was open when it began.
LEMMA ProduceDecisions ==
    ASSUME TransactionsInv,
           \/ \E p \in ProducerIds, epoch \in ProducerEpochs, seq \in 0 .. MaxLog : PrepareAppend(p, epoch, seq)
           \/ AppendToLogFails
           \/ CompleteAppend
           \/ AppendToLog
    PROVE  DecisionInv'
  <1>t. TransactionsTypeOK
    BY DEF TransactionsInv
  <1>1. ASSUME NEW p \in ProducerIds, NEW epoch \in ProducerEpochs, NEW seq \in 0 .. MaxLog, PrepareAppend(p, epoch, seq)
        PROVE  DecisionInv'
    <2> DEFINE old == Producer(p)
               np == [old EXCEPT !.pend = seq]
    <2>1. /\ shards'[p].producer = np /\ \A q \in ProducerIds \ {p} : shards'[q] = shards[q]
          /\ np.epoch = old.epoch /\ np.status = old.status /\ np.txn = old.txn
          /\ old.epoch = epoch /\ old.status = "Ongoing" /\ call' # NoCall
          /\ call'.pid = p /\ call'.epoch = epoch /\ call'.txn = old.txn
      BY <1>1, PrepareFacts
    <2> HIDE DEF np
    <2>2. UNCHANGED <<txns, outcome, leaked, batches>>
      BY <1>1 DEF PrepareAppend, partitionDisk, transactionHistory
    <2>3. \A q \in ProducerIds : DecisionSound(q)'
      <3> SUFFICES ASSUME NEW q \in ProducerIds
                   PROVE  DecisionSound(q)'
        OBVIOUS
      <3>1. DecisionSound(q) /\ Of(q)' = Of(q)
        BY <2>2, DecisionFacts DEF Of
      <3> QED BY <2>1, <2>2, <3>1 DEF DecisionSound, Producer
    <2>4. old.txn <= txns[p]
      BY <2>1, DecisionFacts DEF DecisionSound
    <2>5. CallOpen'
      BY <2>1, <2>2, <2>4 DEF CallOpen, Producer
    <2> QED BY <2>3, <2>5 DEF DecisionInv
  <1>2. CASE AppendToLogFails
    <2> DEFINE p == call.pid
               np == shards'[p].producer
    <2>0. call # NoCall /\ CancelAppend(call.pid, call.epoch, call.seq) /\ call' = NoCall
          /\ UNCHANGED <<txns, outcome, leaked, batches>>
      BY <1>2 DEF AppendToLogFails, partitionDisk, transactionHistory
    <2>1. p \in ProducerIds /\ Producer(p) \in ProducerState
      BY <1>t, <2>0, CallFacts, TypeFacts
    <2>2. /\ \A q \in ProducerIds \ {p} : shards'[q] = shards[q]
          /\ np = [Producer(p) EXCEPT !.pend = np.pend]
      BY <2>0, CancelFacts
    <2>n. shards'[p].producer = np
      OBVIOUS
    <2> HIDE DEF np, p
    <2>3. np.epoch = Producer(p).epoch /\ np.status = Producer(p).status /\ np.txn = Producer(p).txn
      BY <2>1, <2>2 DEF ProducerState
    <2>4. \A q \in ProducerIds : /\ shards'[q].producer.epoch = Producer(q).epoch
                                 /\ shards'[q].producer.status = Producer(q).status
                                 /\ shards'[q].producer.txn = Producer(q).txn
      BY <2>2, <2>3, <2>n DEF Producer
    <2>5. \A q \in ProducerIds : Of(q)' \subseteq Of(q) /\ \A i \in Of(q)' : batches'[i] = batches[i]
      BY <2>0 DEF Of
    <2> QED BY <2>0, <2>4, <2>5, DecisionsSame
  <1>3. CASE CompleteAppend
    <2>1. /\ call' = NoCall /\ \A q \in ProducerIds \ {call.pid} : shards'[q] = shards[q]
          /\ shards'[call.pid].producer.epoch = Producer(call.pid).epoch
          /\ shards'[call.pid].producer.status = Producer(call.pid).status
          /\ shards'[call.pid].producer.txn = Producer(call.pid).txn
      BY <1>3, CompleteFacts
    <2>2. UNCHANGED <<txns, outcome, leaked, batches>>
      BY <1>3 DEF CompleteAppend, partitionDisk, transactionHistory
    <2>3. \A q \in ProducerIds : /\ shards'[q].producer.epoch = Producer(q).epoch
                                 /\ shards'[q].producer.status = Producer(q).status
                                 /\ shards'[q].producer.txn = Producer(q).txn
      BY <2>1 DEF Producer
    <2>4. \A q \in ProducerIds : Of(q)' \subseteq Of(q) /\ \A i \in Of(q)' : batches'[i] = batches[i]
      BY <2>2 DEF Of
    <2> QED BY <2>1, <2>2, <2>3, <2>4, DecisionsSame
  <1>4. CASE AppendToLog
    <2> DEFINE n == Len(batches) + 1
               p == call.pid
    <2>1. /\ call # NoCall /\ p \in ProducerIds /\ call' # NoCall
          /\ call'.pid = call.pid /\ call'.epoch = call.epoch /\ call'.txn = call.txn
          /\ batches'[n].epoch = call.epoch /\ batches'[n].txn = call.txn
          /\ \A q \in ProducerIds : Of(q)' = IF q = p THEN Of(q) \cup {n} ELSE Of(q)
          /\ \A q \in ProducerIds : \A i \in Of(q) : batches'[i] = batches[i]
      BY <1>4, AppendFacts
    <2> HIDE DEF n
    <2>2. UNCHANGED <<shards, txns, outcome, leaked>>
      BY <1>4 DEF AppendToLog, transactionHistory
    <2>3. CallOpen
      BY <2>1, DecisionFacts
    <2>4. CallOpen'
      BY <2>1, <2>2, <2>3 DEF CallOpen, Producer
    <2>5. ASSUME NEW q \in ProducerIds
          PROVE  DecisionSound(q)'
      <3>1. DecisionSound(q)
        BY DecisionFacts
      <3>2. \A i \in Of(q)' : /\ batches'[i].txn <= txns[q]
                              /\ Producer(q).status = "Ongoing" /\ batches'[i].txn = Producer(q).txn
                                 => batches'[i].epoch = Producer(q).epoch
        <4> SUFFICES ASSUME NEW i \in Of(q)'
                     PROVE  /\ batches'[i].txn <= txns[q]
                            /\ Producer(q).status = "Ongoing" /\ batches'[i].txn = Producer(q).txn
                               => batches'[i].epoch = Producer(q).epoch
          OBVIOUS
        <4>1. CASE i \in Of(q)
          BY <2>1, <3>1, <4>1 DEF DecisionSound
        <4>2. CASE q = p /\ i = n
          <5>1. call.txn <= txns[p]
            BY <2>1, <2>3 DEF CallOpen
          <5>2. Producer(p).status = "Ongoing" /\ call.txn = Producer(p).txn => call.epoch = Producer(p).epoch
            BY <2>1, <2>3 DEF CallOpen
          <5> QED BY <2>1, <4>2, <5>1, <5>2
        <4> QED BY <2>1, <4>1, <4>2
      <3> QED BY <2>2, <3>1, <3>2 DEF DecisionSound, Producer
    <2> QED BY <2>4, <2>5 DEF DecisionInv
  <1> QED BY <1>1, <1>2, <1>3, <1>4

-----------------------------------------------------------------------------
(* Which batches an abort would list *)

\* The parts of the invariant on ranges.
LEMMA ListedFacts ==
    ASSUME TransactionsInv, NEW p \in ProducerIds
    PROVE  OpenListed(p, Producer(p)) /\ OpenListed(p, Saved(p)) /\ AbortedListed(p)
  BY DEF TransactionsInv, ListedInv

\* What np accounts for stays accounted for when the log is cut or reclaimed.
LEMMA OpenListedStays ==
    ASSUME TransactionsTypeOK, NEW q \in ProducerIds, NEW np, OpenListed(q, np), leaked \subseteq leaked',
           trimmed' \in Nat, trimmed <= trimmed',
           \A i \in Of(q)' : i \in Of(q) /\ batches'[i] = batches[i],
           np.first <= Len(batches') \/ <<q, np.txn>> \in leaked' \/ Len(batches') = Len(batches)
    PROVE  OpenListed(q, np)'
  <1>1. trimmed \in Nat /\ \A i \in Of(q) : i \in Nat
    BY TypeFacts DEF Of
  <1> SUFFICES ASSUME np.status = "Ongoing", <<q, np.txn>> \notin leaked'
               PROVE  /\ np.first <= Len(batches')
                      /\ \A i \in Of(q)' : trimmed' < i /\ batches'[i].txn = np.txn =>
                           /\ 0 < np.first => np.first <= i
                           /\ batches'[i].seq <= np.last => Listed(np, i)
    BY DEF OpenListed, Listed
  <1>2. /\ np.first <= Len(batches)
        /\ \A i \in Of(q) : trimmed < i /\ batches[i].txn = np.txn =>
               /\ 0 < np.first => np.first <= i
               /\ batches[i].seq <= np.last => Listed(np, i)
    BY DEF OpenListed
  <1> QED BY <1>1, <1>2

\* Aborted batches stay listed.
LEMMA AbortedStays ==
    ASSUME TransactionsInv, NEW q \in ProducerIds, leaked \subseteq leaked', trimmed' \in Nat, trimmed <= trimmed',
           \A i \in Of(q)' : i \in Of(q) /\ batches'[i] = batches[i],
           shards[q].aborted \subseteq shards'[q].aborted,
           \A n \in Transactions : outcome'[q][n] = "aborted" => outcome[q][n] = "aborted"
    PROVE  AbortedListed(q)'
  <1>1. trimmed \in Nat /\ \A i \in Of(q) : i \in Nat /\ batches[i].txn \in Transactions /\ batches[i].pid = q
    BY TypeFacts DEF Of, TransactionsInv
  <1> SUFFICES ASSUME NEW i \in Of(q)', trimmed' < i, outcome'[q][batches'[i].txn] = "aborted",
                      <<q, batches'[i].txn>> \notin leaked'
               PROVE  Aborted(i)'
    BY DEF AbortedListed
  <1>2. i \in Of(q) /\ batches'[i] = batches[i] /\ trimmed < i /\ outcome[q][batches[i].txn] = "aborted"
        /\ <<q, batches[i].txn>> \notin leaked
    BY <1>1
  <1>3. Aborted(i)
    BY <1>2, ListedFacts DEF AbortedListed
  <1> QED BY <1>1, <1>2, <1>3 DEF Aborted

\* What the invariant says of the new states, one by one.
LEMMA ListedNext ==
    ASSUME \A q \in ProducerIds : /\ \A np \in {shards'[q].producer, file'[q].producer} : OpenListed(q, np)'
                                  /\ AbortedListed(q)'
    PROVE  ListedInv'
  <1> SUFFICES ASSUME NEW q \in ProducerIds
               PROVE  OpenListed(q, Producer(q))' /\ OpenListed(q, Saved(q))'
    BY DEF ListedInv
  <1>1. \A np \in {shards'[q].producer, file'[q].producer} : OpenListed(q, np)'
    OBVIOUS
  <1> QED BY <1>1 DEF OpenListed, Listed, Producer, Saved

\* A step that keeps the log and the decisions, and the state of every shard or
\* the one of its file.
LEMMA ListedSame ==
    ASSUME TransactionsInv, leaked \subseteq leaked', trimmed' \in Nat, trimmed <= trimmed',
           UNCHANGED <<batches, outcome>>,
           \A q \in ProducerIds : shards'[q] \in {shards[q], file[q]} /\ file'[q] \in {shards[q], file[q]}
    PROVE  ListedInv'
  <1>t. TransactionsTypeOK
    BY DEF TransactionsInv
  <1>1. ASSUME NEW q \in ProducerIds, NEW np \in {shards'[q].producer, file'[q].producer}
        PROVE  OpenListed(q, np)'
    <2>1. np \in {Producer(q), Saved(q)}
      BY <1>1 DEF Producer, Saved
    <2>a. OpenListed(q, Producer(q)) /\ OpenListed(q, Saved(q))
      BY ListedFacts
    <2>2. OpenListed(q, np)
      <3>1. CASE np = Producer(q)
        BY <2>a, <3>1
      <3>2. CASE np = Saved(q)
        BY <2>a, <3>2
      <3> QED BY <2>1, <3>1, <3>2
    <2>3. Of(q)' = Of(q)
      BY DEF Of
    <2> QED BY <1>t, <2>2, <2>3, OpenListedStays
  <1>2. ASSUME NEW q \in ProducerIds
        PROVE  AbortedListed(q)'
    <2>1. Of(q)' = Of(q)
      BY DEF Of
    <2>2. shards[q].aborted = shards'[q].aborted
      BY SequenceFacts DEF SamePersisted
    <2> QED BY <2>1, <2>2, AbortedStays
  <1> QED BY <1>1, <1>2, ListedNext

\* A step that gives p a state that accounts for its batches.
LEMMA ListedPersisted ==
    ASSUME TransactionsInv, NEW p \in ProducerIds, leaked \subseteq leaked', UNCHANGED <<batches, trimmed>>,
           \A q \in ProducerIds \ {p} : shards'[q] = shards[q] /\ file'[q] \in {shards[q], file[q]},
           \A q \in ProducerIds : /\ shards[q].aborted \subseteq shards'[q].aborted
                                  /\ \A n \in Transactions : outcome'[q][n] = "aborted" => outcome[q][n] = "aborted",
           \A np \in {shards'[p].producer, file'[p].producer} : OpenListed(p, np)'
    PROVE  ListedInv'
  <1>t. TransactionsTypeOK /\ trimmed \in Nat
    BY TypeFacts DEF TransactionsInv
  <1>1. ASSUME NEW q \in ProducerIds, q # p, NEW np \in {shards'[q].producer, file'[q].producer}
        PROVE  OpenListed(q, np)'
    <2>1. np \in {Producer(q), Saved(q)}
      BY <1>1 DEF Producer, Saved
    <2>a. OpenListed(q, Producer(q)) /\ OpenListed(q, Saved(q))
      BY ListedFacts
    <2>2. OpenListed(q, np)
      <3>1. CASE np = Producer(q)
        BY <2>a, <3>1
      <3>2. CASE np = Saved(q)
        BY <2>a, <3>2
      <3> QED BY <2>1, <3>1, <3>2
    <2>3. Of(q)' = Of(q)
      BY DEF Of
    <2> QED BY <1>t, <2>2, <2>3, OpenListedStays
  <1>2. ASSUME NEW q \in ProducerIds
        PROVE  AbortedListed(q)'
    <2>1. Of(q)' = Of(q)
      BY DEF Of
    <2> QED BY <1>t, <2>1, AbortedStays
  <1> QED BY <1>1, <1>2, ListedNext

\* A state with the same range and transaction, after a step that keeps the log.
LEMMA OpenListedFields ==
    ASSUME TransactionsInv, NEW q \in ProducerIds, NEW op \in {Producer(q), Saved(q)}, NEW np,
           np.status = op.status, np.txn = op.txn, np.first = op.first, np.last = op.last, np.off = op.off,
           leaked \subseteq leaked', UNCHANGED <<batches, trimmed>>
    PROVE  OpenListed(q, np)'
  <1>1. OpenListed(q, op)
    BY ListedFacts DEF OpenListed, Listed
  <1>2. OpenListed(q, np)
    BY <1>1 DEF OpenListed, Listed
  <1>3. TransactionsTypeOK /\ trimmed \in Nat /\ Of(q)' = Of(q)
    BY TypeFacts DEF TransactionsInv, Of
  <1> QED BY <1>2, <1>3, OpenListedStays

\* A producer with no open transaction has nothing to account for.
LEMMA ClosedListed ==
    ASSUME NEW q, NEW np, np.status # "Ongoing"
    PROVE  OpenListed(q, np)'
  BY DEF OpenListed

\* init_producer(), stage_offsets() and mark_offsets_applied().
LEMMA ProducerListed ==
    ASSUME TransactionsInv,
           \/ \E p \in ProducerIds : InitProducer(p)
           \/ \E p \in ProducerIds, epoch \in ProducerEpochs : StageOffsets(p, epoch)
           \/ \E h \in Requests : MarkApplied(h)
    PROVE  ListedInv'
  <1>t. TransactionsTypeOK /\ trimmed \in Nat
    BY TypeFacts DEF TransactionsInv
  <1>1. ASSUME NEW p \in ProducerIds, InitProducer(p)
        PROVE  ListedInv'
    <2> DEFINE np == Fresh(Producer(p).epoch + 1)
    <2>1. /\ shards'[p].producer = np /\ shards'[p].aborted = shards[p].aborted /\ file'[p] = shards'[p]
          /\ \A q \in ProducerIds \ {p} : shards'[q] = shards[q] /\ file'[q] = file[q]
          /\ np.status = "Ready"
      BY <1>1, InitProducerFacts
    <2> HIDE DEF np
    <2>2. leaked \subseteq leaked' /\ UNCHANGED <<batches, trimmed>>
      BY <1>1 DEF InitProducer, partitionDisk
    <2>3. \A q \in ProducerIds : \A n \in Transactions : outcome'[q][n] = "aborted" => outcome[q][n] = "aborted"
      <3>1. CASE Producer(p).status = "Ongoing"
        BY <1>1, <1>t, <3>1, OpenBegun DEF InitProducer, TransactionsTypeOK
      <3>2. CASE Producer(p).status # "Ongoing"
        BY <1>1, <3>2 DEF InitProducer
      <3> QED BY <3>1, <3>2
    <2>4. \A x \in {shards'[p].producer, file'[p].producer} : OpenListed(p, x)'
      BY <2>1, ClosedListed
    <2> QED BY <2>1, <2>2, <2>3, <2>4, ListedPersisted
  <1>2. ASSUME NEW p \in ProducerIds, NEW epoch \in ProducerEpochs, StageOffsets(p, epoch)
        PROVE  ListedInv'
    <2> DEFINE old == Producer(p)
               np == [old EXCEPT !.offsets = {old.txn}]
    <2>1. /\ shards'[p].producer = np /\ shards'[p].aborted = shards[p].aborted /\ file'[p] = shards'[p]
          /\ \A q \in ProducerIds \ {p} : shards'[q] = shards[q] /\ file'[q] = file[q]
          /\ np.last = old.last /\ np.off = old.off /\ np.first = old.first
          /\ np.status = old.status /\ np.txn = old.txn
      BY <1>2, StageOffsetsFacts
    <2> HIDE DEF np
    <2>2. leaked' = leaked /\ outcome' = outcome /\ UNCHANGED <<batches, trimmed>>
      BY <1>2 DEF StageOffsets, partitionDisk
    <2>3. \A x \in {shards'[p].producer, file'[p].producer} : OpenListed(p, x)'
      BY <2>1, <2>2, OpenListedFields
    <2> QED BY <2>1, <2>2, <2>3, ListedPersisted
  <1>3. ASSUME NEW h \in Requests, MarkApplied(h)
        PROVE  ListedInv'
    <2>0. PICK p \in ProducerIds : p = handlers[h].pid
      BY <1>3, MarkFacts
    <2> DEFINE np == shards'[p].producer
    <2>1. leaked' = leaked /\ outcome' = outcome /\ UNCHANGED <<batches, trimmed>>
      BY <1>3 DEF MarkApplied, partitionDisk
    <2>2. CASE UNCHANGED <<shards, file>>
      BY <1>t, <2>1, <2>2, ListedSame
    <2>3. CASE ~UNCHANGED <<shards, file>>
      <3>1. /\ np.status = "Committed"
            /\ shards'[p].aborted = shards[p].aborted /\ file'[p] = shards'[p]
            /\ \A q \in ProducerIds \ {p} : shards'[q] = shards[q] /\ file'[q] = file[q]
        BY <1>3, <2>0, <2>3, MarkFacts
      <3>2. \A x \in {shards'[p].producer, file'[p].producer} : OpenListed(p, x)'
        BY <3>1, ClosedListed
      <3> QED BY <2>1, <3>1, <3>2, ListedPersisted
    <2> QED BY <2>2, <2>3
  <1> QED BY <1>1, <1>2, <1>3

\* A transaction that begins has no batch in the log.
LEMMA AddPartitionsListed ==
    ASSUME TransactionsInv, NEW p \in ProducerIds, NEW epoch \in ProducerEpochs, AddPartitions(p, epoch)
    PROVE  ListedInv'
  <1> DEFINE old == Producer(p)
             n == IF old.status = "Ongoing" THEN old.txn ELSE txns[p] + 1
             np == [old EXCEPT !.status = "Ongoing", !.txn = n]
  <1>1. /\ shards'[p].producer = np /\ shards'[p].aborted = shards[p].aborted /\ file'[p] = shards'[p]
        /\ \A q \in ProducerIds \ {p} : shards'[q] = shards[q] /\ file'[q] = file[q]
        /\ np.last = old.last /\ np.off = old.off /\ np.first = old.first /\ np.status = "Ongoing" /\ np.txn = n
        /\ n \in Transactions /\ outcome' = [outcome EXCEPT ![p][n] = "open"]
        /\ leaked' = IF FirstBeyondLog(old) THEN leaked \cup {<<p, n>>} ELSE leaked
    BY AddPartitionsFacts
  <1>t. TransactionsTypeOK /\ txns[p] \in Nat /\ Len(batches) \in Nat /\ old.first \in Nat
    BY DecisionFacts, TypeFacts, ProducerFacts
  <1>n. /\ old.status = "Ongoing" => n = old.txn
        /\ old.status # "Ongoing" => n = txns[p] + 1
    OBVIOUS
  <1> HIDE DEF np, n
  <1>2. UNCHANGED <<batches, trimmed>>
    BY DEF AddPartitions, partitionDisk
  <1>3. leaked \subseteq leaked'
    BY <1>1
  <1>4. \A q \in ProducerIds : \A m \in Transactions : outcome'[q][m] = "aborted" => outcome[q][m] = "aborted"
    BY <1>1, <1>t DEF TransactionsTypeOK
  <1>5. ASSUME NEW x, x = np
        PROVE  OpenListed(p, x)'
    <2>1. CASE old.status = "Ongoing"
      BY <1>1, <1>5, <1>2, <1>3, <1>n, <2>1, OpenListedFields
    <2>2. CASE old.status # "Ongoing"
      <3>1. \A i \in Of(p)' : batches'[i].txn # n
        <4> SUFFICES ASSUME NEW i \in Of(p)
                     PROVE  batches[i].txn # n
          BY <1>2 DEF Of
        <4>1. batches[i].txn \in Nat /\ batches[i].txn <= txns[p]
          BY DecisionFacts DEF DecisionSound
        <4> QED BY <1>t, <1>n, <2>2, <4>1
      <3>2. <<p, n>> \notin leaked' => np.first <= Len(batches')
        BY <1>t, <1>1, <1>2 DEF FirstBeyondLog
      <3> QED BY <1>1, <1>5, <3>1, <3>2 DEF OpenListed
    <2> QED BY <2>1, <2>2
  <1>6. \A x \in {shards'[p].producer, file'[p].producer} : OpenListed(p, x)'
    BY <1>1, <1>5
  <1> QED BY <1>1, <1>2, <1>3, <1>4, <1>6, ListedPersisted

\* An abort lists every batch of its transaction, or the transaction is one
\* with a batch unaccounted for.
LEMMA EndOpenListed ==
    ASSUME TransactionsInv, NEW p \in ProducerIds, NEW commit \in BOOLEAN, EndOpen(p, commit),
           UNCHANGED <<batches, trimmed>>
    PROVE  ListedInv'
  <1> DEFINE old == Producer(p)
             np == shards'[p].producer
             decided == IF commit THEN "committed" ELSE "aborted"
  <1>1. /\ old.status = "Ongoing" /\ old.txn \in Transactions /\ file'[p] = shards'[p]
        /\ \A q \in ProducerIds \ {p} : shards'[q] = shards[q] /\ file'[q] = file[q]
        /\ np.status = IF commit THEN "Committed" ELSE "Aborted"
        /\ shards'[p].aborted = shards[p].aborted \cup (IF commit THEN {} ELSE AbortedRanges(old))
        /\ outcome' = [outcome EXCEPT ![p][old.txn] = decided]
        /\ leaked' = IF ~commit /\ Unaccounted(p) THEN leaked \cup {<<p, old.txn>>} ELSE leaked
    BY EndOpenFacts
  <1>t. TransactionsTypeOK /\ Len(batches) \in Nat /\ trimmed \in Nat /\ old \in ProducerState /\ old.last \in Int
        /\ old.epoch \in Int /\ old.first \in Nat /\ old.off \in Nat
    BY DecisionFacts, TypeFacts, ProducerFacts
  <1>d. old = Producer(p)
    OBVIOUS
  <1>s. np.status # "Ongoing"
    BY <1>1
  <1>o. \A q \in ProducerIds : Of(q)' = Of(q)
    BY DEF Of
  <1>2. \A x \in {shards'[p].producer, file'[p].producer} : OpenListed(p, x)'
    BY <1>1, <1>s, ClosedListed
  <1>3. leaked \subseteq leaked'
    BY <1>1
  <1> HIDE DEF np, old
  <1>4. ASSUME NEW q \in ProducerIds, q # p
        PROVE  AbortedListed(q)'
    <2>1. outcome'[q] = outcome[q]
      BY <1>1, <1>t, <1>4 DEF TransactionsTypeOK
    <2> QED BY <1>t, <1>1, <1>3, <1>o, <1>4, <2>1, AbortedStays
  <1>5. AbortedListed(p)'
    <2> SUFFICES ASSUME NEW i \in Of(p), trimmed < i, outcome'[p][batches[i].txn] = "aborted",
                        <<p, batches[i].txn>> \notin leaked'
                 PROVE  Aborted(i)'
      BY <1>o DEF AbortedListed
    <2>0. batches[i].txn \in Transactions /\ batches[i].pid = p /\ i \in 1 .. Len(batches) /\ i \in Nat
          /\ batches[i].epoch \in Nat /\ batches[i].seq \in Nat
      BY <1>t, TypeFacts DEF Of
    <2>1. CASE batches[i].txn # old.txn
      <3>1. outcome[p][batches[i].txn] = "aborted"
        BY <1>1, <1>t, <2>0, <2>1 DEF TransactionsTypeOK
      <3>2. Aborted(i)
        BY <1>3, <3>1, ListedFacts DEF AbortedListed
      <3> QED BY <1>1, <2>0, <3>2 DEF Aborted
    <2>2. CASE batches[i].txn = old.txn
      <3>1. ~commit
        BY <1>1, <1>t, <2>0, <2>2 DEF TransactionsTypeOK
      <3>2. ~Unaccounted(p)
        BY <1>1, <2>2, <3>1
      <3>3. Caught(p) /\ ~InFlight(p)
        BY <1>t, <3>2 DEF Unaccounted, Caught, TransactionsTypeOK
      <3>4. i \in Counted(p)
        BY DEF Counted
      <3>5. ~Appended(i)
        BY <2>0, <3>3, SequenceFacts DEF Appended, CallOrdered, InFlight
      <3>6. Covers(old, i)
        BY <1>d, <3>3, <3>4, <3>5, SequenceFacts DEF MemoryCovers
      <3>7. batches[i].epoch = old.epoch
        BY <1>1, <1>d, <2>2, DecisionFacts DEF DecisionSound
      <3>8. batches[i].seq <= old.last
        BY <1>t, <2>0, <3>6, <3>7 DEF Covers
      <3>9. OpenListed(p, old)
        BY <1>d, ListedFacts
      <3>10. Listed(old, i)
        BY <1>1, <1>3, <2>2, <3>8, <3>9 DEF OpenListed
      <3>11. [first |-> old.first, last |-> old.off] \in shards'[p].aborted
        BY <1>1, <1>t, <3>1, <3>10 DEF Listed, AbortedRanges
      <3> QED BY <2>0, <3>10, <3>11 DEF Aborted, Listed
    <2> QED BY <2>1, <2>2
  <1>6. ASSUME NEW q \in ProducerIds, q # p, NEW x \in {shards'[q].producer, file'[q].producer}
        PROVE  OpenListed(q, x)'
    <2>1. x \in {Producer(q), Saved(q)}
      BY <1>1, <1>6 DEF Producer, Saved
    <2> QED BY <1>3, <2>1, OpenListedFields
  <1> QED BY <1>2, <1>4, <1>5, <1>6, ListedNext

\* A mark withdrawn or set leaves the ranges alone.
LEMMA MarkedListed ==
    ASSUME TransactionsInv,
           \/ \E p \in ProducerIds, epoch \in ProducerEpochs, seq \in 0 .. MaxLog : PrepareAppend(p, epoch, seq)
           \/ AppendToLogFails
    PROVE  ListedInv'
  <1>t. TransactionsTypeOK
    BY DEF TransactionsInv
  <1>0. ASSUME NEW p \in ProducerIds, NEW np, shards'[p].producer = np, shards'[p].aborted = shards[p].aborted,
               file' = file, \A q \in ProducerIds \ {p} : shards'[q] = shards[q],
               np.last = Producer(p).last, np.off = Producer(p).off, np.first = Producer(p).first,
               np.status = Producer(p).status, np.txn = Producer(p).txn,
               UNCHANGED <<batches, trimmed, leaked, outcome>>
        PROVE  ListedInv'
    <2>1. \A x \in {shards'[p].producer, file'[p].producer} : OpenListed(p, x)'
      <3>1. OpenListed(p, np)'
        BY <1>0, OpenListedFields
      <3>2. ASSUME NEW x, x = Saved(p)
            PROVE  OpenListed(p, x)'
        BY <1>0, <3>2, OpenListedFields
      <3> QED BY <1>0, <3>1, <3>2 DEF Saved
    <2> QED BY <1>0, <2>1, ListedPersisted
  <1>1. ASSUME NEW p \in ProducerIds, NEW epoch \in ProducerEpochs, NEW seq \in 0 .. MaxLog, PrepareAppend(p, epoch, seq)
        PROVE  ListedInv'
    <2>1. PICK np : np = [Producer(p) EXCEPT !.pend = seq]
      OBVIOUS
    <2>2. /\ shards'[p].producer = np /\ shards'[p].aborted = shards[p].aborted /\ file' = file
          /\ \A q \in ProducerIds \ {p} : shards'[q] = shards[q]
          /\ np.last = Producer(p).last /\ np.off = Producer(p).off /\ np.first = Producer(p).first
          /\ np.status = Producer(p).status /\ np.txn = Producer(p).txn
      BY <1>1, <2>1, PrepareFacts
    <2>3. UNCHANGED <<batches, trimmed, leaked, outcome>>
      BY <1>1 DEF PrepareAppend, partitionDisk, transactionHistory
    <2> QED BY <1>0, <2>2, <2>3
  <1>2. CASE AppendToLogFails
    <2>0. call # NoCall /\ CancelAppend(call.pid, call.epoch, call.seq)
          /\ UNCHANGED <<batches, trimmed, leaked, outcome>>
      BY <1>2 DEF AppendToLogFails, partitionDisk, transactionHistory
    <2>1. PICK p \in ProducerIds : p = call.pid
      BY <1>t, <2>0, CallFacts
    <2>2. PICK np : np = shards'[p].producer
      OBVIOUS
    <2>3. /\ \A q \in ProducerIds \ {p} : shards'[q] = shards[q]
          /\ shards'[p].aborted = shards[p].aborted /\ file' = file
          /\ np = [Producer(p) EXCEPT !.pend = np.pend] /\ np \in ProducerState
      BY <2>0, <2>1, <2>2, CancelFacts
    <2>4. Producer(p) \in ProducerState
      BY <1>t, TypeFacts
    <2>5. /\ np.last = Producer(p).last /\ np.off = Producer(p).off /\ np.first = Producer(p).first
          /\ np.status = Producer(p).status /\ np.txn = Producer(p).txn
      BY <2>3, <2>4 DEF ProducerState
    <2> QED BY <1>0, <2>0, <2>2, <2>3, <2>5
  <1> QED BY <1>1, <1>2

\* complete_append() puts its batch in the range of the open transaction.
LEMMA CompleteAppendListed ==
    ASSUME TransactionsInv, CompleteAppend
    PROVE  ListedInv'
  <1>u. UNCHANGED <<batches, trimmed, leaked, outcome>>
    BY DEF CompleteAppend, partitionDisk, transactionHistory
  <1>1. PICK p \in ProducerIds : p = call.pid
    BY CompleteFacts
  <1>2. PICK np : np = shards'[p].producer
    OBVIOUS
  <1> DEFINE old == Producer(p)
  <1>3. /\ call # NoCall /\ call.stage = "appended" /\ np \in ProducerState
        /\ file' = file /\ \A q \in ProducerIds \ {p} : shards'[q] = shards[q]
        /\ shards'[p].aborted = shards[p].aborted
        /\ np.epoch = old.epoch /\ np.status = old.status /\ np.txn = old.txn
        /\ old.epoch = call.epoch =>
             /\ np.last = call.seq /\ np.off = Len(batches)
             /\ np.first = IF old.first = 0 THEN Len(batches) ELSE old.first
        /\ old.epoch # call.epoch => shards' = shards
    BY <1>1, <1>2, CompleteFacts
  <1>t. TransactionsTypeOK /\ Len(batches) \in Nat /\ trimmed \in Nat /\ old.first \in Nat /\ old.off \in Nat
        /\ old.last \in Int /\ old.epoch \in Int /\ CallOrdered /\ Recovering
    BY TypeFacts, ProducerFacts, SequenceFacts
  <1>4. OpenListed(p, np)'
    <2>1. CASE old.epoch # call.epoch
      <3>1. np = old
        BY <1>2, <1>3, <2>1 DEF Producer
      <3> QED BY <1>u, <3>1, OpenListedFields
    <2>2. CASE old.epoch = call.epoch
      <3> SUFFICES ASSUME np.status = "Ongoing", <<p, np.txn>> \notin leaked
                   PROVE  /\ np.first <= Len(batches)
                          /\ \A i \in Of(p) : trimmed < i /\ batches[i].txn = np.txn =>
                               /\ 0 < np.first => np.first <= i
                               /\ batches[i].seq <= np.last => Listed(np, i)
        BY <1>u DEF OpenListed, Listed, Of
      <3>1. OpenListed(p, old)
        BY ListedFacts
      <3>2. /\ old.first <= Len(batches)
            /\ \A i \in Of(p) : trimmed < i /\ batches[i].txn = np.txn =>
                 /\ 0 < old.first => old.first <= i
                 /\ batches[i].seq <= old.last => Listed(old, i)
        BY <1>3, <3>1 DEF OpenListed
      <3>3. trimmed < Len(batches)
        BY <1>3, <1>t DEF CallOrdered
      <3>4. np.first <= Len(batches) /\ 0 < np.first /\ np.off = Len(batches)
        BY <1>3, <1>t, <2>2, <3>2, <3>3
      <3>5. ASSUME NEW i \in Of(p), trimmed < i, batches[i].txn = np.txn
            PROVE  np.first <= i /\ i <= Len(batches)
        <4>0. i \in 1 .. Len(batches) /\ batches[i].epoch \in Nat /\ batches[i].seq \in Nat
          BY <1>t, TypeFacts DEF Of
        <4>1. i \in Counted(p)
          BY <3>5 DEF Counted
        <4>2. Caught(p)
          BY <1>3, <1>t DEF Caught, Recovering, TransactionsTypeOK
        <4>3. Covers(old, i) \/ i = Len(batches)
          BY <4>1, <4>2, SequenceFacts DEF MemoryCovers, Appended
        <4>4. CASE i = Len(batches)
          BY <1>t, <3>4, <4>4
        <4>5. CASE Covers(old, i)
          <5>1. batches[i].epoch = old.epoch
            BY <1>3, <3>5, DecisionFacts DEF DecisionSound
          <5>2. batches[i].seq <= old.last
            BY <1>t, <4>0, <4>5, <5>1 DEF Covers
          <5>3. Listed(old, i)
            BY <3>2, <3>5, <5>2
          <5> QED BY <1>3, <1>t, <2>2, <4>0, <5>3 DEF Listed
        <4> QED BY <4>3, <4>4, <4>5
      <3> QED BY <3>4, <3>5 DEF Listed
    <2> QED BY <2>1, <2>2
  <1>5. ASSUME NEW x, x = Saved(p)
        PROVE  OpenListed(p, x)'
    BY <1>u, <1>5, OpenListedFields
  <1>6. \A x \in {shards'[p].producer, file'[p].producer} : OpenListed(p, x)'
    BY <1>2, <1>3, <1>4, <1>5 DEF Saved
  <1> QED BY <1>u, <1>3, <1>6, ListedPersisted

\* A batch of the open transaction is beyond what its producer knows of.
LEMMA AppendToLogListed ==
    ASSUME TransactionsInv, AppendToLog
    PROVE  ListedInv'
  <1>1. PICK p \in ProducerIds : p = call.pid
    BY AppendFacts
  <1>2. PICK n \in Nat : n = Len(batches) + 1
    BY AppendFacts
  <1>3. /\ call # NoCall /\ call.stage = "prepared" /\ Len(batches') = n
        /\ batches'[n].pid = p /\ batches'[n].epoch = call.epoch
        /\ batches'[n].seq = call.seq /\ batches'[n].txn = call.txn
        /\ \A q \in ProducerIds : Of(q)' = IF q = p THEN Of(q) \cup {n} ELSE Of(q)
        /\ \A q \in ProducerIds : \A i \in Of(q) : batches'[i] = batches[i] /\ i < n
    BY <1>1, <1>2, AppendFacts
  <1>u. UNCHANGED <<shards, file, trimmed, leaked, outcome>>
    BY DEF AppendToLog, transactionHistory
  <1>t. TransactionsTypeOK /\ Len(batches) \in Nat /\ trimmed \in Nat /\ CallOrdered /\ CallOpen
        /\ DecisionSound(p) /\ SamePersisted(p) /\ Producer(p).last \in Int /\ Saved(p).last \in Int
        /\ Producer(p).first \in Nat /\ Saved(p).first \in Nat
    BY TypeFacts, ProducerFacts, SequenceFacts, DecisionFacts
  <1>s. call.seq \in Nat /\ call.txn \in Transactions
    BY <1>3, <1>t, CallFacts
  <1>4. ASSUME NEW q \in ProducerIds, NEW np \in {shards'[q].producer, file'[q].producer}
        PROVE  OpenListed(q, np)'
    <2>1. np \in {Producer(q), Saved(q)}
      BY <1>u, <1>4 DEF Producer, Saved
    <2>a. OpenListed(q, Producer(q)) /\ OpenListed(q, Saved(q))
      BY ListedFacts
    <2>2. OpenListed(q, np)
      <3>1. CASE np = Producer(q)
        BY <2>a, <3>1
      <3>2. CASE np = Saved(q)
        BY <2>a, <3>2
      <3> QED BY <2>1, <3>1, <3>2
    <2> SUFFICES ASSUME np.status = "Ongoing", <<q, np.txn>> \notin leaked
                 PROVE  /\ np.first <= n
                        /\ \A i \in Of(q)' : trimmed < i /\ batches'[i].txn = np.txn =>
                             /\ 0 < np.first => np.first <= i
                             /\ batches'[i].seq <= np.last => Listed(np, i)
      BY <1>3, <1>u DEF OpenListed, Listed
    <2>3. /\ np.first <= Len(batches)
          /\ \A i \in Of(q) : trimmed < i /\ batches[i].txn = np.txn =>
               /\ 0 < np.first => np.first <= i
               /\ batches[i].seq <= np.last => Listed(np, i)
      BY <2>2 DEF OpenListed
    <2>4. np.first \in Nat
      BY <1>t, <2>1, TypeFacts, ProducerFacts
    <2>5. np.first <= n
      BY <1>2, <1>t, <2>3, <2>4
    <2>6. ASSUME NEW i \in Of(q)', trimmed < i, batches'[i].txn = np.txn
          PROVE  /\ 0 < np.first => np.first <= i
                 /\ batches'[i].seq <= np.last => Listed(np, i)
      <3>1. CASE i \in Of(q)
        BY <1>3, <2>3, <2>6, <3>1
      <3>2. CASE q = p /\ i = n
        <4>1. Producer(p).status = "Ongoing" /\ Producer(p).txn = call.txn
          BY <1>3, <1>t, <2>1, <2>6, <3>2 DEF SamePersisted
        <4>2. Producer(p).epoch = call.epoch
          BY <1>1, <1>3, <1>t, <4>1 DEF CallOpen
        <4>3. Producer(p).last < call.seq
          BY <1>1, <1>3, <1>t, <4>2 DEF CallOrdered
        <4>4. np.last \in Int /\ np.last < call.seq
          BY <1>t, <1>s, <2>1, <3>2, <4>3 DEF SamePersisted
        <4> QED BY <1>3, <1>s, <2>5, <3>2, <4>4
      <3> QED BY <1>3, <3>1, <3>2
    <2> QED BY <2>5, <2>6
  <1>5. ASSUME NEW q \in ProducerIds
        PROVE  AbortedListed(q)'
    <2> SUFFICES ASSUME NEW i \in Of(q)', trimmed < i, outcome[q][batches'[i].txn] = "aborted",
                        <<q, batches'[i].txn>> \notin leaked
                 PROVE  Aborted(i)'
      BY <1>u DEF AbortedListed
    <2>1. CASE i \in Of(q)
      <3>1. batches'[i] = batches[i]
        BY <1>3, <2>1
      <3>2. Aborted(i)
        BY <2>1, <3>1, ListedFacts DEF AbortedListed
      <3> QED BY <1>u, <3>1, <3>2 DEF Aborted
    <2>2. CASE q = p /\ i = n
      <3>1. Producer(p).status = "Ongoing" /\ Producer(p).txn = call.txn
        BY <1>1, <1>3, <1>t, <2>2 DEF CallOpen
      <3>2. outcome[p][call.txn] = "open"
        BY <1>s, <1>t, <3>1 DEF DecisionSound
      <3> QED BY <1>3, <2>2, <3>2
    <2> QED BY <1>3, <2>1, <2>2
  <1> QED BY <1>4, <1>5, ListedNext

\* The log scan finds the batches of the open transaction that the snapshot
\* does not list, in the order of the log and after the ones that it lists.
LEMMA RecoverShardListed ==
    ASSUME TransactionsInv, NEW p \in ProducerIds, RecoverShard(p)
    PROVE  ListedInv'
  <1> DEFINE old == Producer(p)
             R == Replayed(p)
  <1>0. PICK np : np = Recovered(old, R)
    OBVIOUS
  <1>1. /\ shards'[p].producer = np /\ shards'[p].aborted = shards[p].aborted /\ file'[p] = shards'[p]
        /\ \A q \in ProducerIds \ {p} : shards'[q] = shards[q] /\ file'[q] = file[q]
        /\ UNCHANGED <<batches, trimmed>>
    BY <1>0, RecoverFacts
  <1>u. UNCHANGED <<leaked, outcome>>
    BY DEF RecoverShard, transactionHistory
  <1>2. /\ np.status = old.status /\ np.txn = old.txn
        /\ \A i \in Scanned(p) : i \in R => i <= np.off
        /\ R # {} => np.off \in R
        /\ R = {} => np.off = old.off /\ np.last = old.last
        /\ np.first = old.first \/ np.first \in R
        /\ old.first # 0 => np.first = old.first
        /\ old.status = "Ongoing" => \A i \in R : 0 < np.first /\ (old.first = 0 => np.first <= i)
        /\ \A i \in Scanned(p) : old.last <= batches[i].seq => i \in R
    BY <1>0, RecoveredFacts
  <1>t. TransactionsTypeOK /\ Len(batches) \in Nat /\ trimmed \in Nat /\ old.first \in Nat /\ old.off \in Nat
        /\ old.last \in Int /\ old.epoch \in Int
    BY TypeFacts, ProducerFacts, SequenceFacts
  <1>r. /\ R \subseteq Scanned(p) /\ \A i \in Scanned(p) : i \in Nat /\ 0 < i /\ i <= Len(batches) /\ i \in Counted(p)
        /\ \A i \in R : old.last <= batches[i].seq
        /\ \A i \in Scanned(p) : batches[i].epoch = old.epoch /\ batches[i].seq \in Nat
    <2>1. \A i \in Scanned(p) : i \in 1 .. Len(batches) /\ trimmed < i /\ batches[i].pid = p /\ batches[i].epoch = old.epoch
      BY <1>t DEF Scanned
    <2>2. \A i \in 1 .. Len(batches) : batches[i].seq \in Nat
      BY <1>t, TypeFacts
    <2>3. \A i \in Scanned(p) : i \in Counted(p)
      BY <2>1 DEF Counted, Of
    <2>4. \A i \in R : i \in Scanned(p) /\ old.last <= batches[i].seq
      BY <1>t, <2>1, <2>2 DEF Replayed
    <2> QED BY <1>t, <2>1, <2>2, <2>3, <2>4
  <1>d. old = Producer(p)
    OBVIOUS
  <1> HIDE DEF R, old
  <1>3. OpenListed(p, np)'
    <2> SUFFICES ASSUME np.status = "Ongoing", <<p, np.txn>> \notin leaked
                 PROVE  /\ np.first <= Len(batches)
                        /\ \A i \in Of(p) : trimmed < i /\ batches[i].txn = np.txn =>
                             /\ 0 < np.first => np.first <= i
                             /\ batches[i].seq <= np.last => Listed(np, i)
      BY <1>1, <1>u DEF OpenListed, Listed, Of
    <2>1. OpenListed(p, old)
      BY <1>d, ListedFacts
    <2>2. /\ old.first <= Len(batches)
          /\ \A i \in Of(p) : trimmed < i /\ batches[i].txn = np.txn =>
               /\ 0 < old.first => old.first <= i
               /\ batches[i].seq <= old.last => Listed(old, i)
      BY <1>2, <2>1 DEF OpenListed
    <2>3. np.first <= Len(batches)
      BY <1>2, <1>r, <2>2
    <2>4. ASSUME NEW i \in Of(p), trimmed < i, batches[i].txn = np.txn
          PROVE  /\ 0 < np.first => np.first <= i
                 /\ Listed(np, i)
      <3>1. i \in Scanned(p)
        <4>1. batches[i].epoch = old.epoch
          BY <1>2, <1>d, <2>4, DecisionFacts DEF DecisionSound
        <4>2. i \in 1 .. Len(batches) /\ batches[i].pid = p
          BY DEF Of
        <4> QED BY <1>t, <1>d, <2>4, <4>1, <4>2 DEF Scanned
      <3>2. CASE i \in R
        <4>1. 0 < np.first /\ i <= np.off
          BY <1>2, <3>1, <3>2
        <4>2. np.first <= i
          BY <1>2, <1>t, <2>2, <2>4, <3>2
        <4> QED BY <4>1, <4>2 DEF Listed
      <3>3. CASE i \notin R
        <4>1. batches[i].seq < old.last
          BY <1>2, <1>r, <1>t, <3>1, <3>3
        <4>2. Listed(old, i)
          BY <1>r, <1>t, <2>2, <2>4, <3>1, <4>1
        <4>3. np.first = old.first /\ 0 < np.first /\ np.first <= i
          BY <1>2, <1>t, <4>2 DEF Listed
        <4>4. i <= np.off
          <5>1. CASE R = {}
            BY <1>2, <4>2, <5>1 DEF Listed
          <5>2. CASE R # {}
            <6>1. np.off \in R /\ np.off \in Scanned(p) /\ np.off \in Counted(p) /\ i \in Counted(p)
              BY <1>2, <1>r, <3>1, <5>2
            <6>2. batches[i].seq < batches[np.off].seq
              BY <1>r, <1>t, <3>1, <4>1, <6>1
            <6>3. np.off < i => Earlier(np.off, batches[i].epoch, batches[i].seq)
              BY <6>1, SequenceFacts DEF LogOrdered
            <6>4. ~Earlier(np.off, batches[i].epoch, batches[i].seq)
              BY <1>r, <1>t, <3>1, <6>1, <6>2 DEF Earlier
            <6> QED BY <1>r, <3>1, <6>1, <6>3, <6>4
          <5> QED BY <5>1, <5>2
        <4> QED BY <4>3, <4>4 DEF Listed
      <3> QED BY <3>2, <3>3
    <2> QED BY <2>3, <2>4
  <1>4. \A x \in {shards'[p].producer, file'[p].producer} : OpenListed(p, x)'
    BY <1>1, <1>3
  <1> QED BY <1>1, <1>u, <1>4, ListedPersisted

\* A crash that takes a batch a snapshot lists leaves its transaction open to
\* doubt.
LEMMA CrashListed ==
    ASSUME TransactionsInv, BrokerCrash
    PROVE  ListedInv'
  <1>1. PICK n \in Nat : /\ trimmed <= n /\ n <= Len(batches) /\ Len(batches') = n
                         /\ leaked' = leaked \cup {<<p, file[p].producer.txn>> : p \in Ahead(n)}
                         /\ \A q \in ProducerIds : /\ Of(q)' \subseteq Of(q)
                                                   /\ \A i \in Of(q)' : batches'[i] = batches[i] /\ i <= n
    BY CrashFacts
  <1>u. shards' = file /\ UNCHANGED <<file, trimmed, outcome>>
    BY DEF BrokerCrash
  <1>t. TransactionsTypeOK /\ trimmed \in Nat
    BY TypeFacts DEF TransactionsInv
  <1>2. ASSUME NEW q \in ProducerIds, NEW np \in {shards'[q].producer, file'[q].producer}
        PROVE  OpenListed(q, np)'
    <2>1. np = Saved(q)
      BY <1>u, <1>2 DEF Saved
    <2>a. OpenListed(q, Producer(q)) /\ OpenListed(q, Saved(q))
      BY ListedFacts
    <2>2. OpenListed(q, np)
      <3>1. CASE np = Producer(q)
        BY <2>a, <3>1
      <3>2. CASE np = Saved(q)
        BY <2>a, <3>2
      <3> QED BY <2>1, <3>1, <3>2
    <2>3. np.first \in Nat
      BY <1>t, <2>1, TypeFacts, ProducerFacts
    <2>4. np.first <= n \/ <<q, np.txn>> \in leaked'
      BY <1>1, <2>1, <2>3 DEF Ahead, Saved
    <2>5. (leaked \subseteq leaked' /\ np.first <= Len(batches')) \/ <<q, np.txn>> \in leaked'
      BY <1>1, <2>4
    <2> QED BY <1>1, <1>u, <1>t, <2>2, <2>5, OpenListedStays
  <1>3. ASSUME NEW q \in ProducerIds
        PROVE  AbortedListed(q)'
    <2>1. shards[q].aborted = shards'[q].aborted
      BY <1>u, SequenceFacts DEF SamePersisted
    <2> QED BY <1>1, <1>u, <1>t, <2>1, AbortedStays
  <1> QED BY <1>2, <1>3, ListedNext

-----------------------------------------------------------------------------
(* Consumer-group offsets *)

\* The parts of the invariant on offsets.
LEMMA OffsetFacts ==
    ASSUME TransactionsInv
    PROVE  /\ OwedStaged /\ OffsetsOnlyFromCommitted
           /\ \A p \in ProducerIds : OffsetsSound(p)
           /\ \A h \in Requests : HandlerSound(h)
           /\ TransactionsTypeOK
           /\ \A o \in owed : o[1] \in ProducerIds /\ o[2] \in Transactions
           /\ \A p \in ProducerIds : groupOffset[p] \in 0 .. MaxTxns /\ (groupOffset[p] # 0 => groupOffset[p] \in Transactions)
           /\ \A p \in ProducerIds : Producer(p).offsets \subseteq Transactions
  <1>1. TransactionsTypeOK
    BY DEF TransactionsInv
  <1>2. \A p \in ProducerIds : groupOffset[p] \in 0 .. MaxTxns /\ (groupOffset[p] # 0 => groupOffset[p] \in Transactions)
    BY <1>1, TransactionsAssumption DEF TransactionsTypeOK, Transactions
  <1>3. \A o \in owed : o[1] \in ProducerIds /\ o[2] \in Transactions
    BY <1>1 DEF TransactionsTypeOK
  <1>4. \A p \in ProducerIds : Producer(p).offsets \subseteq Transactions
    BY <1>1, TypeFacts, ProducerFacts
  <1> QED BY <1>1, <1>2, <1>3, <1>4 DEF TransactionsInv, OffsetsInv

\* A step that keeps committed decisions, the group's offsets and what is
\* staged, but for the producer p.
LEMMA OffsetsKept ==
    ASSUME TransactionsInv, NEW p \in ProducerIds,
           \A q \in ProducerIds \ {p} : /\ shards'[q].producer.offsets = Producer(q).offsets
                                        /\ shards'[q].producer.status = Producer(q).status
                                        /\ shards'[q].producer.txn = Producer(q).txn,
           \A q \in ProducerIds, n \in Transactions : outcome[q][n] = "committed" => outcome'[q][n] = "committed",
           UNCHANGED groupOffset,
           \A o \in owed' : (o \in owed /\ o[1] # p) \/ (o[1] = p /\ o[2] \in shards'[p].producer.offsets),
           OffsetsSound(p)',
           \A h \in Requests : \/ handlers'[h] = handlers[h]
                               \/ handlers'[h] = NoHandler
                               \/ /\ handlers'[h].pid = p /\ handlers'[h].offsets = Producer(p).offsets
                                  /\ handlers'[h].offsets # {}
                                  /\ \A n \in Producer(p).offsets : outcome'[p][n] = "committed"
    PROVE  OffsetsInv'
  <1>1. OwedStaged'
    BY OffsetFacts DEF OwedStaged, Producer
  <1>2. OffsetsOnlyFromCommitted'
    BY OffsetFacts DEF OffsetsOnlyFromCommitted
  <1>3. ASSUME NEW q \in ProducerIds
        PROVE  OffsetsSound(q)'
    <2>1. CASE q # p
      <3>1. OffsetsSound(q) /\ Producer(q).offsets \subseteq Transactions
        BY OffsetFacts
      <3> QED BY <2>1, <3>1 DEF OffsetsSound, Producer
    <2> QED BY <2>1
  <1>4. ASSUME NEW h \in Requests
        PROVE  HandlerSound(h)'
    <2>1. CASE handlers'[h] = handlers[h]
      <3> SUFFICES ASSUME handlers[h] # NoHandler
                   PROVE  HandlerSound(h)'
        BY <2>1 DEF HandlerSound
      <3>1. HandlerSound(h) /\ handlers[h].pid \in ProducerIds /\ handlers[h].offsets \subseteq Transactions
        BY OffsetFacts, HandlerFacts
      <3> QED BY <2>1, <3>1 DEF HandlerSound
    <2>2. CASE handlers'[h] = NoHandler
      BY <2>2 DEF HandlerSound
    <2>3. CASE /\ handlers'[h].pid = p /\ handlers'[h].offsets = Producer(p).offsets
               /\ handlers'[h].offsets # {}
               /\ \A n \in Producer(p).offsets : outcome'[p][n] = "committed"
      BY <2>3, OffsetFacts DEF HandlerSound, OffsetsSound
    <2> QED BY <2>1, <2>2, <2>3
  <1> QED BY <1>1, <1>2, <1>3, <1>4 DEF OffsetsInv

\* A step that keeps what is staged, decided and applied.
LEMMA OffsetsSame ==
    ASSUME TransactionsInv,
           \A q \in ProducerIds : /\ shards'[q].producer.offsets = Producer(q).offsets
                                  /\ shards'[q].producer.status = Producer(q).status
                                  /\ shards'[q].producer.txn = Producer(q).txn,
           UNCHANGED <<outcome, groupOffset>>, owed' \subseteq owed,
           \A h \in Requests : handlers'[h] = handlers[h] \/ handlers'[h] = NoHandler
    PROVE  OffsetsInv'
  <1>1. OwedStaged' /\ OffsetsOnlyFromCommitted'
    BY OffsetFacts DEF OwedStaged, OffsetsOnlyFromCommitted, Producer
  <1>2. \A q \in ProducerIds : OffsetsSound(q)'
    BY OffsetFacts DEF OffsetsSound, Producer
  <1>3. \A h \in Requests : HandlerSound(h)'
    BY OffsetFacts DEF HandlerSound
  <1> QED BY <1>1, <1>2, <1>3 DEF OffsetsInv

\* A new decision on a transaction that is open or has not begun.
LEMMA CommittedFinal ==
    ASSUME TransactionsInv, NEW p \in ProducerIds, NEW n \in Transactions, NEW v,
           outcome' = [outcome EXCEPT ![p][n] = v], outcome[p][n] # "committed" \/ v = "committed"
    PROVE  /\ \A q \in ProducerIds, m \in Transactions : outcome[q][m] = "committed" => outcome'[q][m] = "committed"
           /\ outcome'[p][n] = v
  BY OffsetFacts DEF TransactionsTypeOK

\* init_producer() drops what is staged.
LEMMA InitProducerOffsets ==
    ASSUME TransactionsInv, NEW p \in ProducerIds, InitProducer(p)
    PROVE  OffsetsInv'
  <1> DEFINE np == Fresh(Producer(p).epoch + 1)
  <1>1. /\ shards'[p].producer = np /\ \A q \in ProducerIds \ {p} : shards'[q] = shards[q]
        /\ np.offsets = {}
    BY InitProducerFacts
  <1> HIDE DEF np
  <1>2. \A q \in ProducerIds, n \in Transactions : outcome[q][n] = "committed" => outcome'[q][n] = "committed"
    <2>1. CASE Producer(p).status = "Ongoing"
      <3>1. outcome' = [outcome EXCEPT ![p][Producer(p).txn] = "abandoned"]
        BY <2>1 DEF InitProducer
      <3>2. Producer(p).txn \in Transactions /\ outcome[p][Producer(p).txn] = "open"
        BY <2>1, OpenBegun
      <3> QED BY <3>1, <3>2, CommittedFinal
    <2>2. CASE Producer(p).status # "Ongoing"
      BY <2>2 DEF InitProducer
    <2> QED BY <2>1, <2>2
  <1>3. OffsetsSound(p)'
    BY <1>1 DEF OffsetsSound, Producer
  <1>4. UNCHANGED <<groupOffset, handlers>> /\ owed' = {o \in owed : o[1] # p}
    BY DEF InitProducer
  <1> QED BY <1>1, <1>2, <1>3, <1>4, OffsetsKept DEF Producer

\* add_partitions() keeps what is staged.
LEMMA AddPartitionsOffsets ==
    ASSUME TransactionsInv, NEW p \in ProducerIds, NEW epoch \in ProducerEpochs, AddPartitions(p, epoch)
    PROVE  OffsetsInv'
  <1> DEFINE old == Producer(p)
             n == IF old.status = "Ongoing" THEN old.txn ELSE txns[p] + 1
             np == [old EXCEPT !.status = "Ongoing", !.txn = n]
  <1>1. /\ shards'[p].producer = np /\ \A q \in ProducerIds \ {p} : shards'[q] = shards[q]
        /\ np.offsets = old.offsets /\ np.status = "Ongoing" /\ np.txn = n
        /\ n \in Transactions /\ outcome' = [outcome EXCEPT ![p][n] = "open"]
    BY AddPartitionsFacts
  <1>n. /\ old.status = "Ongoing" => n = old.txn
        /\ old.status # "Ongoing" => n = txns[p] + 1
    OBVIOUS
  <1> HIDE DEF np, n
  <1>t. DecisionSound(p) /\ txns[p] \in Nat
    BY DecisionFacts
  <1>2. outcome[p][n] # "committed"
    <2>1. CASE old.status = "Ongoing"
      BY <1>n, <2>1, OpenBegun
    <2>2. CASE old.status # "Ongoing"
      <3>1. n > txns[p]
        BY <1>n, <1>t, <2>2
      <3>2. outcome[p][n] = "none"
        BY <1>1, <1>t, <3>1 DEF DecisionSound
      <3> QED BY <3>2
    <2> QED BY <2>1, <2>2
  <1>3. \A q \in ProducerIds, m \in Transactions : outcome[q][m] = "committed" => outcome'[q][m] = "committed"
    BY <1>1, <1>2, CommittedFinal
  <1>4. OffsetsSound(p)'
    <2>1. OffsetsSound(p) /\ old.offsets \subseteq Transactions
      BY OffsetFacts
    <2> QED BY <1>1, <1>n, <1>3, <2>1 DEF OffsetsSound, Producer
  <1>5. UNCHANGED <<groupOffset, handlers, owed>>
    BY DEF AddPartitions
  <1>6. \A o \in owed' : (o \in owed /\ o[1] # p) \/ (o[1] = p /\ o[2] \in shards'[p].producer.offsets)
    BY <1>1, <1>5, OffsetFacts DEF OwedStaged
  <1> QED BY <1>1, <1>3, <1>4, <1>5, <1>6, OffsetsKept DEF Producer

\* stage_offsets() replaces them.
LEMMA StageOffsetsOffsets ==
    ASSUME TransactionsInv, NEW p \in ProducerIds, NEW epoch \in ProducerEpochs, StageOffsets(p, epoch)
    PROVE  OffsetsInv'
  <1> DEFINE old == Producer(p)
             np == [old EXCEPT !.offsets = {old.txn}]
  <1>1. /\ shards'[p].producer = np /\ \A q \in ProducerIds \ {p} : shards'[q] = shards[q]
        /\ np.offsets = {old.txn} /\ np.status = old.status /\ np.txn = old.txn /\ old.status = "Ongoing"
    BY StageOffsetsFacts
  <1> HIDE DEF np
  <1>2. OffsetsSound(p)'
    BY <1>1 DEF OffsetsSound, Producer
  <1>3. UNCHANGED <<groupOffset, handlers, outcome>> /\ owed' = {o \in owed : o[1] # p}
    BY DEF StageOffsets
  <1> QED BY <1>1, <1>2, <1>3, OffsetsKept DEF Producer

\* The end of a transaction: a commit keeps its offsets, an abort drops them,
\* and only a commit hands them to the group.
LEMMA EndOffsets ==
    ASSUME TransactionsInv, NEW p \in ProducerIds, NEW commit \in BOOLEAN, EndOpen(p, commit), UNCHANGED groupOffset,
           \/ UNCHANGED handlers
           \/ commit /\ \A h \in Requests : \/ handlers'[h] = handlers[h]
                                            \/ /\ handlers'[h].pid = p /\ handlers'[h].offsets = Producer(p).offsets
                                               /\ handlers'[h].offsets # {}
    PROVE  OffsetsInv'
  <1> DEFINE old == Producer(p)
             np == shards'[p].producer
  <1>1. /\ old.status = "Ongoing" /\ old.txn \in Transactions
        /\ \A q \in ProducerIds \ {p} : shards'[q] = shards[q]
        /\ np.offsets = IF commit THEN old.offsets ELSE {}
        /\ outcome' = [outcome EXCEPT ![p][old.txn] = IF commit THEN "committed" ELSE "aborted"]
        /\ owed' = IF commit THEN owed \cup {<<p, n>> : n \in old.offsets} ELSE {o \in owed : o[1] # p}
    BY EndOpenFacts
  <1>2. outcome[p][old.txn] = "open"
    BY <1>1, OpenBegun
  <1>3. /\ \A q \in ProducerIds, n \in Transactions : outcome[q][n] = "committed" => outcome'[q][n] = "committed"
        /\ outcome'[p][old.txn] = IF commit THEN "committed" ELSE "aborted"
    <2>1. PICK v : v = IF commit THEN "committed" ELSE "aborted"
      OBVIOUS
    <2>0. PICK k \in Transactions : k = old.txn
      BY <1>1
    <2>2. outcome' = [outcome EXCEPT ![p][k] = v] /\ outcome[p][k] # "committed"
      BY <1>1, <1>2, <2>0, <2>1
    <2>3. /\ \A q \in ProducerIds, n \in Transactions : outcome[q][n] = "committed" => outcome'[q][n] = "committed"
          /\ outcome'[p][k] = v
      BY <2>2, CommittedFinal
    <2> QED BY <2>0, <2>1, <2>3
  <1>4. OffsetsSound(p) /\ OwedStaged /\ old.offsets \subseteq Transactions
    BY OffsetFacts
  <1>5. commit => \A n \in old.offsets : outcome'[p][n] = "committed"
    BY <1>3, <1>4 DEF OffsetsSound
  <1>6. OffsetsSound(p)'
    BY <1>1, <1>4, <1>5 DEF OffsetsSound, Producer
  <1>7. \A o \in owed' : (o \in owed /\ o[1] # p) \/ (o[1] = p /\ o[2] \in shards'[p].producer.offsets)
    <2>1. CASE commit
      BY <1>1, <1>4, <2>1 DEF OwedStaged
    <2>2. CASE ~commit
      BY <1>1, <2>2
    <2> QED BY <2>1, <2>2
  <1>8. \A h \in Requests : \/ handlers'[h] = handlers[h]
                            \/ handlers'[h] = NoHandler
                            \/ /\ handlers'[h].pid = p /\ handlers'[h].offsets = old.offsets
                               /\ handlers'[h].offsets # {}
                               /\ \A n \in old.offsets : outcome'[p][n] = "committed"
    BY <1>5
  <1>9. \A q \in ProducerIds \ {p} : /\ shards'[q].producer.offsets = Producer(q).offsets
                                     /\ shards'[q].producer.status = Producer(q).status
                                     /\ shards'[q].producer.txn = Producer(q).txn
    BY <1>1 DEF Producer
  <1> HIDE DEF np
  <1> QED BY <1>3, <1>6, <1>7, <1>8, <1>9, OffsetsKept

\* A producer that has committed hands over what is staged once more.
LEMMA HandleOffsets ==
    ASSUME TransactionsInv, NEW p \in ProducerIds, NEW epoch \in ProducerEpochs, Producer(p).status = "Committed",
           Handle(p, epoch, Producer(p).offsets), UNCHANGED <<shards, outcome, groupOffset, owed>>
    PROVE  OffsetsInv'
  <1>1. OffsetsSound(p) /\ OwedStaged /\ Producer(p).offsets \in SUBSET Transactions /\ TransactionsTypeOK
    BY OffsetFacts
  <1>2. \A n \in Producer(p).offsets : outcome'[p][n] = "committed"
    BY <1>1 DEF OffsetsSound
  <1>3. \A h \in Requests : \/ handlers'[h] = handlers[h]
                            \/ /\ handlers'[h].pid = p /\ handlers'[h].offsets = Producer(p).offsets
                               /\ Producer(p).offsets # {}
    BY <1>1, HandleFacts
  <1>4. OffsetsSound(p)'
    BY <1>1 DEF OffsetsSound, Producer
  <1>5. \A o \in owed' : (o \in owed /\ o[1] # p) \/ (o[1] = p /\ o[2] \in shards'[p].producer.offsets)
    BY <1>1 DEF OwedStaged, Producer
  <1>6. \A q \in ProducerIds \ {p} : /\ shards'[q].producer.offsets = Producer(q).offsets
                                     /\ shards'[q].producer.status = Producer(q).status
                                     /\ shards'[q].producer.txn = Producer(q).txn
    BY DEF Producer
  <1>7. \A q \in ProducerIds, n \in Transactions : outcome[q][n] = "committed" => outcome'[q][n] = "committed"
    OBVIOUS
  <1> QED BY <1>2, <1>3, <1>4, <1>5, <1>6, <1>7, OffsetsKept

\* The group gets the offsets of a committed transaction.
LEMMA ApplyOffsetsOffsets ==
    ASSUME TransactionsInv, NEW h \in Requests, ApplyOffsets(h)
    PROVE  OffsetsInv'
  <1> DEFINE r == handlers[h]
  <1>1. /\ r # NoHandler /\ groupOffset' = [groupOffset EXCEPT ![r.pid] = Max(r.offsets)]
        /\ owed' \subseteq owed /\ handlers' = [handlers EXCEPT ![h].step = "mark"]
        /\ UNCHANGED <<shards, outcome>>
    BY DEF ApplyOffsets
  <1>2. /\ Max(r.offsets) \in r.offsets /\ r.pid \in ProducerIds
        /\ outcome[r.pid][Max(r.offsets)] = "committed"
    BY <1>1, AppliedOffset
  <1>3. OffsetsOnlyFromCommitted'
    BY <1>1, <1>2, OffsetFacts DEF OffsetsOnlyFromCommitted, TransactionsTypeOK
  <1>4. OwedStaged' /\ \A q \in ProducerIds : OffsetsSound(q)'
    BY <1>1, OffsetFacts DEF OwedStaged, OffsetsSound, Producer
  <1>5. r \in Handler /\ TransactionsTypeOK
    BY <1>1, OffsetFacts, HandlerFacts
  <1>6. /\ handlers'[h].pid = r.pid /\ handlers'[h].offsets = r.offsets
        /\ \A k \in Requests \ {h} : handlers'[k] = handlers[k]
    BY <1>1, <1>5 DEF Handler, TransactionsTypeOK
  <1>7. ASSUME NEW k \in Requests
        PROVE  HandlerSound(k)'
    <2>1. HandlerSound(k) /\ HandlerSound(h)
      BY OffsetFacts
    <2> QED BY <1>1, <1>6, <2>1 DEF HandlerSound
  <1> QED BY <1>3, <1>4, <1>7 DEF OffsetsInv

\* mark_offsets_applied() drops what is staged.
LEMMA MarkAppliedOffsets ==
    ASSUME TransactionsInv, NEW h \in Requests, MarkApplied(h)
    PROVE  OffsetsInv'
  <1>1. PICK p \in ProducerIds : p = handlers[h].pid
    BY MarkFacts
  <1>2. handlers' = [handlers EXCEPT ![h] = NoHandler] /\ TransactionsTypeOK
    BY MarkFacts, OffsetFacts
  <1>3. \A k \in Requests : handlers'[k] = handlers[k] \/ handlers'[k] = NoHandler
    BY <1>2 DEF TransactionsTypeOK
  <1>4. UNCHANGED <<outcome, groupOffset>>
    BY DEF MarkApplied
  <1>5. CASE UNCHANGED <<shards, owed>>
    BY <1>3, <1>4, <1>5, OffsetsSame DEF Producer
  <1>6. CASE ~UNCHANGED <<shards, owed>>
    <2>1. /\ \A q \in ProducerIds \ {p} : shards'[q] = shards[q]
          /\ shards'[p].producer.offsets = {} /\ owed' = {o \in owed : o[1] # p}
      BY <1>1, <1>6, MarkFacts
    <2>2. OffsetsSound(p)'
      BY <2>1 DEF OffsetsSound, Producer
    <2> QED BY <1>3, <1>4, <2>1, <2>2, OffsetsKept DEF Producer
  <1> QED BY <1>5, <1>6

-----------------------------------------------------------------------------
(* Every step preserves the invariant *)

\* The requests of a producer that write its shard.
LEMMA ProducerSteps ==
    ASSUME TransactionsInv,
           \/ \E p \in ProducerIds : InitProducer(p)
           \/ \E p \in ProducerIds, epoch \in ProducerEpochs : AddPartitions(p, epoch) \/ StageOffsets(p, epoch)
    PROVE  TransactionsInv'
  <1>1. ASSUME NEW p \in ProducerIds, InitProducer(p)
        PROVE  TransactionsInv'
    <2>u. UNCHANGED <<dirty, flushTaken, batches, trimmed, call, phase, recovered, lost, skipped>>
      BY <1>1 DEF InitProducer, PersistProducer, Persist, partitionDisk, brokerState, otherHistory
    <2>1. PICK np : np = Fresh(Producer(p).epoch + 1)
      OBVIOUS
    <2>2. /\ np \in ProducerState /\ shards' \in [ProducerIds -> TransactionShard]
          /\ shards'[p].producer = np /\ file'[p] = shards'[p]
          /\ \A q \in ProducerIds \ {p} : shards'[q] = shards[q] /\ file'[q] = file[q]
          /\ np.pend = None /\ Producer(p).epoch < np.epoch
      BY <1>1, <2>1, InitProducerFacts
    <2>3. FileInv'
      BY <2>u, <2>2, FilesPersisted
    <2>4. SequenceInv'
      BY <2>u, <2>2, SequencesKept
    <2> QED BY <1>1, <2>3, <2>4, InitProducerTypes, InitProducerDecisions, ProducerListed, InitProducerOffsets
            DEF TransactionsInv
  <1>2. ASSUME NEW p \in ProducerIds, NEW epoch \in ProducerEpochs, AddPartitions(p, epoch)
        PROVE  TransactionsInv'
    <2>u. UNCHANGED <<dirty, flushTaken, batches, trimmed, call, phase, recovered, lost, skipped>>
      BY <1>2 DEF AddPartitions, PersistProducer, Persist, partitionDisk, brokerState, otherHistory
    <2>1. PICK np : np = shards'[p].producer
      OBVIOUS
    <2>2. /\ np \in ProducerState /\ shards' \in [ProducerIds -> TransactionShard] /\ file'[p] = shards'[p]
          /\ \A q \in ProducerIds \ {p} : shards'[q] = shards[q] /\ file'[q] = file[q]
          /\ np.epoch = Producer(p).epoch /\ np.last = Producer(p).last /\ np.pend = Producer(p).pend
      BY <1>2, <2>1, AddPartitionsFacts, ZenonT(60)
    <2>3. FileInv'
      BY <2>u, <2>2, FilesPersisted
    <2>4. SequenceInv'
      BY <2>u, <2>1, <2>2, SequencesKept
    <2> QED BY <1>2, <2>3, <2>4, AddPartitionsTypes, AddPartitionsDecisions, AddPartitionsListed, AddPartitionsOffsets
            DEF TransactionsInv
  <1>3. ASSUME NEW p \in ProducerIds, NEW epoch \in ProducerEpochs, StageOffsets(p, epoch)
        PROVE  TransactionsInv'
    <2>u. UNCHANGED <<dirty, flushTaken, batches, trimmed, call, phase, recovered, lost, skipped, txns, outcome, leaked>>
      BY <1>3 DEF StageOffsets, PersistProducer, Persist, partitionDisk, brokerState, otherHistory
    <2>1. PICK np : np = shards'[p].producer
      OBVIOUS
    <2>2. /\ np \in ProducerState /\ shards' \in [ProducerIds -> TransactionShard] /\ file'[p] = shards'[p]
          /\ \A q \in ProducerIds \ {p} : shards'[q] = shards[q] /\ file'[q] = file[q]
          /\ np.epoch = Producer(p).epoch /\ np.last = Producer(p).last /\ np.pend = Producer(p).pend
          /\ np.status = Producer(p).status /\ np.txn = Producer(p).txn
      BY <1>3, <2>1, StageOffsetsFacts
    <2>3. FileInv'
      BY <2>u, <2>2, FilesPersisted
    <2>4. SequenceInv'
      BY <2>u, <2>1, <2>2, SequencesKept
    <2>5. DecisionInv'
      <3>1. \A q \in ProducerIds : /\ shards'[q].producer.epoch = Producer(q).epoch
                                   /\ shards'[q].producer.status = Producer(q).status
                                   /\ shards'[q].producer.txn = Producer(q).txn
                                   /\ Of(q)' = Of(q)
        BY <2>u, <2>1, <2>2 DEF Producer, Of
      <3> QED BY <2>u, <3>1, DecisionsSame
    <2> QED BY <1>3, <2>3, <2>4, <2>5, StageOffsetsTypes, ProducerListed, StageOffsetsOffsets DEF TransactionsInv
  <1> QED BY <1>1, <1>2, <1>3

\* A step that leaves shards, files, log and decisions alone.
LEMMA QuietStep ==
    ASSUME TransactionsInv,
           UNCHANGED <<shards, file, dirty, flushTaken, batches, trimmed, call, phase, recovered, lost, skipped,
                       txns, outcome, leaked>>
    PROVE  FileInv' /\ SequenceInv' /\ DecisionInv' /\ ListedInv'
  <1>1. FileInv' /\ SequenceInv'
    BY FilesSame, SequencesSame
  <1>2. DecisionInv'
    <2>1. \A q \in ProducerIds : Of(q)' = Of(q)
      BY DEF Of
    <2> QED BY <2>1, DecisionsSame DEF Producer
  <1>3. ListedInv'
    <2>1. trimmed \in Nat
      BY TypeFacts DEF TransactionsInv
    <2> QED BY <2>1, ListedSame
  <1> QED BY <1>1, <1>2, <1>3

\* The end of a transaction.
LEMMA EndOpenSteps ==
    ASSUME TransactionsInv, NEW p \in ProducerIds, NEW commit \in BOOLEAN, EndOpen(p, commit), commit => ~InFlight(p),
           UNCHANGED <<flushTaken, batches, trimmed, call, phase, recovered, lost, skipped, txns>>
    PROVE  FileInv' /\ SequenceInv' /\ DecisionInv' /\ ListedInv'
  <1>1. PICK np : np = shards'[p].producer
    OBVIOUS
  <1>2. /\ np \in ProducerState /\ shards' \in [ProducerIds -> TransactionShard] /\ file'[p] = shards'[p] /\ dirty' = dirty
        /\ \A q \in ProducerIds \ {p} : shards'[q] = shards[q] /\ file'[q] = file[q]
        /\ np.epoch = Producer(p).epoch /\ np.last = Producer(p).last /\ np.pend = Producer(p).pend
    BY <1>1, EndOpenFacts
  <1>3. FileInv'
    BY <1>2, FilesPersisted
  <1>4. SequenceInv'
    BY <1>1, <1>2, SequencesKept
  <1> QED BY <1>3, <1>4, EndOpenDecisions, EndOpenListed

\* end_txn() and the expiry of a transaction preserve the inductive invariant.
LEMMA EndSteps ==
    ASSUME TransactionsInv,
           \/ \E p \in ProducerIds, epoch \in ProducerEpochs, commit \in BOOLEAN : EndTxn(p, epoch, commit)
           \/ \E p \in ProducerIds : ExpireTransaction(p)
    PROVE  TransactionsInv'
  <1>t. TransactionsTypeOK' /\ TransactionsTypeOK
    BY EndTypes DEF TransactionsInv
  <1>1. ASSUME NEW p \in ProducerIds, ExpireTransaction(p)
        PROVE  TransactionsInv'
    <2>1. /\ EndOpen(p, FALSE)
          /\ UNCHANGED <<flushTaken, batches, trimmed, call, phase, recovered, lost, skipped, txns, groupOffset, handlers>>
      BY <1>1 DEF ExpireTransaction, partitionDisk, brokerState, otherHistory
    <2>2. OffsetsInv'
      BY <2>1, EndOffsets
    <2> QED BY <1>t, <2>1, <2>2, EndOpenSteps DEF TransactionsInv
  <1>2. ASSUME NEW p \in ProducerIds, NEW epoch \in ProducerEpochs, NEW commit \in BOOLEAN, EndTxn(p, epoch, commit)
        PROVE  TransactionsInv'
    <2>u. UNCHANGED <<flushTaken, batches, trimmed, call, phase, recovered, lost, skipped, txns, groupOffset>>
      BY <1>2 DEF EndTxn, partitionDisk, brokerState, otherHistory
    <2>1. (commit => ~InFlight(p)) /\ (commit => Handle(p, epoch, Producer(p).offsets)) /\ (~commit => UNCHANGED handlers)
      BY <1>2 DEF EndTxn
    <2>2. Producer(p).offsets \in SUBSET Transactions
      BY OffsetFacts
    <2>3. CASE EndOpen(p, commit)
      <3>1. \/ UNCHANGED handlers
            \/ commit /\ \A h \in Requests : \/ handlers'[h] = handlers[h]
                                             \/ /\ handlers'[h].pid = p /\ handlers'[h].offsets = Producer(p).offsets
                                                /\ handlers'[h].offsets # {}
        <4>1. CASE commit
          <5>1. Handle(p, epoch, Producer(p).offsets)
            BY <2>1, <4>1
          <5>2. \A h \in Requests : \/ handlers'[h] = handlers[h]
                                    \/ /\ handlers'[h].pid = p /\ handlers'[h].offsets = Producer(p).offsets
                                       /\ Producer(p).offsets # {}
            BY <1>t, <2>2, <5>1, HandleFacts
          <5> QED BY <4>1, <5>2
        <4>2. CASE ~commit
          BY <2>1, <4>2
        <4> QED BY <4>1, <4>2
      <3>2. OffsetsInv'
        BY <2>u, <2>3, <3>1, EndOffsets
      <3> QED BY <1>t, <2>u, <2>1, <2>3, <3>2, EndOpenSteps DEF TransactionsInv
    <2>4. CASE /\ commit /\ Producer(p).status = "Committed"
               /\ UNCHANGED <<shards, file, dirty, outcome, leaked, owed>>
      <3>1. OffsetsInv'
        BY <2>u, <2>1, <2>4, HandleOffsets
      <3> QED BY <1>t, <2>u, <2>4, <3>1, QuietStep DEF TransactionsInv
    <2> QED BY <1>2, <2>3, <2>4 DEF EndTxn
  <1> QED BY <1>1, <1>2

\* produce(), and the checkpoint after it.
LEMMA ProduceSteps ==
    ASSUME TransactionsInv,
           \/ \E p \in ProducerIds, epoch \in ProducerEpochs, seq \in 0 .. MaxLog : PrepareAppend(p, epoch, seq)
           \/ AppendToLogFails
           \/ CompleteAppend
           \/ AppendToLog
           \/ Checkpoint
    PROVE  TransactionsInv'
  <1>t. TransactionsTypeOK
    BY DEF TransactionsInv
  <1>1. ASSUME NEW p \in ProducerIds, NEW epoch \in ProducerEpochs, NEW seq \in 0 .. MaxLog, PrepareAppend(p, epoch, seq)
        PROVE  TransactionsInv'
    <2>1. OffsetsInv'
      <3>1. PICK np : np = [Producer(p) EXCEPT !.pend = seq]
        OBVIOUS
      <3>2. /\ shards'[p].producer = np /\ \A q \in ProducerIds \ {p} : shards'[q] = shards[q]
            /\ np.offsets = Producer(p).offsets /\ np.status = Producer(p).status /\ np.txn = Producer(p).txn
        BY <1>1, <3>1, PrepareFacts
      <3>3. UNCHANGED <<outcome, groupOffset, owed, handlers>>
        BY <1>1 DEF PrepareAppend, transactionHistory
      <3> QED BY <3>2, <3>3, OffsetsSame DEF Producer
    <2>2. SequenceInv'
      BY <1>1, PrepareAppendSequences
    <2>3. TransactionsTypeOK' /\ FileInv' /\ DecisionInv' /\ ListedInv'
      BY <1>1, ProduceTypes, ProduceFiles, ProduceDecisions, MarkedListed
    <2> QED BY <2>1, <2>2, <2>3 DEF TransactionsInv
  <1>2. CASE AppendToLogFails
    <2>1. OffsetsInv'
      <3>0. call # NoCall /\ CancelAppend(call.pid, call.epoch, call.seq) /\ UNCHANGED <<outcome, groupOffset, owed, handlers>>
        BY <1>2 DEF AppendToLogFails, transactionHistory
      <3>1. PICK p \in ProducerIds : p = call.pid
        BY <1>t, <3>0, CallFacts
      <3>2. PICK np : np = shards'[p].producer
        OBVIOUS
      <3>3. /\ \A q \in ProducerIds \ {p} : shards'[q] = shards[q]
            /\ np = [Producer(p) EXCEPT !.pend = np.pend] /\ Producer(p) \in ProducerState
        BY <1>t, <3>0, <3>1, <3>2, CancelFacts, TypeFacts
      <3>4. np.offsets = Producer(p).offsets /\ np.status = Producer(p).status /\ np.txn = Producer(p).txn
        BY <3>3 DEF ProducerState
      <3> QED BY <3>0, <3>2, <3>3, <3>4, OffsetsSame DEF Producer
    <2>2. TransactionsTypeOK' /\ FileInv' /\ SequenceInv' /\ DecisionInv' /\ ListedInv'
      BY <1>2, ProduceTypes, ProduceFiles, AppendToLogFailsSequences, ProduceDecisions, MarkedListed
    <2> QED BY <2>1, <2>2 DEF TransactionsInv
  <1>3. CASE CompleteAppend
    <2>1. OffsetsInv'
      <3>1. PICK p \in ProducerIds : p = call.pid
        BY <1>3, CompleteFacts
      <3>2. /\ \A q \in ProducerIds \ {p} : shards'[q] = shards[q]
            /\ shards'[p].producer.offsets = Producer(p).offsets /\ shards'[p].producer.status = Producer(p).status
            /\ shards'[p].producer.txn = Producer(p).txn
        BY <1>3, <3>1, CompleteFacts
      <3>3. UNCHANGED <<outcome, groupOffset, owed, handlers>>
        BY <1>3 DEF CompleteAppend, transactionHistory
      <3> QED BY <3>2, <3>3, OffsetsSame DEF Producer
    <2>2. TransactionsTypeOK' /\ FileInv' /\ SequenceInv' /\ DecisionInv' /\ ListedInv'
      BY <1>3, ProduceTypes, ProduceFiles, CompleteAppendSequences, ProduceDecisions, CompleteAppendListed
    <2> QED BY <2>1, <2>2 DEF TransactionsInv
  <1>4. CASE AppendToLog
    <2>1. UNCHANGED <<shards, outcome, groupOffset, owed, handlers>>
      BY <1>4 DEF AppendToLog, transactionHistory
    <2>2. OffsetsInv'
      BY <2>1, OffsetsSame DEF Producer
    <2>3. TransactionsTypeOK' /\ FileInv' /\ SequenceInv' /\ DecisionInv' /\ ListedInv'
      BY <1>4, LogTypes, ProduceFiles, AppendToLogSequences, ProduceDecisions, AppendToLogListed
    <2> QED BY <2>2, <2>3 DEF TransactionsInv
  <1>5. CASE Checkpoint
    <2>1. UNCHANGED <<shards, file, dirty, flushTaken, batches, trimmed, call, phase, recovered, lost, skipped,
                      txns, outcome, leaked, groupOffset, owed, handlers>>
      BY <1>5 DEF Checkpoint, brokerState, transactionHistory, otherHistory
    <2>2. OffsetsInv'
      BY <2>1, OffsetsSame DEF Producer
    <2> QED BY <1>5, <2>1, <2>2, LogTypes, QuietStep DEF TransactionsInv
  <1> QED BY <1>1, <1>2, <1>3, <1>4, <1>5

\* The handlers of end_txn().
LEMMA HandlerSteps ==
    ASSUME TransactionsInv, NEW h \in Requests, ApplyOffsets(h) \/ ApplyFails(h) \/ MarkApplied(h)
    PROVE  TransactionsInv'
  <1>t. TransactionsTypeOK' /\ TransactionsTypeOK
    BY HandlerTypes DEF TransactionsInv
  <1>1. CASE ApplyOffsets(h)
    BY <1>t, <1>1, ApplyOffsetsOffsets, QuietStep
       DEF TransactionsInv, ApplyOffsets, partitionDisk, brokerState, otherHistory
  <1>2. CASE ApplyFails(h)
    <2>1. UNCHANGED <<shards, outcome, groupOffset, owed>>
      BY <1>2 DEF ApplyFails, transactionHistory
    <2>2. \A k \in Requests : handlers'[k] = handlers[k] \/ handlers'[k] = NoHandler
      BY <1>t, <1>2 DEF ApplyFails, TransactionsTypeOK
    <2>3. OffsetsInv'
      BY <2>1, <2>2, OffsetsSame DEF Producer
    <2> QED BY <1>t, <1>2, <2>3, QuietStep
            DEF TransactionsInv, ApplyFails, partitionDisk, brokerState, transactionHistory, otherHistory
  <1>3. CASE MarkApplied(h)
    <2>u. UNCHANGED <<flushTaken, batches, trimmed, call, phase, recovered, lost, skipped, txns, outcome, leaked>>
      BY <1>3 DEF MarkApplied, partitionDisk, brokerState, otherHistory
    <2>1. PICK p \in ProducerIds : p = handlers[h].pid
      BY <1>3, MarkFacts
    <2>2. CASE UNCHANGED <<shards, file, dirty>>
      BY <1>t, <1>3, <2>u, <2>2, QuietStep, MarkAppliedOffsets DEF TransactionsInv
    <2>3. CASE ~UNCHANGED <<shards, file, dirty>>
      <3>1. PICK np : np = shards'[p].producer
        OBVIOUS
      <3>2. /\ np \in ProducerState /\ shards' \in [ProducerIds -> TransactionShard] /\ file'[p] = shards'[p] /\ dirty' = dirty
            /\ \A q \in ProducerIds \ {p} : shards'[q] = shards[q] /\ file'[q] = file[q]
            /\ np.epoch = Producer(p).epoch /\ np.last = Producer(p).last /\ np.pend = Producer(p).pend
            /\ np.status = Producer(p).status /\ np.txn = Producer(p).txn
        BY <1>3, <2>1, <2>3, <3>1, MarkFacts
      <3>3. FileInv'
        BY <2>u, <3>2, FilesPersisted
      <3>4. SequenceInv'
        BY <2>u, <3>1, <3>2, SequencesKept
      <3>5. DecisionInv'
        <4>1. \A q \in ProducerIds : /\ shards'[q].producer.epoch = Producer(q).epoch
                                     /\ shards'[q].producer.status = Producer(q).status
                                     /\ shards'[q].producer.txn = Producer(q).txn
                                     /\ Of(q)' = Of(q)
          BY <2>u, <3>1, <3>2 DEF Producer, Of
        <4> QED BY <2>u, <4>1, DecisionsSame
      <3> QED BY <1>t, <1>3, <3>3, <3>4, <3>5, ProducerListed, MarkAppliedOffsets DEF TransactionsInv
    <2> QED BY <2>2, <2>3
  <1> QED BY <1>1, <1>2, <1>3

\* Flushes and retention.
LEMMA SnapshotSteps ==
    ASSUME TransactionsInv,
           \/ \E p \in ProducerIds : FlushTake(p) \/ FlushWrite(p)
           \/ \E start \in 1 .. MaxLog : Retain(start)
    PROVE  TransactionsInv'
  <1>t. TransactionsTypeOK /\ trimmed \in Nat
    BY TypeFacts DEF TransactionsInv
  <1>f. FileInv'
    BY SnapshotFiles
  <1>0. ASSUME UNCHANGED <<shards, batches, call, txns, outcome, leaked, groupOffset, owed, handlers>>
        PROVE  DecisionInv' /\ OffsetsInv'
    <2>1. \A q \in ProducerIds : Of(q)' = Of(q)
      BY <1>0 DEF Of
    <2> QED BY <1>0, <2>1, DecisionsSame, OffsetsSame DEF Producer
  <1>1. ASSUME NEW p \in ProducerIds, FlushTake(p)
        PROVE  TransactionsInv'
    <2>1. UNCHANGED <<shards, file, batches, trimmed, call, phase, recovered, lost, skipped,
                      txns, outcome, leaked, groupOffset, owed, handlers>>
      BY <1>1 DEF FlushTake, partitionDisk, transactionHistory, otherHistory
    <2>2. SequenceInv' /\ ListedInv'
      BY <1>t, <2>1, SequencesSame, ListedSame
    <2> QED BY <1>f, <1>0, <1>1, <2>1, <2>2, FlushTypes DEF TransactionsInv
  <1>2. ASSUME NEW p \in ProducerIds, FlushWrite(p)
        PROVE  TransactionsInv'
    <2>1. UNCHANGED <<shards, batches, trimmed, call, txns, outcome, leaked, groupOffset, owed, handlers>>
      BY <1>2 DEF FlushWrite, partitionDisk
    <2>2. \A q \in ProducerIds : file'[q] \in {shards[q], file[q]}
      BY <1>t, <1>2 DEF FlushWrite, TransactionsTypeOK
    <2>3. SequenceInv' /\ ListedInv'
      BY <1>t, <1>2, <2>1, <2>2, FlushWriteSequences, ListedSame
    <2> QED BY <1>f, <1>0, <1>2, <2>1, <2>3, FlushTypes DEF TransactionsInv
  <1>3. ASSUME NEW start \in 1 .. MaxLog, Retain(start)
        PROVE  TransactionsInv'
    <2>1. UNCHANGED <<shards, batches, call, txns, outcome, leaked, groupOffset, owed, handlers>>
      BY <1>3 DEF Retain
    <2>2. \A q \in ProducerIds : file'[q] \in {shards[q], file[q]}
      BY <1>3 DEF Retain, Flushed
    <2>3. trimmed' \in Nat /\ trimmed <= trimmed'
      BY <1>t, <1>3 DEF Retain
    <2>4. SequenceInv' /\ ListedInv'
      BY <1>t, <1>3, <2>1, <2>2, <2>3, RetainSequences, ListedSame
    <2>5. TransactionsTypeOK'
      BY <1>3, LogTypes
    <2> QED BY <1>f, <1>0, <2>1, <2>4, <2>5 DEF TransactionsInv
  <1> QED BY <1>1, <1>2, <1>3

\* A crash and the recovery from it.
LEMMA RestartSteps ==
    ASSUME TransactionsInv, BrokerCrash \/ Serve \/ \E p \in ProducerIds : RecoverShard(p) \/ RecoverOffsets(p)
    PROVE  TransactionsInv'
  <1>t. TransactionsTypeOK' /\ TransactionsTypeOK
    BY RestartTypes DEF TransactionsInv
  <1>1. CASE BrokerCrash
    <2>1. /\ shards' = file /\ call' = NoCall /\ handlers' = [h \in Requests |-> NoHandler]
          /\ UNCHANGED <<txns, outcome, groupOffset, owed>>
      BY <1>1 DEF BrokerCrash
    <2>2. \A q \in ProducerIds : SamePersisted(q)
      BY SequenceFacts
    <2>3. \A q \in ProducerIds : /\ shards'[q].producer.epoch = Producer(q).epoch
                                 /\ shards'[q].producer.status = Producer(q).status
                                 /\ shards'[q].producer.txn = Producer(q).txn
                                 /\ shards'[q].producer.offsets = Producer(q).offsets
      BY <2>1, <2>2 DEF SamePersisted, Saved
    <2>4. leaked \subseteq leaked' /\ \A q \in ProducerIds : Of(q)' \subseteq Of(q) /\ \A i \in Of(q)' : batches'[i] = batches[i]
      BY <1>1, CrashFacts
    <2>5. DecisionInv'
      BY <2>1, <2>3, <2>4, DecisionsSame
    <2>6. OffsetsInv'
      BY <2>1, <2>3, OffsetsSame
    <2> QED BY <1>t, <1>1, <2>5, <2>6, SnapshotFiles, CrashSequences, CrashListed DEF TransactionsInv
  <1>2. CASE Serve
    <2>1. phase' = "serving" /\ UNCHANGED <<shards, file, dirty, flushTaken, batches, trimmed, call, lost, skipped,
                      txns, outcome, leaked, groupOffset, owed, handlers>>
      BY <1>2 DEF Serve, partitionDisk, transactionHistory, otherHistory
    <2>2. \A q \in ProducerIds : Of(q)' = Of(q)
      BY <2>1 DEF Of
    <2>3. trimmed \in Nat
      BY <1>t, TypeFacts
    <2>4. FileInv' /\ ListedInv'
      BY <2>1, <2>3, FilesSame, ListedSame
    <2>5. DecisionInv' /\ OffsetsInv'
      BY <2>1, <2>2, DecisionsSame, OffsetsSame DEF Producer
    <2> QED BY <1>t, <1>2, <2>4, <2>5, ServeSequences DEF TransactionsInv
  <1>3. ASSUME NEW p \in ProducerIds, RecoverShard(p)
        PROVE  TransactionsInv'
    <2>u. UNCHANGED <<dirty, flushTaken, batches, call, phase, skipped, txns, outcome, leaked, groupOffset, owed, handlers>>
      BY <1>3 DEF RecoverShard, PersistProducer, Persist, partitionDisk, transactionHistory, otherHistory
    <2>1. PICK np : np = shards'[p].producer
      OBVIOUS
    <2>2. /\ shards' \in [ProducerIds -> TransactionShard] /\ file'[p] = shards'[p]
          /\ \A q \in ProducerIds \ {p} : shards'[q] = shards[q] /\ file'[q] = file[q]
          /\ np = Recovered(Producer(p), Replayed(p))
      BY <1>3, <2>1, RecoverFacts
    <2>3. /\ np.epoch = Producer(p).epoch /\ np.status = Producer(p).status /\ np.txn = Producer(p).txn
          /\ np.offsets = Producer(p).offsets
      BY <2>2, RecoveredFacts
    <2>4. \A q \in ProducerIds : /\ shards'[q].producer.epoch = Producer(q).epoch
                                 /\ shards'[q].producer.status = Producer(q).status
                                 /\ shards'[q].producer.txn = Producer(q).txn
                                 /\ shards'[q].producer.offsets = Producer(q).offsets
                                 /\ Of(q)' = Of(q)
      BY <2>u, <2>1, <2>2, <2>3 DEF Producer, Of
    <2>5. FileInv'
      BY <2>u, <2>2, FilesPersisted
    <2>6. DecisionInv' /\ OffsetsInv'
      BY <2>u, <2>4, DecisionsSame, OffsetsSame
    <2> QED BY <1>t, <1>3, <2>5, <2>6, RecoverShardSequences, RecoverShardListed DEF TransactionsInv
  <1>4. ASSUME NEW p \in ProducerIds, RecoverOffsets(p)
        PROVE  TransactionsInv'
    <2>1. /\ Producer(p).status = "Committed" /\ Handle(p, Producer(p).epoch, Producer(p).offsets)
          /\ UNCHANGED <<shards, file, dirty, flushTaken, batches, trimmed, call, phase, recovered, lost, skipped,
                         txns, outcome, leaked, groupOffset, owed>>
      BY <1>4 DEF RecoverOffsets, partitionDisk, brokerState, transactionHistory, otherHistory
    <2>2. PICK e \in ProducerEpochs : e = Producer(p).epoch
      BY <2>1, EpochTyped
    <2>3. OffsetsInv'
      BY <2>1, <2>2, HandleOffsets
    <2> QED BY <1>t, <2>1, <2>3, QuietStep DEF TransactionsInv
  <1> QED BY <1>1, <1>2, <1>3, <1>4

\* The initial state.
LEMMA InitInv ==
    ASSUME TransactionsInit
    PROVE  TransactionsInv
  <1> DEFINE fresh == [producer |-> Fresh(None), aborted |-> {}]
  <1>1. /\ shards = [p \in ProducerIds |-> fresh] /\ file = shards /\ dirty = {} /\ flushTaken = {}
        /\ batches = <<>> /\ trimmed = 0 /\ stable = 0
        /\ call = NoCall /\ handlers = [h \in Requests |-> NoHandler]
        /\ groupOffset = [p \in ProducerIds |-> 0]
        /\ phase = "serving" /\ recovered = {}
        /\ txns = [p \in ProducerIds |-> 0]
        /\ outcome = [p \in ProducerIds |-> [n \in Transactions |-> "none"]]
        /\ leaked = {} /\ skipped = {} /\ lost = {} /\ owed = {} /\ brokerRestarts = 0
        /\ workload \in Workloads
    BY DEF TransactionsInit
  <1>2. Fresh(None) \in ProducerState /\ Fresh(None).status = "Ready" /\ Fresh(None).pend = None /\ Fresh(None).offsets = {}
        /\ Fresh(None).last = None
    BY TransactionsAssumption DEF Fresh, ProducerState, LogOffsets
  <1>3. fresh \in TransactionShard /\ fresh.producer = Fresh(None)
    BY <1>2 DEF TransactionShard
  <1> HIDE DEF fresh
  <1>4. Len(batches) = 0 /\ batches \in Seq(Batch)
    BY <1>1
  <1>5. TransactionsTypeOK
    BY <1>1, <1>3, <1>4, TransactionsAssumption DEF TransactionsTypeOK
  <1>6. \A p \in ProducerIds : Producer(p) = Fresh(None) /\ Saved(p) = Fresh(None) /\ Of(p) = {} /\ Counted(p) = {}
    BY <1>1, <1>3, <1>4 DEF Producer, Saved, Of, Counted
  <1>7. FileInv
    <2>1. \A p \in ProducerIds : SamePersisted(p)
      BY <1>1, <1>2, <1>6 DEF SamePersisted, None
    <2> QED BY <1>1, <2>1 DEF FileInv, Recovering, OneFlush
  <1>8. SequenceInv
    BY <1>1, <1>2, <1>6 DEF SequenceInv, LogOrdered, EpochsBounded, CallOrdered, MemoryCovers, FileCovers, PendingSound
  <1>9. DecisionInv
    <2>1. \A p \in ProducerIds : DecisionSound(p)
      <3> SUFFICES ASSUME NEW p \in ProducerIds
                   PROVE  DecisionSound(p)
        OBVIOUS
      <3>1. txns[p] = 0 /\ \A n \in Transactions : outcome[p][n] = "none" /\ n > 0
        BY <1>1 DEF Transactions
      <3> QED BY <1>2, <1>6, <3>1 DEF DecisionSound
    <2> QED BY <1>1, <2>1 DEF DecisionInv, CallOpen
  <1>10. ListedInv
    BY <1>2, <1>6 DEF ListedInv, OpenListed, AbortedListed
  <1>11. OffsetsInv
    BY <1>1, <1>2, <1>6 DEF OffsetsInv, OwedStaged, OffsetsOnlyFromCommitted, OffsetsSound, HandlerSound
  <1> QED BY <1>5, <1>7, <1>8, <1>9, <1>10, <1>11 DEF TransactionsInv

\* A step that changes nothing.
LEMMA StutterInv ==
    ASSUME TransactionsInv, UNCHANGED transactionsVars
    PROVE  TransactionsInv'
  <1>1. UNCHANGED <<shards, file, dirty, batches, trimmed, stable, call, handlers, groupOffset, flushTaken, phase,
                    recovered, txns, outcome, leaked, owed, skipped, lost, brokerRestarts, workload>>
    BY DEF transactionsVars, partitionDisk, brokerState, transactionHistory, otherHistory
  <1>2. TransactionsTypeOK'
    BY <1>1 DEF TransactionsInv, TransactionsTypeOK
  <1>3. OffsetsInv'
    BY <1>1, OffsetsSame DEF Producer
  <1> QED BY <1>1, <1>2, <1>3, QuietStep DEF TransactionsInv

-----------------------------------------------------------------------------
(* Theorems *)

\* TransactionsInv holds in every reachable state: what the shards and their
\* files know of the log survives every order of requests, flushes, retention,
\* crashes and recovery.
THEOREM TransactionsInvariant == TransactionsSpec => []TransactionsInv
  <1>1. TransactionsInit => TransactionsInv
    BY InitInv
  <1>2. TransactionsInv /\ [TransactionsNext]_transactionsVars => TransactionsInv'
    <2> SUFFICES ASSUME TransactionsInv, [TransactionsNext]_transactionsVars
                 PROVE  TransactionsInv'
      OBVIOUS
    <2>1. CASE TransactionsNext
      <3>1. CASE \E p \in ProducerIds : InitProducer(p)
        BY <3>1, ProducerSteps
      <3>2. CASE \E p \in ProducerIds, e \in ProducerEpochs : AddPartitions(p, e) \/ StageOffsets(p, e)
        BY <3>2, ProducerSteps
      <3>3. CASE \E p \in ProducerIds : ExpireTransaction(p)
        BY <3>3, EndSteps
      <3>4. CASE \E p \in ProducerIds, e \in ProducerEpochs, c \in BOOLEAN : EndTxn(p, e, c)
        BY <3>4, EndSteps
      <3>5. CASE \E p \in ProducerIds, e \in ProducerEpochs, s \in 0 .. MaxLog : PrepareAppend(p, e, s)
        BY <3>5, ProduceSteps
      <3>6. CASE AppendToLog \/ AppendToLogFails \/ CompleteAppend \/ Checkpoint
        BY <3>6, ProduceSteps
      <3>7. CASE \E h \in Requests : ApplyOffsets(h) \/ ApplyFails(h) \/ MarkApplied(h)
        BY <3>7, HandlerSteps
      <3>8. CASE \E p \in ProducerIds : FlushTake(p) \/ FlushWrite(p)
        BY <3>8, SnapshotSteps
      <3>9. CASE \E n \in 1 .. MaxLog : Retain(n)
        BY <3>9, SnapshotSteps
      <3>10. CASE BrokerCrash \/ Serve \/ \E p \in ProducerIds : RecoverShard(p) \/ RecoverOffsets(p)
        BY <3>10, RestartSteps
      <3> QED BY <2>1, <3>1, <3>2, <3>3, <3>4, <3>5, <3>6, <3>7, <3>8, <3>9, <3>10 DEF TransactionsNext
    <2>2. CASE UNCHANGED transactionsVars
      BY <2>2, StutterInv
    <2> QED BY <2>1, <2>2
  <1> QED BY <1>1, <1>2, PTL DEF TransactionsSpec

\* Every variable of the coordinator keeps its type.
THEOREM TransactionsTypeCorrect == TransactionsSpec => []TransactionsTypeOK
  <1>1. TransactionsInv => TransactionsTypeOK
    BY DEF TransactionsInv
  <1> QED BY <1>1, TransactionsInvariant, PTL

\* No batch enters the log twice or out of order, through retries, fencing,
\* crashes and retention, but for a producer whose snapshot retention believed
\* written.
THEOREM TransactionsExactlyOnce == TransactionsSpec => []ExactlyOnceInOrder
  <1>1. TransactionsInv => ExactlyOnceInOrder
    <2> SUFFICES ASSUME TransactionsInv, NEW i \in 1 .. Len(batches), NEW j \in 1 .. Len(batches),
                        i < j, batches[i].pid = batches[j].pid, batches[i].pid \notin lost
                 PROVE  \/ batches[i].epoch < batches[j].epoch
                        \/ batches[i].epoch = batches[j].epoch /\ batches[i].seq < batches[j].seq
      BY DEF ExactlyOnceInOrder
    <2>1. PICK p \in ProducerIds : p = batches[i].pid
      BY TypeFacts DEF TransactionsInv
    <2>2. i \in Counted(p) /\ j \in Counted(p)
      BY <2>1 DEF Counted, Of
    <2> QED BY <2>2, SequenceFacts DEF LogOrdered, Earlier
  <1> QED BY <1>1, TransactionsInvariant, PTL

\* A reader of committed records gets only those, but for the listed gaps, and
\* no producer is left with an append that nobody completes.
THEOREM TransactionsCommittedShown == TransactionsSpec => []CommittedShown
  <1>1. TransactionsInv => ReadCommittedShowsCommitted
    <2> SUFFICES ASSUME TransactionsInv, phase = "serving", NEW i \in 1 .. Len(batches), Fetched(i),
                        <<batches[i].pid, batches[i].txn>> \notin leaked, ~Appended(i)
                 PROVE  Decision(i) = "committed"
      BY DEF ReadCommittedShowsCommitted, Appended
    <2>t. TransactionsTypeOK /\ Len(batches) \in Nat /\ trimmed \in Nat
      BY TypeFacts DEF TransactionsInv
    <2>1. PICK p \in ProducerIds : p = batches[i].pid
      BY <2>t, TypeFacts
    <2>2. batches[i].txn \in Transactions /\ batches[i].epoch \in Nat /\ batches[i].seq \in Nat /\ i \in Nat /\ i \in Of(p)
      BY <2>t, <2>1, TypeFacts DEF Of
    <2>3. outcome[p][batches[i].txn] \in {"none", "open", "committed", "aborted", "abandoned"}
      BY <2>t, <2>2 DEF TransactionsTypeOK
    <2>4. trimmed < i /\ i < LastStableOffset /\ ~Aborted(i)
      BY DEF Fetched
    <2>5. DecisionSound(p) /\ AbortedListed(p) /\ OpenListed(p, Producer(p)) /\ MemoryCovers(p)
      BY DecisionFacts, ListedFacts, SequenceFacts
    <2>6. outcome[p][batches[i].txn] \notin {"none", "abandoned", "aborted"}
      <3>1. batches[i].txn <= txns[p] /\ batches[i].txn \in Nat /\ txns[p] \in Nat
        BY <2>2, <2>5, DecisionFacts DEF DecisionSound
      <3> QED BY <2>1, <2>2, <2>4, <2>5, <3>1 DEF DecisionSound, AbortedListed
    <2>7. outcome[p][batches[i].txn] # "open"
      <3> SUFFICES ASSUME outcome[p][batches[i].txn] = "open"
                   PROVE  FALSE
        OBVIOUS
      <3>1. Producer(p).status = "Ongoing" /\ Producer(p).txn = batches[i].txn
        BY <2>2, <2>5 DEF DecisionSound
      <3>2. batches[i].epoch = Producer(p).epoch
        BY <2>2, <2>5, <3>1 DEF DecisionSound
      <3>3. Covers(Producer(p), i)
        BY <2>2, <2>4, <2>5 DEF MemoryCovers, Caught, Counted
      <3>4. batches[i].seq <= Producer(p).last
        <4>1. Producer(p).epoch \in Int
          BY <2>t, TypeFacts, ProducerFacts
        <4> QED BY <2>2, <3>2, <3>3, <4>1 DEF Covers
      <3>5. Listed(Producer(p), i)
        BY <2>1, <2>2, <2>4, <2>5, <3>1, <3>4 DEF OpenListed
      <3> DEFINE S == {Producer(q).first : q \in {q \in ProducerIds : Producer(q).status = "Ongoing" /\ Producer(q).first # 0}}
                        \cup {Len(batches) + 1}
      <3>6. S \in SUBSET Nat /\ Producer(p).first \in S /\ LastStableOffset = Min(S)
        <4>1. \A q \in ProducerIds : Producer(q).first \in Nat
          BY <2>t, TypeFacts, ProducerFacts
        <4> QED BY <2>t, <3>1, <3>5, <4>1 DEF Listed, LastStableOffset
      <3> HIDE DEF S
      <3>7. Min(S) <= Producer(p).first /\ Min(S) \in Nat
        BY <3>6, MinIsLeast
      <3> QED BY <2>2, <2>4, <3>5, <3>6, <3>7 DEF Listed
    <2> QED BY <2>1, <2>3, <2>6, <2>7 DEF Decision
  <1>2. TransactionsInv => PendingHasAppend
    BY SequenceFacts DEF PendingHasAppend, PendingSound, Caught, InFlight
  <1>3. TransactionsInv => CommittedShown
    BY <1>1, <1>2 DEF CommittedShown
  <1> QED BY <1>3, TransactionsInvariant, PTL

\* The group gets the offsets of committed transactions only, and what a
\* committed transaction owes stays stored until it is applied or replaced.
THEOREM TransactionsGroupOffsets == TransactionsSpec => []GroupOffsetsExact
  <1>1. TransactionsInv => GroupOffsetsExact
    BY DEF TransactionsInv, OffsetsInv, OwedStaged, GroupOffsetsExact, CommittedOffsetsKept
  <1> QED BY <1>1, TransactionsInvariant, PTL

==============================================================================
