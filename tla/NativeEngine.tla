---------------------------- MODULE NativeEngine ----------------------------
(***************************************************************************)
(* One owner shard of the native block engine (pepper-storage/native.rs):  *)
(* batches are appended to segment files, made durable by a device barrier *)
(* and only then indexed; deletes append tombstones; compaction rewrites   *)
(* the live blocks and unlinks the old segments; recovery scans what is on *)
(* the disk, in order of generation.                                       *)
(*                                                                         *)
(* A batch holds one block and takes one slot of its segment, so that a    *)
(* batch written after a recovery covers exactly the abandoned one.        *)
(***************************************************************************)
EXTENDS Naturals, Sequences, FiniteSets, FiniteSetsExt

CONSTANTS
    Cids,               \* content ids of this owner
    SegmentSlots,       \* batches a segment has room for
    MaxGeneration,      \* bound on the segments ever created
    MaxPuts, MaxDeletes,        \* bounds on calls
    Scenarios           \* [crashes, failures (of barriers), torn (compactions meet a crash)]

VARIABLES
    disk,       \* per generation: the segment file
    writer,     \* the current segment's generation and next slot, or NoWriter
    index,      \* per cid: the generation its visible record is in, 0 for none
    next,       \* next_generation
    call,       \* the operation that holds the owner's maintenance lock
    up,         \* "open", "down", or "refused": recovery returned an error
    ackedPut,   \* cids whose put was answered and that no later delete touched
    ackedDelete,\* cids whose delete was answered and that no later put touched
    puts, deletes, scenario

bounds == <<puts, deletes, scenario>>
vars == <<disk, writer, index, next, call, up, ackedPut, ackedDelete, bounds>>

Generations == 1 .. MaxGeneration
NoWriter == [generation |-> 0, slot |-> 1]
NoCall == [op |-> "none"]
Zero == [kind |-> "zero", cid |-> "none", safe |-> TRUE]

\* A file is listed in its directory; unlinked but not yet synced it may come
\* back with a crash.  Its header is valid once initialised.
NoFile == [listed |-> FALSE, unlinked |-> FALSE, header |-> FALSE, slots |-> [s \in 1 .. SegmentSlots |-> Zero]]
Record(kind, c, safe) == [kind |-> kind, cid |-> c, safe |-> safe]

TypeOK ==
    /\ \A g \in Generations : /\ disk[g].listed \in BOOLEAN /\ disk[g].header \in BOOLEAN
                              /\ \A s \in 1 .. SegmentSlots : disk[g].slots[s].kind \in {"zero", "data", "tombstone", "torn"}
    /\ writer.generation \in 0 .. MaxGeneration /\ writer.slot \in 1 .. SegmentSlots + 1
    /\ index \in [Cids -> 0 .. MaxGeneration]
    /\ \A c \in Cids : up = "open" /\ index[c] # 0 => disk[index[c]].listed /\ index[c] < next
    /\ next \in 1 .. MaxGeneration + 1
    /\ up \in {"open", "down", "refused"}
    /\ ackedPut \subseteq Cids /\ ackedDelete \subseteq Cids /\ ackedPut \cap ackedDelete = {}

Init ==
    /\ disk = [g \in Generations |-> NoFile] /\ writer = NoWriter
    /\ index = [c \in Cids |-> 0] /\ next = 1
    /\ call = NoCall /\ up = "open"
    /\ ackedPut = {} /\ ackedDelete = {} /\ puts = 0 /\ deletes = 0
    /\ scenario \in Scenarios

-----------------------------------------------------------------------------
(* The owner's maintenance lock is held from here on *)

Begin(next_call) == up = "open" /\ call = NoCall /\ call' = next_call
At(stage) == up = "open" /\ call.op # "none" /\ call.stage = stage
Goes(stage) == call' = [call EXCEPT !.stage = stage]
Release == call' = NoCall

\* put_batch(): an indexed block is answered at once.
PutExisting(c) ==
    /\ puts < MaxPuts /\ up = "open" /\ call = NoCall /\ index[c] # 0
    /\ puts' = puts + 1 /\ ackedPut' = ackedPut \cup {c}
    /\ UNCHANGED <<disk, writer, index, next, call, up, ackedDelete, deletes, scenario>>

Put(c) ==
    /\ puts < MaxPuts /\ index[c] = 0
    /\ Begin([op |-> "put", stage |-> "ensure", cid |-> c])
    /\ puts' = puts + 1 /\ ackedDelete' = ackedDelete \ {c}
    /\ UNCHANGED <<disk, writer, index, next, up, ackedPut, deletes, scenario>>

\* delete(): looks at the index before it takes the lock; the compactor never
\* removes an index entry, another delete may.
Delete(c) ==
    /\ deletes < MaxDeletes /\ index[c] # 0
    /\ Begin([op |-> "delete", stage |-> "ensure", cid |-> c])
    /\ deletes' = deletes + 1 /\ ackedPut' = ackedPut \ {c}
    /\ UNCHANGED <<disk, writer, index, next, up, ackedDelete, puts, scenario>>

\* The blocks the call still has to write.
ToWrite == IF call.op = "compact" THEN call.rest ELSE {call.cid}
HasRoom == writer.generation # 0 /\ writer.slot <= SegmentSlots

\* ensure_writer(): a new file is created and preallocated ...
CreateSegment ==
    /\ At("ensure") /\ ~HasRoom /\ ToWrite # {} /\ next <= MaxGeneration
    /\ disk' = [disk EXCEPT ![next] = [NoFile EXCEPT !.listed = TRUE]]
    /\ next' = next + 1 /\ Goes("header")
    /\ UNCHANGED <<writer, index, up, ackedPut, ackedDelete, bounds>>

\* ... its header and its directory are synced, and it becomes the writer.
InitializeSegment ==
    /\ At("header")
    /\ disk' = [disk EXCEPT ![next - 1].header = TRUE]
    /\ writer' = [generation |-> next - 1, slot |-> 1] /\ Goes("ensure")
    /\ UNCHANGED <<index, next, up, ackedPut, ackedDelete, bounds>>

Stored(d, record) == [d EXCEPT ![writer.generation].slots[writer.slot] = record]

\* write_data_exclusive(): the batch is in the page cache.
WriteData ==
    /\ At("ensure") /\ call.op # "delete" /\ HasRoom
    /\ \E c \in ToWrite :
        /\ disk' = Stored(disk, Record("data", c, FALSE))
        /\ call' = [call EXCEPT !.stage = "barrier", !.cid = c]
    /\ writer' = [writer EXCEPT !.slot = @ + 1]
    /\ UNCHANGED <<index, next, up, ackedPut, ackedDelete, bounds>>

\* The device barrier makes what was written durable, unless an earlier
\* barrier failed over it.
BarrierDone(d) == [g \in Generations |-> [d[g] EXCEPT !.slots = [s \in 1 .. SegmentSlots |->
                IF @[s].kind = "data" /\ ~@[s].safe /\ g = writer.generation /\ s = writer.slot - 1
                THEN [@[s] EXCEPT !.safe = TRUE] ELSE @[s]]]]

\* durability_barrier() succeeded: install_records(); a put is answered, a
\* compaction goes on.
Publish ==
    /\ At("barrier")
    /\ disk' = BarrierDone(disk)
    /\ index' = [index EXCEPT ![call.cid] = writer.generation]
    /\ IF call.op = "put"
       THEN ackedPut' = ackedPut \cup {call.cid} /\ Release
       ELSE call' = [call EXCEPT !.stage = "ensure", !.rest = @ \ {call.cid}] /\ UNCHANGED ackedPut
    /\ UNCHANGED <<writer, next, up, ackedDelete, bounds>>

\* The barrier fails and the call with it; the batch stays in the file and the
\* writer stays behind it.
BarrierFails ==
    /\ At("barrier") /\ scenario.failures > 0
    /\ scenario' = [scenario EXCEPT !.failures = @ - 1]
    /\ Release
    /\ UNCHANGED <<disk, writer, index, next, up, ackedPut, ackedDelete, puts, deletes>>

Tombstone(c) == Record("tombstone", c, TRUE)

\* append_tombstone(): written and synced, then the block leaves the index.
WriteTombstone ==
    /\ At("ensure") /\ call.op = "delete" /\ HasRoom
    /\ disk' = Stored(disk, Tombstone(call.cid))
    /\ writer' = [writer EXCEPT !.slot = @ + 1]
    /\ index' = [index EXCEPT ![call.cid] = 0]
    /\ ackedDelete' = ackedDelete \cup {call.cid} /\ Release
    /\ UNCHANGED <<next, up, ackedPut, bounds>>

-----------------------------------------------------------------------------
(* compact_owner() *)

Listed == {g \in Generations : disk[g].listed}
Live == {c \in Cids : index[c] # 0}
Dead == \E g \in Listed, s \in 1 .. SegmentSlots :
            disk[g].slots[s].kind = "data" /\ index[disk[g].slots[s].cid] # g

\* The writer is dropped, the old paths and the live records are listed.
BeginCompaction ==
    /\ Dead /\ Begin([op |-> "compact", stage |-> "ensure", cid |-> "none", old |-> Listed, rest |-> Live])
    /\ writer' = NoWriter
    /\ UNCHANGED <<disk, index, next, up, ackedPut, ackedDelete, bounds>>

\* Old segments that hold no visible record.
Unlinkable == {g \in call.old : g \notin {index[c] : c \in Cids}}

Unlink ==
    /\ At("ensure") /\ call.op = "compact" /\ call.rest = {}
    /\ \E g \in Unlinkable :
        /\ disk' = [disk EXCEPT ![g].listed = FALSE, ![g].unlinked = TRUE]
        /\ call' = [call EXCEPT !.old = @ \ {g}]
    /\ UNCHANGED <<writer, index, next, up, ackedPut, ackedDelete, bounds>>

\* sync_native_directory(): the unlinks are durable.
SyncDirectory ==
    /\ At("ensure") /\ call.op = "compact" /\ call.rest = {} /\ Unlinkable = {}
    /\ disk' = [g \in Generations |-> IF disk[g].unlinked THEN NoFile ELSE disk[g]]
    /\ Release
    /\ UNCHANGED <<writer, index, next, up, ackedPut, ackedDelete, bounds>>

-----------------------------------------------------------------------------
(* Crash and recover() *)

Unlinking == \E g \in Generations : disk[g].unlinked

\* What was not synced is kept, or torn; an unlinked file is gone, or back.
Crash ==
    /\ up = "open" /\ scenario.crashes > 0 /\ (Unlinking => scenario.torn)
    /\ scenario' = [scenario EXCEPT !.crashes = @ - 1]
    /\ \E torn \in SUBSET {g \in Generations : \E s \in 1 .. SegmentSlots : ~disk[g].slots[s].safe},
          back \in SUBSET {g \in Generations : disk[g].unlinked} :
        disk' = [g \in Generations |->
            IF disk[g].unlinked /\ g \notin back THEN NoFile
            ELSE [listed |-> disk[g].listed \/ g \in back, unlinked |-> FALSE, header |-> disk[g].header,
                  slots |-> [s \in 1 .. SegmentSlots |->
                    IF disk[g].slots[s].safe THEN disk[g].slots[s]
                    ELSE IF g \in torn THEN [Zero EXCEPT !.kind = "torn"] ELSE [disk[g].slots[s] EXCEPT !.safe = TRUE]]]]
    /\ up' = "down" /\ call' = NoCall /\ writer' = NoWriter
    /\ UNCHANGED <<index, next, ackedPut, ackedDelete, puts, deletes>>

\* recover_segment(): valid batches up to the first that is zero or torn.
CommittedSlots(g) ==
    CHOOSE n \in 0 .. SegmentSlots :
        /\ \A s \in 1 .. n : disk[g].slots[s].kind \in {"data", "tombstone"}
        /\ n = SegmentSlots \/ disk[g].slots[n + 1].kind \in {"zero", "torn"}

\* The last record of a cid, by generation and slot, decides.
Mentions(c) == {p \in Listed \X (1 .. SegmentSlots) :
                  p[2] <= CommittedSlots(p[1]) /\ disk[p[1]].slots[p[2]].cid = c}
Latest(c) == CHOOSE p \in Mentions(c) : \A q \in Mentions(c) : q[1] < p[1] \/ (q[1] = p[1] /\ q[2] <= p[2])
Recovered(c) == IF Mentions(c) = {} THEN 0
                ELSE IF disk[Latest(c)[1]].slots[Latest(c)[2]].kind = "data" THEN Latest(c)[1] ELSE 0

\* A torn tail's first header is zeroed; the newest segment takes new writes.
Recover ==
    /\ up = "down"
    /\ IF \E g \in Listed : ~disk[g].header
       THEN up' = "refused" /\ UNCHANGED <<disk, writer, index, next>>
       ELSE /\ up' = "open"
            /\ index' = [c \in Cids |-> Recovered(c)]
            /\ disk' = [g \in Generations |-> [disk[g] EXCEPT !.slots = [s \in 1 .. SegmentSlots |->
                          IF g \in Listed /\ s = CommittedSlots(g) + 1 THEN Zero ELSE @[s]]]]
            /\ writer' = IF Listed = {} \/ CommittedSlots(Max(Listed)) = SegmentSlots THEN NoWriter
                         ELSE [generation |-> Max(Listed), slot |-> CommittedSlots(Max(Listed)) + 1]
            /\ next' = IF Listed = {} THEN 1 ELSE Max(Listed) + 1
    /\ UNCHANGED <<call, ackedPut, ackedDelete, bounds>>

Next ==
    \/ \E c \in Cids : PutExisting(c) \/ Put(c) \/ Delete(c)
    \/ CreateSegment \/ InitializeSegment \/ WriteData \/ Publish \/ BarrierFails \/ WriteTombstone
    \/ BeginCompaction \/ Unlink \/ SyncDirectory
    \/ Crash \/ Recover

Spec == Init /\ [][Next]_vars

-----------------------------------------------------------------------------
(* An answered put survives: while the engine is open, the block is        *)
(* indexed and its record is in a listed file, through rotation,           *)
(* compaction, torn tails and recovery, until a delete is called.          *)
PutsKept == up = "open" => \A c \in ackedPut :
    index[c] # 0 /\ disk[index[c]].listed /\ \E s \in 1 .. SegmentSlots : disk[index[c]].slots[s] = Record("data", c, TRUE)

(* An answered delete survives: the block is not indexed again until a put *)
(* of it is called, whatever compaction dropped the tombstone's segment.   *)
DeletedStaysDeleted == up = "open" => \A c \in ackedDelete : index[c] = 0
=============================================================================
