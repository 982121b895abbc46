----------------------------- MODULE BlockStore -----------------------------
(***************************************************************************)
(* pepper-storage's BlockStore: a redb table of block metadata over three  *)
(* kinds of payload.  A file is written under the write lock, renamed into *)
(* place and synced before its metadata; an inline block lives in the same *)
(* redb transaction as its metadata; a native (or packed) block goes to    *)
(* the native engine without the lock.  Collection, quarantine and the     *)
(* removal of repair extras take the lock; readers that meet a bad payload *)
(* mark the metadata corrupt without it.  A restart finds the files as     *)
(* they are, a power loss keeps what was synced; opening the store         *)
(* reconciles the metadata with the payloads, and syncs none of them.      *)
(*                                                                         *)
(* One location; every block has size one.                                 *)
(***************************************************************************)
EXTENDS Naturals, FiniteSets

CONSTANTS
    Blocks,             \* content ids, of ...
    Kind,               \* ... a kind each: "file", "inline", "native"
    Threads,
    NormalLimit,        \* what HARD_PRESSURE_PERCENT leaves for normal writes
    MaxCalls,           \* bound on calls
    Scenarios           \* [duplicates: two native puts of a block may overlap, lateMarks: a put
                        \*  and a reader's mark_corrupt() may, restarts, crashes (power losses),
                        \*  failures (of syncfs), corruptions (of files)]

VARIABLES
    meta,       \* BLOCKS: "none", "ok" or "corrupt" per block
    payload,    \* "none", "good" or "bad": the file, the inline bytes, the engine's record
    disk,       \* what a power loss leaves of it
    used,       \* used_bytes of the location
    writeLock,
    call,       \* where each thread is
    kept,       \* ghost: blocks whose put was answered and that nothing removed or damaged since
    unbarred,   \* ghost: files left in place by a put that never had its barrier
    calls, scenario

vars == <<meta, payload, disk, used, writeLock, call, kept, unbarred, calls, scenario>>

Idle == [op |-> "none"]
Free == "free"

TypeOK ==
    /\ meta \in [Blocks -> {"none", "ok", "corrupt"}]
    /\ payload \in [Blocks -> {"none", "good", "bad"}] /\ disk \in [Blocks -> {"none", "good", "bad"}]
    /\ used \in 0 .. Cardinality(Blocks)
    /\ writeLock \in Threads \cup {Free}
    /\ \A t \in Threads : writeLock = t => call[t].op # "none"
    /\ kept \subseteq Blocks /\ unbarred \subseteq Blocks

Init ==
    /\ meta = [c \in Blocks |-> "none"] /\ payload = [c \in Blocks |-> "none"] /\ disk = payload
    /\ used = 0 /\ writeLock = Free
    /\ call = [t \in Threads |-> Idle]
    /\ kept = {} /\ unbarred = {} /\ calls = 0 /\ scenario \in Scenarios

-----------------------------------------------------------------------------
Removing(c) == \E t \in Threads : call[t].op = "remove" /\ c \in call[t].targets

\* A call starts; at most MaxCalls of them.
Enter(t, next) ==
    /\ call[t] = Idle /\ calls < MaxCalls
    /\ scenario.lateMarks \/ \A u \in Threads : {call[u].op, next.op} # {"put", "read"}
    /\ calls' = calls + 1
    /\ call' = [call EXCEPT ![t] = next]
At(t, op, stage) == call[t].op = op /\ call[t].stage = stage
Goes(t, stage) == call' = [call EXCEPT ![t].stage = stage]
Locked(t) == writeLock = Free /\ writeLock' = t
Returns(t) == call' = [call EXCEPT ![t] = Idle]
Answers(t) == kept' = IF call[t].spoiled THEN kept ELSE kept \cup {call[t].cid}

\* NativeEngine::allocated_bytes(), as if a deletion gave its space back at once.
HasEngine == \E c \in Blocks : Kind[c] = "native"
Allocated == Cardinality({c \in Blocks : Kind[c] = "native" /\ payload[c] # "none"})

\* remove_block_meta() and insert_block_metas(), one redb transaction each.  With an
\* engine every insertion sets used_bytes to what the engine has, dropping the files.
UsedWithout(c) == IF Kind[c] = "native" THEN Allocated ELSE IF used = 0 THEN 0 ELSE used - 1
UsedWith(c) == IF HasEngine THEN Allocated ELSE used + 1

-----------------------------------------------------------------------------
(* put_files_encoded_batch_with_intent(), a block at a time *)

\* has(), or verify_file() for a file.
ExistingValid(c) == meta[c] = "ok" /\ (IF Kind[c] = "native" THEN payload[c] # "none" ELSE payload[c] = "good")

BeginPut(t, c) ==
    /\ Kind[c] # "native"
    /\ Enter(t, [op |-> "put", stage |-> "check", cid |-> c, spoiled |-> Removing(c)])
    /\ Locked(t)
    /\ UNCHANGED <<meta, payload, disk, used, kept, unbarred, scenario>>

\* A valid block is answered; an invalid one is dropped, file and metadata.
AnswerExisting(t) ==
    /\ At(t, "put", "check") /\ ExistingValid(call[t].cid)
    /\ Answers(t) /\ Returns(t) /\ writeLock' = Free
    /\ UNCHANGED <<meta, payload, disk, used, unbarred, calls, scenario>>

DropInvalid(t) ==
    /\ At(t, "put", "check")
    /\ LET c == call[t].cid
       IN /\ meta[c] # "none" /\ ~ExistingValid(c)
          /\ payload' = [payload EXCEPT ![c] = "none"]
          /\ meta' = [meta EXCEPT ![c] = "none"] /\ used' = UsedWithout(c)
    /\ UNCHANGED <<disk, writeLock, call, kept, unbarred, calls, scenario>>

\* select_location_with_pending(): room, or CapacityExceeded; replica writes
\* may fill the reserve.  The temporary file is written.
Prepare(t, intent) ==
    /\ At(t, "put", "check") /\ meta[call[t].cid] = "none"
    /\ intent = "normal" => used + 1 <= NormalLimit
    /\ Goes(t, "rename")
    /\ UNCHANGED <<meta, payload, disk, used, writeLock, kept, unbarred, calls, scenario>>

RefusePut(t) ==
    /\ At(t, "put", "check") /\ meta[call[t].cid] = "none" /\ used + 1 > NormalLimit
    /\ Returns(t) /\ writeLock' = Free
    /\ UNCHANGED <<meta, payload, disk, used, kept, unbarred, calls, scenario>>

\* The barrier is forgotten.
NeverNeedsBarrier(c) == FALSE

\* A valid file already in place is left alone and asks for no barrier.
NeedsBarrier(c) == Kind[c] = "file" /\ payload[c] # "good"

RenameFile(t) ==
    /\ At(t, "put", "rename")
    /\ LET c == call[t].cid
       IN /\ payload' = IF Kind[c] = "file" THEN [payload EXCEPT ![c] = "good"] ELSE payload
          /\ Goes(t, IF NeedsBarrier(c) THEN "barrier" ELSE "insert")
    /\ UNCHANGED <<meta, disk, used, writeLock, kept, unbarred, calls, scenario>>

\* syncfs(): every file of the location is durable.
Synced == [c \in Blocks |-> IF Kind[c] = "file" THEN payload[c] ELSE disk[c]]

Barrier(t) ==
    /\ At(t, "put", "barrier")
    /\ disk' = Synced /\ unbarred' = {}
    /\ Goes(t, "insert")
    /\ UNCHANGED <<meta, payload, used, writeLock, kept, calls, scenario>>

\* The put fails; the renamed file stays.
BarrierFails(t) ==
    /\ At(t, "put", "barrier") /\ scenario.failures > 0
    /\ scenario' = [scenario EXCEPT !.failures = @ - 1]
    /\ unbarred' = unbarred \cup {call[t].cid}
    /\ Returns(t) /\ writeLock' = Free
    /\ UNCHANGED <<meta, payload, disk, used, kept, calls>>

\* insert_block_metas(): a row that is there stays as it is.
Inserted(c) == [meta EXCEPT ![c] = IF @ = "none" THEN "ok" ELSE @]

InsertMeta(t) ==
    /\ At(t, "put", "insert")
    /\ LET c == call[t].cid
       IN /\ meta' = Inserted(c) /\ used' = UsedWith(c)
          /\ IF Kind[c] = "inline"
             THEN payload' = [payload EXCEPT ![c] = "good"] /\ disk' = [disk EXCEPT ![c] = "good"]
             ELSE UNCHANGED <<payload, disk>>
    /\ Answers(t) /\ Returns(t) /\ writeLock' = Free
    /\ UNCHANGED <<unbarred, calls, scenario>>

-----------------------------------------------------------------------------
(* put_native_encoded_batch(): no lock *)

NativePut(t, c) ==
    /\ Kind[c] = "native"
    /\ ~scenario.duplicates => \A u \in Threads : call[u].op = "nput" => call[u].cid # c
    /\ Enter(t, [op |-> "nput", stage |-> "metadata", cid |-> c, spoiled |-> Removing(c),
                 present |-> payload[c] # "none"])
    /\ UNCHANGED <<meta, payload, disk, used, writeLock, kept, unbarred, scenario>>

\* get_meta(): metadata without a record is taken for stale.
ReadMeta(t) ==
    /\ At(t, "nput", "metadata")
    /\ call' = [call EXCEPT ![t] = [op |-> "nput", cid |-> @.cid, spoiled |-> @.spoiled, missing |-> meta[@.cid] = "none",
                 stage |-> IF ~@.present /\ meta[@.cid] # "none" THEN "stale" ELSE "engine"]]
    /\ UNCHANGED <<meta, payload, disk, used, writeLock, kept, unbarred, calls, scenario>>

RemoveStale(t) ==
    /\ At(t, "nput", "stale")
    /\ meta' = [meta EXCEPT ![call[t].cid] = "none"] /\ used' = UsedWithout(call[t].cid)
    /\ Goes(t, "engine")
    /\ UNCHANGED <<payload, disk, writeLock, kept, unbarred, calls, scenario>>

\* NativeEngine::put_batch(), durable when it returns (see NativeEngine).
EnginePut(t) ==
    /\ At(t, "nput", "engine")
    /\ LET c == call[t].cid
       IN /\ call' = [call EXCEPT ![t] = [op |-> "nput", stage |-> "insert", cid |-> c, spoiled |-> @.spoiled,
                                          missing |-> @.missing, existed |-> payload[c] # "none"]]
          /\ payload' = [payload EXCEPT ![c] = IF @ = "none" THEN "good" ELSE @]
          /\ disk' = [disk EXCEPT ![c] = payload'[c]]
    /\ UNCHANGED <<meta, used, writeLock, kept, unbarred, calls, scenario>>

InsertNativeMeta(t) ==
    /\ At(t, "nput", "insert")
    /\ IF ~call[t].existed \/ call[t].missing
       THEN meta' = Inserted(call[t].cid) /\ used' = UsedWith(call[t].cid)
       ELSE UNCHANGED <<meta, used>>
    /\ Answers(t) /\ Returns(t)
    /\ UNCHANGED <<payload, disk, writeLock, unbarred, calls, scenario>>

-----------------------------------------------------------------------------
(* garbage_collect(), quarantine_block(), delete_repair_extra() *)

\* What a collection with this protected set deletes.
Collectable(protected) == {c \in Blocks : meta[c] = "ok" /\ c \notin protected}

\* The lock is held; what is to be removed is no longer promised.
BeginRemove(t, targets, next) ==
    /\ targets # {} /\ Locked(t)
    /\ calls < MaxCalls
    /\ calls' = calls + 1
    /\ call' = [u \in Threads |-> IF u = t THEN [op |-> "remove", stage |-> "payload", targets |-> targets, next |-> next]
                 ELSE IF call[u].op \in {"put", "nput"} /\ call[u].cid \in targets THEN [call[u] EXCEPT !.spoiled = TRUE]
                 ELSE call[u]]
    /\ kept' = kept \ targets
    /\ UNCHANGED <<meta, payload, disk, used, unbarred, scenario>>

GarbageCollect(t, protected) == call[t] = Idle /\ BeginRemove(t, Collectable(protected), "collect")

DeleteRepairExtra(t, c) == call[t] = Idle /\ meta[c] # "none" /\ BeginRemove(t, {c}, "rebuild")

\* admin_corruption_scan(): found bad, and no peer had it; what is there when
\* the lock is taken is not looked at again.
ScanFindsBad(t, c) ==
    /\ meta[c] # "none" /\ payload[c] = "bad"
    /\ Enter(t, [op |-> "scan", cid |-> c, stage |-> "found"])
    /\ UNCHANGED <<meta, payload, disk, used, writeLock, kept, unbarred, scenario>>

QuarantineBlock(t) ==
    /\ At(t, "scan", "found") /\ meta[call[t].cid] # "none"
    /\ BeginRemove(t, {call[t].cid}, "rebuild")

QuarantineNothing(t) ==
    /\ At(t, "scan", "found") /\ writeLock = Free /\ meta[call[t].cid] = "none"
    /\ Returns(t)
    /\ UNCHANGED <<meta, payload, disk, used, writeLock, kept, unbarred, calls, scenario>>

\* The payload goes first, then the metadata; the native delete is durable.
RemovePayload(t) ==
    /\ At(t, "remove", "payload")
    /\ \E c \in call[t].targets :
        /\ payload' = IF Kind[c] = "inline" THEN payload ELSE [payload EXCEPT ![c] = "none"]
        /\ disk' = IF Kind[c] = "native" THEN [disk EXCEPT ![c] = "none"] ELSE disk
        /\ call' = [call EXCEPT ![t] = [op |-> "remove", stage |-> "metadata", cid |-> c, next |-> @.next,
                                        targets |-> @.targets]]
    /\ UNCHANGED <<meta, used, writeLock, kept, unbarred, calls, scenario>>

\* rebuild_storage_location_usage(): the engine's space, and what is present and not corrupt.
Rebuilt(m) == Allocated + Cardinality({c \in Blocks : Kind[c] # "native" /\ m[c] = "ok" /\ payload[c] # "none"})

RemoveMeta(t) ==
    /\ At(t, "remove", "metadata")
    /\ LET c == call[t].cid
           left == call[t].targets \ {c}
       IN /\ meta' = [meta EXCEPT ![c] = "none"]
          /\ IF Kind[c] = "inline"
             THEN payload' = [payload EXCEPT ![c] = "none"] /\ disk' = [disk EXCEPT ![c] = "none"]
             ELSE UNCHANGED <<payload, disk>>
          /\ used' = IF call[t].next = "rebuild" THEN Rebuilt(meta') ELSE UsedWithout(c)
          /\ IF left = {} THEN Returns(t) /\ writeLock' = Free
             ELSE /\ call' = [call EXCEPT ![t] = [op |-> "remove", stage |-> "payload", targets |-> left, next |-> @.next]]
                  /\ UNCHANGED writeLock
    /\ UNCHANGED <<kept, unbarred, calls, scenario>>

-----------------------------------------------------------------------------
(* get() of a bad payload: mark_corrupt(), without the lock *)

ReadsBad(t, c) ==
    /\ meta[c] = "ok" /\ payload[c] = "bad"
    /\ Enter(t, [op |-> "read", cid |-> c, stage |-> "load"])
    /\ UNCHANGED <<meta, payload, disk, used, writeLock, kept, unbarred, scenario>>

LoadToMark(t) ==
    /\ At(t, "read", "load")
    /\ IF meta[call[t].cid] = "none" THEN Returns(t) ELSE Goes(t, "store")
    /\ UNCHANGED <<meta, payload, disk, used, writeLock, kept, unbarred, calls, scenario>>

StoreMark(t) ==
    /\ At(t, "read", "store")
    /\ meta' = [meta EXCEPT ![call[t].cid] = "corrupt"]
    /\ Returns(t)
    /\ UNCHANGED <<payload, disk, used, writeLock, kept, unbarred, calls, scenario>>

-----------------------------------------------------------------------------
(* Faults, and BlockStore::open_inner() *)

CorruptFile(c) ==
    /\ Kind[c] = "file" /\ payload[c] = "good" /\ disk[c] = "good" /\ scenario.corruptions > 0
    /\ scenario' = [scenario EXCEPT !.corruptions = @ - 1]
    /\ payload' = [payload EXCEPT ![c] = "bad"] /\ disk' = [disk EXCEPT ![c] = "bad"]
    /\ kept' = kept \ {c}
    /\ call' = [t \in Threads |-> IF call[t].op = "put" /\ call[t].cid = c THEN [call[t] EXCEPT !.spoiled = TRUE] ELSE call[t]]
    /\ UNCHANGED <<meta, used, writeLock, unbarred, calls>>

\* reconcile_metadata_with_files() / _with_native(): metadata without payload
\* goes, payload without metadata is adopted if it is good.
Reconciled(left) == [c \in Blocks |->
    IF meta[c] # "none" /\ left[c] # "none" THEN meta[c]
    ELSE IF left[c] = "good" /\ Kind[c] # "inline" THEN "ok" ELSE "none"]

\* Bad files without metadata are quarantined.
Cleaned(left) == [c \in Blocks |-> IF meta[c] = "none" /\ left[c] = "bad" THEN "none" ELSE left[c]]

Opens(left) ==
    /\ meta' = Reconciled(left) /\ payload' = Cleaned(left)
    /\ used' = Cardinality({c \in Blocks : IF Kind[c] = "native" THEN left[c] # "none" ELSE meta'[c] = "ok"})
    /\ writeLock' = Free /\ call' = [t \in Threads |-> Idle]

\* The process is stopped and started: files whose barrier was still to come are
\* adopted as they are.
Restart ==
    /\ scenario.restarts > 0 /\ scenario' = [scenario EXCEPT !.restarts = @ - 1]
    /\ Opens(payload)
    /\ unbarred' = unbarred \cup {call[t].cid : t \in {u \in Threads : At(u, "put", "barrier")}}
    /\ UNCHANGED <<disk, kept, calls>>

\* Unsynced files come back as they were, as they are, or torn.
PowerLoss ==
    /\ scenario.crashes > 0 /\ scenario' = [scenario EXCEPT !.crashes = @ - 1]
    /\ \E left \in [Blocks -> {"none", "good", "bad"}] :
        /\ \A c \in Blocks : left[c] \in {payload[c], disk[c]} \cup (IF payload[c] = "good" /\ disk[c] # "good" THEN {"bad"} ELSE {})
        /\ Opens(left) /\ disk' = Cleaned(left)
    /\ kept' = kept \ unbarred /\ unbarred' = {}
    /\ UNCHANGED calls

Next ==
    \/ \E t \in Threads, c \in Blocks : \/ BeginPut(t, c) \/ NativePut(t, c) \/ DeleteRepairExtra(t, c)
                                        \/ ScanFindsBad(t, c) \/ ReadsBad(t, c)
    \/ \E t \in Threads, intent \in {"normal", "replica"} : Prepare(t, intent)
    \/ \E t \in Threads, protected \in SUBSET Blocks : GarbageCollect(t, protected)
    \/ \E t \in Threads :
        \/ AnswerExisting(t) \/ DropInvalid(t) \/ RefusePut(t) \/ RenameFile(t) \/ Barrier(t) \/ BarrierFails(t) \/ InsertMeta(t)
        \/ ReadMeta(t) \/ RemoveStale(t) \/ EnginePut(t) \/ InsertNativeMeta(t)
        \/ QuarantineBlock(t) \/ QuarantineNothing(t) \/ RemovePayload(t) \/ RemoveMeta(t)
        \/ LoadToMark(t) \/ StoreMark(t)
    \/ \E c \in Blocks : CorruptFile(c)
    \/ Restart \/ PowerLoss

Spec == Init /\ [][Next]_vars

-----------------------------------------------------------------------------
(* get() finds a block whose put was answered: through duplicate puts,     *)
(* collections that protect it, failed barriers, restarts and power        *)
(* losses, until it is removed or damaged.  One case is excepted, in which *)
(* it is lost: a put whose barrier failed, or was cut off by a restart,    *)
(* leaves its file in place; the next put of the block finds it and        *)
(* answers without a barrier, so a power loss before the next barrier      *)
(* still takes the file (unbarred).                                        *)
AnsweredReadable == \A c \in kept : meta[c] # "none" /\ payload[c] = "good"

=============================================================================
