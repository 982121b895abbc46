----------------------------- MODULE S3Buckets -----------------------------
(***************************************************************************)
(* Creation and deletion of S3 buckets (pepper-agent s3_api.rs).           *)
(*                                                                         *)
(* The catalog maps a bucket's name to its control namespace and never     *)
(* changes; deletion is a mark in that namespace.  CreateBucket claims the *)
(* catalog entry, then creates the data partition under a request id that  *)
(* is the same for every attempt, puts its fence, and stores the map that  *)
(* names the fence's generation; a create that was cut off is finished by  *)
(* the next one.  CreateBucket holds the gateway's lock, DeleteBucket none.*)
(* One name; a data partition of a control namespace stands for all.       *)
(***************************************************************************)
EXTENDS Naturals, FiniteSets

CONSTANTS
    Requests,           \* the requests: gateway, operation
    Scenarios,          \* the sets of requests that are sent together
    MaxCuts             \* bound: requests cut off half way

Ids == DOMAIN Requests
Gateways == {Requests[r].gw : r \in Ids}

VARIABLES
    catalog,        \* the control namespace of the name: the request that created it, 0 for none
    control,        \* per control namespace: S3_BUCKET_DELETED_KEY, the fence generation in the map (0: no map)
    data,           \* the data partition of each: fence generation (0: not created), has a live object
    lock,           \* bucket_create_lock of each gateway: its holder
    req,            \* where each request is
    orphans,        \* requests that left an acknowledged object in a deleted bucket
    overlap,        \* two gateways initialized the bucket, or a write and DeleteBucket ran, at the same time
    cuts

vars == <<catalog, control, data, lock, req, orphans, overlap, cuts>>

Waiting(pc) == [pc |-> pc, ns |-> 0, fence |-> 0]

TypeOK ==
    /\ catalog \in Ids \cup {0}
    /\ control \in [Ids -> [deleted : BOOLEAN, map : Nat]]
    /\ data \in [Ids -> [fence : Nat, live : BOOLEAN]]
    /\ lock \in [Gateways -> Ids \cup {0}]
    /\ \A r \in Ids : req[r].pc \in {"new", "existing", "clear", "claim", "init", "fence", "map", "empty", "mark",
                                     "apply", "done", "failed"}
    /\ orphans \subseteq Ids /\ overlap \in BOOLEAN /\ cuts \in 0 .. MaxCuts

Init ==
    /\ catalog = 0
    /\ control = [n \in Ids |-> [deleted |-> FALSE, map |-> 0]]
    /\ data = [n \in Ids |-> [fence |-> 0, live |-> FALSE]]
    /\ lock = [g \in Gateways |-> 0]
    /\ \E sent \in Scenarios : req = [r \in Ids |-> Waiting(IF r \in sent THEN "new" ELSE "failed")]
    /\ orphans = {} /\ overlap = FALSE /\ cuts = 0

----------------------------------------------------------------------------
\* requests of these kinds are at these points
Someone(ops, pcs) == \E r \in Ids : Requests[r].op \in ops /\ req[r].pc \in pcs
At(r, op, pc) == Requests[r].op = op /\ req[r].pc = pc
Gw(r) == Requests[r].gw
Goto(r, pc) == req' = [req EXCEPT ![r].pc = pc]
End(r, pc) ==
    /\ req' = [req EXCEPT ![r] = Waiting(pc)]
    /\ lock' = [g \in Gateways |-> IF lock[g] = r THEN 0 ELSE lock[g]]

(* s3_create_bucket()                                                      *)

\* under the gateway's lock: s3_catalog_lookup(), else bucket_create()
CreateLookup(r) ==
    /\ At(r, "create", "new") /\ lock[Gw(r)] = 0
    /\ lock' = [lock EXCEPT ![Gw(r)] = r]
    /\ req' = [req EXCEPT ![r] = IF catalog # 0 THEN [@ EXCEPT !.pc = "existing", !.ns = catalog]
                                 ELSE [@ EXCEPT !.pc = "claim", !.ns = r]]
    /\ UNCHANGED <<catalog, control, data, orphans, overlap, cuts>>

\* A deleted bucket is created by clearing the mark, one without a map by
\* finishing its initialization.
CreateExisting(r) ==
    /\ At(r, "create", "existing")
    /\ LET bucket == control[req[r].ns]
       IN \/ bucket.deleted /\ Goto(r, "clear") /\ UNCHANGED lock
          \/ ~bucket.deleted /\ bucket.map = 0 /\ Goto(r, "init") /\ UNCHANGED lock
          \/ ~bucket.deleted /\ bucket.map # 0 /\ End(r, "failed")
    /\ UNCHANGED <<catalog, control, data, orphans, overlap, cuts>>

ClearDeleted(r) ==
    /\ At(r, "create", "clear")
    /\ control' = [control EXCEPT ![req[r].ns].deleted = FALSE]
    /\ End(r, "done")
    /\ UNCHANGED <<catalog, data, orphans, overlap, cuts>>

\* claim_s3_catalog_entry(): Absent; the loser marks its namespace deleted
Claim(r) ==
    /\ At(r, "create", "claim")
    /\ IF catalog = 0
       THEN catalog' = r /\ Goto(r, "init") /\ UNCHANGED <<control, lock>>
       ELSE /\ control' = [control EXCEPT ![r].deleted = TRUE]
            /\ End(r, "failed")
            /\ UNCHANGED catalog
    /\ UNCHANGED <<data, orphans, overlap, cuts>>

\* initialize_partitioned_bucket(): a map that is there is left alone; the
\* partition is created again and its fence written again otherwise
Initialized(n) == control[n].map # 0

InitCheck(r) ==
    /\ At(r, "create", "init")
    /\ IF Initialized(req[r].ns) THEN End(r, "done") ELSE Goto(r, "fence") /\ UNCHANGED lock
    /\ overlap' = (overlap \/ Someone({"create"}, {"fence", "map"}))
    /\ UNCHANGED <<catalog, control, data, orphans, cuts>>

InitFence(r) ==
    /\ At(r, "create", "fence")
    /\ LET n == req[r].ns
           fence == data[n].fence + 1
       IN /\ data' = [data EXCEPT ![n].fence = fence]
          /\ req' = [req EXCEPT ![r] = [@ EXCEPT !.pc = "map", !.fence = fence]]
    /\ UNCHANGED <<catalog, control, lock, orphans, overlap, cuts>>

InitMap(r) ==
    /\ At(r, "create", "map")
    /\ control' = [control EXCEPT ![req[r].ns].map = req[r].fence]
    /\ End(r, "done")
    /\ UNCHANGED <<catalog, data, orphans, overlap, cuts>>

----------------------------------------------------------------------------
\* bucket_namespace_state(): the entry, no deletion mark, a map
Resolvable == catalog # 0 /\ ~control[catalog].deleted /\ control[catalog].map # 0

(* s3_delete_bucket()                                                      *)

DeleteResolve(r) ==
    /\ At(r, "delete", "new") /\ catalog # 0
    /\ IF Resolvable THEN req' = [req EXCEPT ![r] = [@ EXCEPT !.pc = "empty", !.ns = catalog]] /\ UNCHANGED lock
       ELSE End(r, "failed")
    /\ overlap' = (overlap \/ Someone({"put"}, {"apply"}))
    /\ UNCHANGED <<catalog, control, data, orphans, cuts>>

\* ensure_bucket_empty() scans the partitions ..
Empty(n) == ~data[n].live

DeleteEmpty(r) ==
    /\ At(r, "delete", "empty")
    /\ IF Empty(req[r].ns) THEN Goto(r, "mark") /\ UNCHANGED lock ELSE End(r, "failed")
    /\ UNCHANGED <<catalog, control, data, orphans, overlap, cuts>>

\* .. and mark_bucket_deleted() writes the mark in another namespace
DeleteMark(r) ==
    /\ At(r, "delete", "mark")
    /\ control' = [control EXCEPT ![req[r].ns].deleted = TRUE]
    /\ orphans' = IF data[req[r].ns].live THEN orphans \cup {r} ELSE orphans
    /\ End(r, "done")
    /\ UNCHANGED <<catalog, data, overlap, cuts>>

----------------------------------------------------------------------------
(* s3_put_object() and s3_delete_object()                                  *)

WriteResolve(r) ==
    /\ Requests[r].op \in {"put", "remove"} /\ req[r].pc = "new" /\ catalog # 0
    /\ IF Resolvable
       THEN /\ req' = [req EXCEPT ![r] = [pc |-> "apply", ns |-> catalog, fence |-> control[catalog].map]]
            /\ UNCHANGED lock
       ELSE End(r, "failed")
    /\ overlap' = (overlap \/ Someone({"delete"}, {"empty", "mark"}))
    /\ UNCHANGED <<catalog, control, data, orphans, cuts>>

WriteApply(r) ==
    /\ req[r].pc = "apply"
    /\ LET n == req[r].ns IN
       IF data[n].fence = req[r].fence
       THEN /\ data' = [data EXCEPT ![n].live = Requests[r].op = "put"]
            /\ End(r, "done")
            /\ orphans' = IF control[n].deleted /\ Requests[r].op = "put" THEN orphans \cup {r} ELSE orphans
       ELSE End(r, "failed") /\ UNCHANGED <<data, orphans>>
    /\ UNCHANGED <<catalog, control, overlap, cuts>>

\* A request is dropped with its connection or its process
CutOff(r) ==
    /\ req[r].pc \notin {"new", "done", "failed"} /\ cuts < MaxCuts
    /\ cuts' = cuts + 1
    /\ End(r, "failed")
    /\ UNCHANGED <<catalog, control, data, orphans, overlap>>

Next ==
    \E r \in Ids :
        \/ CreateLookup(r) \/ CreateExisting(r) \/ ClearDeleted(r) \/ Claim(r)
        \/ InitCheck(r) \/ InitFence(r) \/ InitMap(r)
        \/ DeleteResolve(r) \/ DeleteEmpty(r) \/ DeleteMark(r)
        \/ WriteResolve(r) \/ WriteApply(r) \/ CutOff(r)

Spec == Init /\ [][Next]_vars

----------------------------------------------------------------------------
\* A bucket's map names the fence its partition has: no create, repeated or
\* cut off anywhere, leaves a bucket that refuses every write.
MapNamesFence == \A n \in Ids : control[n].map # 0 => control[n].map = data[n].fence

\* No acknowledged object is in a bucket that was deleted.
DeletedBucketEmpty == orphans = {}

\* Both hold unless two gateways initialize the bucket at the same time
\* (bucket_create_lock is the process's own), or a write and DeleteBucket
\* overlap (the mark and the objects are in different namespaces).
BucketsSound == ~overlap => MapNamesFence /\ DeletedBucketEmpty
=============================================================================
