----------------------------- MODULE S3Objects -----------------------------
(***************************************************************************)
(* Objects of a partitioned S3 bucket (pepper-agent s3_api.rs and          *)
(* bucket_api.rs).                                                         *)
(*                                                                         *)
(* A bucket's control namespace holds the partition map, which routes a    *)
(* key's hash to a data namespace and names the generation of that         *)
(* namespace's fence.  A write is one transaction of the data namespace    *)
(* that asserts the fence it was routed by.  An administrator splits,      *)
(* merges or moves partitions: new namespaces, the map marked as           *)
(* reconfiguring, each source's fence rewritten ("frozen") and its         *)
(* contents copied, the new map.  An interrupted change is undone by       *)
(* abort.  Gateways cache the route for reads and the namespace head for   *)
(* writes.                                                                 *)
(*                                                                         *)
(* A fence is its generation: nothing reads its body.  A namespace is      *)
(* named by the epoch and the partition it was created for (the request id *)
(* of its creation).  Keys are numbered in the order of their hashes; of a *)
(* partition the keys in its range are kept.                               *)
(***************************************************************************)
EXTENDS Naturals, Sequences, FiniteSets, FiniteSetsExt

CONSTANTS
    KeyCount,
    Gateways,
    Requests,           \* the requests: gateway, operation, key
    Scenarios,          \* requests sent, gateways that repartition, may reads use a cached route
    MaxChanges, MaxStops    \* bounds: repartitionings; handlers stopped half way

Keys == 1 .. KeyCount
Ids == DOMAIN Requests
Versions == 0 .. Len(Requests)

VARIABLES
    map,            \* the partition map: epoch, state, and per key its partition, namespace, fence
    spaces,         \* the data namespaces: fence generation and objects
    routes,         \* s3_read_route_cache of each gateway
    heads,          \* namespace_head_cache of each gateway: the objects of its cached root
    req,            \* where each request is
    admin,          \* where each gateway's admin_bucket_partition_change() is (under its lock)
    clock,          \* number of the last applied write
    acked,          \* per key: the last acknowledged write
    claims,         \* per key and version (0: absent): conditional puts acknowledged on it
    stale,          \* requests that were given less than was acknowledged before they began
    scenario, changes, stops

writeVars == <<clock, acked, claims>>
vars == <<map, spaces, routes, heads, req, admin, writeVars, stale, scenario, changes, stops>>

Absent == [gen |-> 0, num |-> 0, tombstone |-> FALSE]
NoObjects == [k \in Keys |-> Absent]
NoRoute == [epoch |-> 0, state |-> "none", at |-> <<>>]
IdleAdmin == [pc |-> "idle", old |-> NoRoute, at |-> <<>>, todo |-> {}, snapshot |-> NoObjects]
Waiting(pc) == [pc |-> pc, ns |-> <<0, 0>>, fence |-> 0, seen |-> Absent, base |-> Absent, root |-> NoObjects, floor |-> 0]

\* put_bucket_internal_raw() of the fence key
Refence(all, ns) == [all EXCEPT ![ns].fence = @ + 1]

MaxEpoch == 1 + 2 * MaxChanges
Names == (1 .. MaxEpoch) \X (1 .. 1 + KeyCount * MaxChanges)

TypeOK ==
    /\ map.state \in {"active", "reconfiguring"} /\ map.epoch \in 1 .. MaxEpoch
    /\ \A k \in Keys : map.at[k].ns \in DOMAIN spaces
    /\ DOMAIN spaces \subseteq Names
    /\ \A n \in DOMAIN spaces : \A k \in Keys : spaces[n].objects[k].num \in 0 .. clock
    /\ \A g \in Gateways : /\ routes[g].state \in {"none", "active", "reconfiguring"}
                           /\ DOMAIN heads[g] \subseteq DOMAIN spaces
                           /\ admin[g].pc \in {"idle", "transition", "freeze", "snapshot", "copy", "final", "restore"}
    /\ \A r \in Ids : req[r].pc \in {"new", "base", "apply", "refresh", "drop", "read", "done", "failed"}
    /\ acked \in [Keys -> Nat] /\ claims \in [Keys -> [Versions -> Nat]]
    /\ stale \subseteq Ids
    /\ changes \in 0 .. MaxChanges /\ stops \in 0 .. MaxStops

\* initialize_partitioned_bucket(), with one partition
Init ==
    /\ scenario \in Scenarios
    /\ map = [epoch |-> 1, state |-> "active", at |-> [k \in Keys |-> [id |-> 1, ns |-> <<1, 1>>, fence |-> 1]]]
    /\ spaces = [n \in {<<1, 1>>} |-> [fence |-> 1, objects |-> NoObjects]]
    /\ routes = [g \in Gateways |-> NoRoute]
    /\ heads = [g \in Gateways |-> <<>>]
    /\ req = [r \in Ids |-> Waiting(IF r \in scenario.sent THEN "new" ELSE "failed")]
    /\ admin = [g \in Gateways |-> IdleAdmin]
    /\ clock = 0 /\ acked = [k \in Keys |-> 0] /\ claims = [k \in Keys |-> [v \in Versions |-> 0]]
    /\ stale = {} /\ changes = 0 /\ stops = 0

----------------------------------------------------------------------------
(* Writes: s3_put_object(), s3_delete_object(), bucket_put(),              *)
(* bucket_delete()                                                         *)

Gw(r) == Requests[r].gw
Op(r) == Requests[r].op
Key(r) == Requests[r].key
End(r, pc) == req' = [req EXCEPT ![r] = Waiting(pc)]
Exists(object) == object.num # 0 /\ ~object.tombstone

\* bucket_namespace_state(): every full resolution refreshes the read route
Resolved(g) == routes' = [routes EXCEPT ![g] = map]

\* The route; for a conditional request the object too, whose condition is
\* checked here: If-None-Match finds no object, If-Match the version the
\* client knows.
RouteWrite(r) ==
    /\ Op(r) # "get" /\ req[r].pc = "new"
    /\ LET at == map.at[Key(r)]
           object == spaces[at.ns].objects[Key(r)]
           admitted == /\ map.state = "active"
                       /\ Op(r) = "create" => ~Exists(object)
                       /\ Op(r) = "replace" => Exists(object)
       IN IF admitted
          THEN req' = [req EXCEPT ![r] = [@ EXCEPT !.pc = "base", !.ns = at.ns, !.fence = at.fence,
                         !.seen = IF Op(r) \in {"create", "replace"} THEN object ELSE Absent]]
          ELSE End(r, "failed")
    /\ Resolved(Gw(r))
    /\ UNCHANGED <<map, spaces, heads, admin, writeVars, stale, scenario, changes, stops>>

\* if_cid: the version the condition was checked on, none for a key that was
\* never written
Conditional(r) == Op(r) \in {"create", "replace"} /\ req[r].seen # Absent

\* cached_namespace_base() of bucket_put(); bucket_delete() reads the head.
\* precondition() compares if_cid with the object of that base.
FromCache(r) == Op(r) # "delete" /\ req[r].ns \in DOMAIN heads[Gw(r)]

ReadBase(r) ==
    /\ req[r].pc = "base"
    /\ LET ns == req[r].ns
           base == IF FromCache(r) THEN heads[Gw(r)][ns] ELSE spaces[ns].objects
       IN /\ IF Conditional(r) /\ base[Key(r)].num # req[r].seen.num
             THEN End(r, "failed")
             ELSE req' = [req EXCEPT ![r] = [@ EXCEPT !.pc = "apply", !.base = base[Key(r)]]]
          /\ heads' = IF Op(r) = "delete" THEN heads
                      ELSE [heads EXCEPT ![Gw(r)] = [n \in DOMAIN @ \cup {ns} |-> IF n = ns THEN base ELSE @[n]]]
    /\ UNCHANGED <<map, spaces, routes, admin, writeVars, stale, scenario, changes, stops>>

\* KeyPrecondition of the Put: Match on the base's object for a condition and
\* for a delete, Any otherwise
VersionHolds(r) ==
    Conditional(r) \/ Op(r) = "delete" => spaces[req[r].ns].objects[Key(r)] = req[r].base

\* the Assert on the fence key
AnyFence(r) == TRUE
FenceHolds(r) == spaces[req[r].ns].fence = req[r].fence

\* The transaction.  A conflict ends the request: an unconditional put tries
\* again under the same fence, to the same effect.
Apply(r) ==
    /\ req[r].pc = "apply"
    /\ LET ns == req[r].ns  k == Key(r)
           written == [gen |-> spaces[ns].objects[k].gen + 1, num |-> clock + 1, tombstone |-> Op(r) = "delete"]
       IN IF FenceHolds(r) /\ VersionHolds(r)
          THEN /\ spaces' = [spaces EXCEPT ![ns].objects[k] = written]
               /\ clock' = clock + 1
               /\ claims' = IF Op(r) \in {"create", "replace"} THEN [claims EXCEPT ![k][req[r].seen.num] = @ + 1]
                            ELSE claims
               /\ req' = [req EXCEPT ![r] = [Waiting("refresh") EXCEPT !.ns = ns, !.root = spaces'[ns].objects]]
          ELSE /\ req' = [req EXCEPT ![r] = [Waiting("drop") EXCEPT !.ns = ns]]
               /\ UNCHANGED <<spaces, clock, claims>>
    /\ UNCHANGED <<map, routes, heads, admin, acked, stale, scenario, changes, stops>>

\* refresh_cached_namespace_head(): what was committed, unless the cached head
\* is newer, and the answer; bucket_delete() leaves the cache alone
Newest(objects) == Max({objects[k].num : k \in Keys})
Refresh(r) ==
    LET g == Gw(r)  ns == req[r].ns  root == req[r].root IN
    /\ req[r].pc = "refresh"
    /\ heads' = IF Op(r) # "delete" /\ ns \in DOMAIN heads[g] /\ Newest(root) > Newest(heads[g][ns])
                THEN [heads EXCEPT ![g][ns] = root] ELSE heads
    /\ acked' = [acked EXCEPT ![Key(r)] = Max({@, root[Key(r)].num})]
    /\ End(r, "done")
    /\ UNCHANGED <<map, spaces, routes, admin, clock, claims, stale, scenario, changes, stops>>

\* invalidate_cached_namespace_head()
Invalidate(r) ==
    /\ req[r].pc = "drop"
    /\ heads' = IF Op(r) = "delete" THEN heads
                ELSE [heads EXCEPT ![Gw(r)] = [n \in DOMAIN @ \ {req[r].ns} |-> @[n]]]
    /\ End(r, "failed")
    /\ UNCHANGED <<map, spaces, routes, admin, writeVars, stale, scenario, changes, stops>>

----------------------------------------------------------------------------
(* Reads: s3_get_object()                                                  *)

\* cached_read_partition_state()
RouteFromCache(r) ==
    /\ Op(r) = "get" /\ req[r].pc = "new" /\ scenario.cached
    /\ routes[Gw(r)].state = "active"
    /\ req' = [req EXCEPT ![r] = [@ EXCEPT !.pc = "read", !.ns = routes[Gw(r)].at[Key(r)].ns,
                                           !.floor = acked[Key(r)]]]
    /\ UNCHANGED <<map, spaces, routes, heads, admin, writeVars, stale, scenario, changes, stops>>

\* bucket_partition_state(), when the route is missing or has aged
\* (S3_READ_CACHE_MAX_AGE)
RouteRead(r) ==
    /\ Op(r) = "get" /\ req[r].pc = "new"
    /\ IF map.state = "active"
       THEN req' = [req EXCEPT ![r] = [@ EXCEPT !.pc = "read", !.ns = map.at[Key(r)].ns, !.floor = acked[Key(r)]]]
       ELSE End(r, "failed")
    /\ Resolved(Gw(r))
    /\ UNCHANGED <<map, spaces, heads, admin, writeVars, stale, scenario, changes, stops>>

\* the linearizable head of the partition's namespace
ReadHead(r) ==
    /\ req[r].pc = "read"
    /\ stale' = IF spaces[req[r].ns].objects[Key(r)].num < req[r].floor THEN stale \cup {r} ELSE stale
    /\ End(r, "done")
    /\ UNCHANGED <<map, spaces, routes, heads, admin, writeVars, scenario, changes, stops>>

----------------------------------------------------------------------------
(* admin_bucket_partition_change()                                         *)

Partitions(m) == {m.at[k].id : k \in Keys}
Members(m, id) == {k \in Keys : m.at[k].id = id}
NextId(m) == 1 + Max(Partitions(m))

\* A split gives each key of the source its own target (a cut that leaves a
\* target without keys is a move), a merge takes two neighbours, a move one
\* source.
Plans(m) ==
    LET next == NextId(m)
        split == {[sources |-> {p}, ids |-> [k \in Members(m, p) |-> next + k - Min(Members(m, p))]] :
                    p \in {q \in Partitions(m) : Cardinality(Members(m, q)) = 2}}
        merge == {[sources |-> {m.at[k].id, m.at[k + 1].id},
                   ids |-> [j \in Members(m, m.at[k].id) \cup Members(m, m.at[k + 1].id) |-> next]] :
                    k \in {j \in 1 .. KeyCount - 1 : m.at[j].id # m.at[j + 1].id}}
        move == {[sources |-> {p}, ids |-> [k \in Members(m, p) |-> next]] : p \in Partitions(m)}
    IN split \cup merge \cup move

\* create_bucket_data_partition() of the targets, which no request sees yet
StartChange(g) ==
    /\ admin[g].pc = "idle" /\ g \in scenario.changers /\ changes < MaxChanges
    /\ map.state = "active"
    /\ \E plan \in Plans(map) :
         LET epoch == map.epoch + 1
             created == {<<epoch, plan.ids[k]>> : k \in DOMAIN plan.ids}
             fence(n) == 1 + (IF n \in DOMAIN spaces THEN spaces[n].fence ELSE 0)
         IN /\ spaces' = [n \in DOMAIN spaces \cup created |->
                            IF n \in created
                            THEN [fence |-> fence(n), objects |-> IF n \in DOMAIN spaces THEN spaces[n].objects ELSE NoObjects]
                            ELSE spaces[n]]
            /\ admin' = [admin EXCEPT ![g] =
                 [pc |-> "transition", old |-> map, todo |-> plan.sources, snapshot |-> NoObjects,
                  at |-> [k \in DOMAIN plan.ids |-> [id |-> plan.ids[k], ns |-> <<epoch, plan.ids[k]>>,
                                                     fence |-> fence(<<epoch, plan.ids[k]>>)]]]]
    /\ Resolved(g)
    /\ changes' = changes + 1
    /\ UNCHANGED <<map, heads, req, writeVars, stale, scenario, stops>>

\* store_bucket_partition_map() puts the map over whatever map is there
StoreTransition(g) ==
    /\ admin[g].pc = "transition"
    /\ map' = [admin[g].old EXCEPT !.epoch = @ + 1, !.state = "reconfiguring"]
    /\ admin' = [admin EXCEPT ![g].pc = "freeze"]
    /\ UNCHANGED <<spaces, routes, heads, req, writeVars, stale, scenario, changes, stops>>

SourceSpace(a, id) == a.old.at[Min(Members(a.old, id))].ns
NextSource(a) == SourceSpace(a, Min(a.todo))

\* freeze_bucket_partition(): the fence, then the head
FrozenFence(g) == Refence(spaces, NextSource(admin[g]))

Freeze(g) ==
    /\ admin[g].pc = "freeze"
    /\ spaces' = FrozenFence(g)
    /\ admin' = [admin EXCEPT ![g].pc = "snapshot"]
    /\ UNCHANGED <<map, routes, heads, req, writeVars, stale, scenario, changes, stops>>

Snapshot(g) ==
    /\ admin[g].pc = "snapshot"
    /\ admin' = [admin EXCEPT ![g] = [@ EXCEPT !.pc = "copy", !.snapshot = spaces[NextSource(admin[g])].objects]]
    /\ UNCHANGED <<map, spaces, routes, heads, req, writeVars, stale, scenario, changes, stops>>

\* copy_partition_snapshot(): Absent puts; the tombstones are copied too
Copy(g) ==
    /\ admin[g].pc = "copy"
    /\ LET a == admin[g]
           moved == {k \in DOMAIN a.at : a.snapshot[k].num # 0}
           free == \A k \in moved : spaces[a.at[k].ns].objects[k].num = 0
           rest == a.todo \ {Min(a.todo)}
       IN IF free
          THEN /\ spaces' = [n \in DOMAIN spaces |->
                    [spaces[n] EXCEPT !.objects = [k \in Keys |->
                       IF k \in moved /\ a.at[k].ns = n THEN [a.snapshot[k] EXCEPT !.gen = 1] ELSE @[k]]]]
               /\ admin' = [admin EXCEPT ![g] = [a EXCEPT !.pc = IF rest = {} THEN "final" ELSE "freeze", !.todo = rest,
                                                          !.snapshot = NoObjects]]
          ELSE admin' = [admin EXCEPT ![g] = IdleAdmin] /\ UNCHANGED spaces
    /\ UNCHANGED <<map, routes, heads, req, writeVars, stale, scenario, changes, stops>>

StoreFinal(g) ==
    /\ admin[g].pc = "final"
    /\ LET a == admin[g]
       IN map' = [epoch |-> a.old.epoch + 1, state |-> "active",
                  at |-> [k \in Keys |-> IF k \in DOMAIN a.at THEN a.at[k] ELSE a.old.at[k]]]
    /\ admin' = [admin EXCEPT ![g] = IdleAdmin]
    /\ UNCHANGED <<spaces, routes, heads, req, writeVars, stale, scenario, changes, stops>>

\* The handler fails or its process ends: the map stays as it is
StopChange(g) ==
    /\ admin[g].pc # "idle" /\ stops < MaxStops
    /\ stops' = stops + 1
    /\ admin' = [admin EXCEPT ![g] = IdleAdmin]
    /\ UNCHANGED <<map, spaces, routes, heads, req, writeVars, stale, scenario, changes>>

\* abort: every partition of the unfinished map gets a new fence ..
StartAbort(g) ==
    /\ admin[g].pc = "idle" /\ g \in scenario.changers
    /\ map.state = "reconfiguring"
    /\ admin' = [admin EXCEPT ![g] = [IdleAdmin EXCEPT !.pc = "restore", !.old = map, !.todo = Partitions(map)]]
    /\ Resolved(g)
    /\ UNCHANGED <<map, spaces, heads, req, writeVars, stale, scenario, changes, stops>>

Restore(g) ==
    /\ admin[g].pc = "restore" /\ admin[g].todo # {}
    /\ LET a == admin[g]
           p == Min(a.todo)
           ns == NextSource(a)
       IN /\ spaces' = Refence(spaces, ns)
          /\ admin' = [admin EXCEPT ![g] = [a EXCEPT !.todo = @ \ {p},
               !.old.at = [k \in Keys |-> IF a.old.at[k].id = p THEN [@[k] EXCEPT !.fence = spaces[ns].fence + 1]
                                          ELSE @[k]]]]
    /\ UNCHANGED <<map, routes, heads, req, writeVars, stale, scenario, changes, stops>>

\* .. and the map is active again
StoreRestored(g) ==
    /\ admin[g].pc = "restore" /\ admin[g].todo = {}
    /\ map' = [admin[g].old EXCEPT !.epoch = @ + 1, !.state = "active"]
    /\ admin' = [admin EXCEPT ![g] = IdleAdmin]
    /\ UNCHANGED <<spaces, routes, heads, req, writeVars, stale, scenario, changes, stops>>

----------------------------------------------------------------------------
Request(r) == RouteWrite(r) \/ ReadBase(r) \/ Apply(r) \/ Refresh(r) \/ Invalidate(r) \/ RouteFromCache(r) \/ RouteRead(r) \/ ReadHead(r)
Admin(g) ==
    \/ StartChange(g) \/ StoreTransition(g) \/ Freeze(g) \/ Snapshot(g) \/ Copy(g) \/ StoreFinal(g)
    \/ StopChange(g) \/ StartAbort(g) \/ Restore(g) \/ StoreRestored(g)

Next == (\E r \in Ids : Request(r)) \/ (\E g \in Gateways : Admin(g))

Spec == Init /\ [][Next]_vars

----------------------------------------------------------------------------
\* An acknowledged write (or a later one) is where its key is routed,
\* whatever repartitioning is under way, was cut off or was aborted.
AckedWriteRouted == \A k \in Keys : spaces[map.at[k].ns].objects[k].num >= acked[k]

\* A read returns at least what was acknowledged before it began
\* (cached_read_partition_state(): "Read-after-write is never weakened").
ReadAfterWrite == stale = {}

\* Of several If-None-Match puts of an absent object one is acknowledged
\* (bucket_put(): "Conditional writes keep their precondition, checked at
\* apply"), and of several If-Match puts of a version.
CreatedOnce == \A k \in Keys : claims[k][0] <= 1
ReplacedOnce == \A k \in Keys : \A v \in Versions \ {0} : claims[k][v] <= 1
=============================================================================
