-------------------------- MODULE PlacementRepair --------------------------
(***************************************************************************)
(* Repair of placed blocks (pepper-agent repair.rs, with the placement     *)
(* exceptions of s3_api.rs).  Every object write commits an inventory      *)
(* event in its namespace.  The namespace's leader hands the events to the *)
(* repair owners and keeps a cursor; an owner probes the canonical nodes,  *)
(* takes a lease for each missing copy and lets the destination fetch it.  *)
(* While a canonical node is away a replacement holds the copy and a       *)
(* placement exception with a time limit names it; the copy is collected   *)
(* once the exception has expired and every canonical node is healthy.     *)
(*                                                                         *)
(* An event is one block and its placement; erasure shards are repaired    *)
(* along the same steps with one canonical node and more sources.  The     *)
(* cursor and budgets of a pass (2048 plans, 4096 tasks) are never met.    *)
(***************************************************************************)
EXTENDS Naturals, FiniteSets, Sequences, SequencesExt, FiniteSetsExt

CONSTANTS
    Nodes,
    Voters,         \* the nodes of the namespace's group
    Blocks,
    Events,         \* [block, canonical]: what each inventory event is about; its place in the sequence is its id
    Owners,         \* select_repair_owners(): epoch -> event -> set of nodes
    Replacement,    \* select_repair_replacement(): epoch -> event -> node
    Gateway,        \* the node administrators send their requests to
    LeaseTime, ExceptionTime, RenewalWindow,
    MaxEpoch,
    Scenarios       \* sent: the events; placed: whether they are written and with their owners at first; stale: a writer's base may be old; race: an exception may be renewed
                    \* during a collection; bounds: time, outages, losses, epochs, leaders, admins, passes of
                    \* each of the passers

Ids == 1 .. Len(Events)
Tasks == [ev : Ids, dest : Nodes, temp : BOOLEAN]

VARIABLES
    revision,       \* of the namespace
    key,            \* the revision in the key of each committed event, 0 before
    base,           \* the revision each event's writer has read, 0 before
    leader, epoch, now, up,
    blocks,         \* each node's block store
    inventory,      \* LOCAL_REPAIR_INVENTORY
    cursor,         \* LOCAL_REPAIR_INVENTORY_CURSORS: [epoch, key]
    lease,          \* the lease of each task: [owner, epoch, fence, expires, gen]
    exception,      \* the committed exception of each event: [node, gen, expires]
    view,           \* each node's placement map epoch and installed exceptions
    sync,           \* each node's sync_namespace_repair_inventory()
    pass,           \* each node's run_placement_owned_repair()
    work,           \* execute_placement_repair() at the destinations
    collect,        \* each node's collection of an expired exception
    admin,          \* admin_placement_exception_put() at the gateway: [ev, node, gen, expires], ev 0 when there is none
    stored,         \* history: the copies that were stored
    faults,         \* history: the copies lost to faults, the blocks that lost their last copy so or a copy during a collection, and counts
    scenario

vars == <<revision, key, base, leader, epoch, now, up, blocks, inventory, cursor, lease, exception, view, sync, pass, work,
          collect, admin, stored, faults, scenario>>
namespaceVars == <<revision, key, base, leader>>
nodeVars == <<epoch, now, up>>

None == [owner |-> "none", epoch |-> 0, fence |-> 0, expires |-> 0, gen |-> 0]
NoException == [node |-> "none", gen |-> 0, expires |-> 0]
NoTask == [ev |-> 0, dest |-> "none", temp |-> FALSE]
Idle == [pc |-> "idle", page |-> {}, owners |-> {}, failed |-> FALSE, epoch |-> 0, by |-> 0]
Resting == [pc |-> "idle", epoch |-> 0, todo |-> <<>>, health |-> {}, tasks |-> {}, task |-> NoTask, read |-> None, token |-> None,
            gen |-> 0]
Quiet == [pc |-> "idle", ev |-> 0, saw |-> NoException, probed |-> {}]
NoAdmin == [ev |-> 0, node |-> "none", gen |-> 0, expires |-> 0]

Committed == {e \in Ids : key[e] # 0}
BlockOf(e) == Events[e].block
Canonical(e) == Events[e].canonical
Active(x, t) == x.node # "none" /\ x.expires > t

TypeOK ==
    /\ revision \in Nat /\ key \in [Ids -> Nat] /\ base \in [Ids -> Nat]
    /\ leader \in Nodes /\ epoch \in 1 .. MaxEpoch /\ now \in Nat /\ up \subseteq Nodes
    /\ blocks \in [Nodes -> SUBSET Blocks] /\ inventory \in [Nodes -> SUBSET Ids]
    /\ \A n \in Nodes : /\ cursor[n].epoch \in 0 .. MaxEpoch /\ cursor[n].key \in 0 .. revision
                        /\ view[n].epoch \in 1 .. MaxEpoch
                        /\ pass[n].pc \in {"idle", "plan", "read", "write", "ship", "wait", "renew", "reread", "check", "commit"}
                        /\ sync[n].pc \in {"idle", "route", "push"} /\ collect[n].pc \in {"idle", "ask", "probe", "forget"}
    /\ \A t \in Tasks : lease[t].fence <= lease[t].gen
    /\ \A w \in work : w.step \in {"validate", "fetch", "revalidate", "put", "healthy", "repaired", "fenced", "error"}

Init ==
    /\ scenario \in Scenarios
    /\ leader = (CHOOSE n \in Voters : n \in Owners[1][1])
    /\ LET placed == IF scenario.placed THEN scenario.sent ELSE {}
           at(n) == {e \in placed : n \in Canonical(e)}
       IN /\ revision = 1 + Cardinality(placed)
          /\ key = [e \in Ids |-> IF e \in placed THEN e + 1 ELSE 0] /\ base = [e \in Ids |-> IF e \in placed THEN e ELSE 0]
          /\ blocks = [n \in Nodes |-> {BlockOf(e) : e \in at(n)}]
          /\ stored = UNION {{<<n, BlockOf(e)>> : e \in at(n)} : n \in Nodes}
          /\ inventory = [n \in Nodes |-> {e \in placed : n = leader \/ n \in Owners[1][e]}]
          /\ cursor = [n \in Nodes |-> IF n = leader /\ placed # {} THEN [epoch |-> 1, key |-> revision]
                                       ELSE [epoch |-> 0, key |-> 0]]
    /\ epoch = 1 /\ now = 0 /\ up = Nodes
    /\ lease = [t \in Tasks |-> None]
    /\ exception = [e \in Ids |-> NoException]
    /\ view = [n \in Nodes |-> [epoch |-> 1, exceptions |-> exception]]
    /\ sync = [n \in Nodes |-> Idle] /\ pass = [n \in Nodes |-> Resting] /\ collect = [n \in Nodes |-> Quiet]
    /\ work = {} /\ admin = NoAdmin
    /\ faults = [lost |-> {}, last |-> {}, raced |-> {}, outages |-> 0, losses |-> 0, passes |-> [n \in Nodes |-> 0], leaders |-> 0, admins |-> 0]

----------------------------------------------------------------------------
(* The world: writers, time, outages.                                      *)

\* an object write reads its base ..
BeginWrite(e) ==
    /\ e \in scenario.sent /\ base[e] = 0 /\ base' = [base EXCEPT ![e] = revision]
    /\ UNCHANGED <<revision, key, leader, nodeVars, blocks, inventory, cursor, lease, exception, view, sync, pass, work,
                   collect, admin, stored, faults, scenario>>

\* .. stores its blocks on the canonical nodes it reaches, and commits; the event's key has the base's next revision
EventKey(e) == IF scenario.stale THEN base[e] + 1 ELSE revision + 1
CommitWrite(e) ==
    /\ base[e] # 0 /\ key[e] = 0 /\ Canonical(e) \cap up # {}
    /\ LET at == Canonical(e) \cap up
       IN /\ blocks' = [n \in Nodes |-> IF n \in at THEN blocks[n] \cup {BlockOf(e)} ELSE blocks[n]]
          /\ stored' = stored \cup {<<n, BlockOf(e)>> : n \in at}
          /\ faults' = [faults EXCEPT !.lost = @ \ {<<n, BlockOf(e)>> : n \in at}]
    /\ revision' = revision + 1 /\ key' = [key EXCEPT ![e] = EventKey(e)]
    /\ UNCHANGED <<base, leader, nodeVars, inventory, cursor, lease, exception, view, sync, pass, work, collect, admin, scenario>>

Tick ==
    /\ now < scenario.time /\ now' = now + 1
    /\ UNCHANGED <<namespaceVars, epoch, up, blocks, inventory, cursor, lease, exception, view, sync, pass, work, collect, admin,
                   stored, faults, scenario>>

Outage(n) ==
    /\ faults.outages < scenario.outages /\ n \in up /\ n # leader /\ up' = up \ {n}
    /\ faults' = [faults EXCEPT !.outages = @ + 1]
    /\ UNCHANGED <<namespaceVars, epoch, now, blocks, inventory, cursor, lease, exception, view, sync, pass, work, collect, admin,
                   stored, scenario>>

Return(n) ==
    /\ n \notin up /\ up' = up \cup {n}
    /\ UNCHANGED <<namespaceVars, epoch, now, blocks, inventory, cursor, lease, exception, view, sync, pass, work, collect, admin,
                   stored, faults, scenario>>

\* a disk loses a block
LoseBlock(n, b) ==
    /\ faults.losses < scenario.losses /\ b \in blocks[n]
    /\ blocks' = [blocks EXCEPT ![n] = @ \ {b}]
    /\ faults' = [faults EXCEPT !.losses = @ + 1, !.lost = @ \cup {<<n, b>>},
                                !.last = @ \cup IF \E m \in Nodes : b \in blocks'[m] THEN {} ELSE {b},
                                !.raced = @ \cup {x \in {b} : \E o \in Nodes : n \in collect[o].probed /\ BlockOf(collect[o].ev) = x}]
    /\ UNCHANGED <<namespaceVars, nodeVars, inventory, cursor, lease, exception, view, sync, pass, work, collect, admin, stored,
                   scenario>>

\* admin_placement_map_update(): a map with the next epoch, installed at the gateway
NewEpoch ==
    /\ Gateway \in up /\ epoch < scenario.epochs /\ epoch' = epoch + 1
    /\ view' = [view EXCEPT ![Gateway].epoch = epoch']
    /\ UNCHANGED <<namespaceVars, now, up, blocks, inventory, cursor, lease, exception, sync, pass, work, collect, admin,
                   stored, faults, scenario>>

LeaderChange(n) ==
    /\ faults.leaders < scenario.leaders /\ n # leader /\ n \in up \cap Voters /\ leader' = n
    /\ faults' = [faults EXCEPT !.leaders = @ + 1]
    /\ UNCHANGED <<revision, key, base, nodeVars, blocks, inventory, cursor, lease, exception, view, sync, pass, work,
                   collect, admin, stored, scenario>>

----------------------------------------------------------------------------
(* The inventory.                                                          *)

\* a cursor of another placement epoch starts again
After(n) == IF cursor[n].epoch = view[n].epoch THEN cursor[n].key ELSE 0
OwnersOf(e, ep) == Owners[ep][e]

\* persist_local_repair_inventory_batch()
Kept(n, events) == [inventory EXCEPT ![n] = @ \cup events]

\* accept_repair_inventory(): the sender is a voter or an owner by the receiver's own map
Accepts(o, from, events) ==
    o \in up /\ (from \in Voters \/ \A e \in events : from \in OwnersOf(e, view[o].epoch))

\* sync_namespace_repair_inventory(): the map's epoch, and the events after the cursor of that epoch ..
SyncStart(n) ==
    /\ n = leader /\ sync[n].pc = "idle"
    /\ LET page == {e \in Committed : key[e] > After(n)}
       IN page # {} /\ sync' = [sync EXCEPT ![n] = [Idle EXCEPT !.pc = "route", !.page = page, !.epoch = view[n].epoch]]
    /\ UNCHANGED <<namespaceVars, nodeVars, blocks, inventory, cursor, lease, exception, view, pass, work, collect, admin,
                   stored, faults, scenario>>

\* .. which dispatch_repair_inventory_batch() keeps locally; it reads the map again for the owners ..
SyncRoute(n) ==
    /\ sync[n].pc = "route"
    /\ sync' = [sync EXCEPT ![n].pc = "push", ![n].by = view[n].epoch,
                            ![n].owners = UNION {OwnersOf(e, view[n].epoch) : e \in sync[n].page} \ {n}]
    /\ inventory' = Kept(n, sync[n].page)
    /\ UNCHANGED <<namespaceVars, nodeVars, blocks, cursor, lease, exception, view, pass, work, collect, admin, stored,
                   faults, scenario>>

\* .. pushes them to each (accept_repair_inventory()) ..
SyncPush(n) ==
    /\ sync[n].pc = "push" /\ sync[n].owners # {}
    /\ LET o == CHOOSE m \in sync[n].owners : TRUE
           mine == {e \in sync[n].page : o \in OwnersOf(e, sync[n].by)}
       IN /\ sync' = [sync EXCEPT ![n].owners = @ \ {o}, ![n].failed = @ \/ ~Accepts(o, n, mine)]
          /\ inventory' = IF Accepts(o, n, mine) THEN Kept(o, mine) ELSE inventory
    /\ UNCHANGED <<namespaceVars, nodeVars, blocks, cursor, lease, exception, view, pass, work, collect, admin, stored, faults,
                   scenario>>

\* .. and the cursor is saved with the first epoch when all have them
AllDelivered(n) == ~sync[n].failed
SyncEnd(n) ==
    /\ sync[n].pc = "push" /\ sync[n].owners = {}
    /\ sync' = [sync EXCEPT ![n] = Idle]
    /\ cursor' = IF AllDelivered(n)
                 THEN [cursor EXCEPT ![n] = [epoch |-> sync[n].epoch, key |-> Max({key[e] : e \in sync[n].page})]]
                 ELSE cursor
    /\ UNCHANGED <<namespaceVars, nodeVars, blocks, inventory, lease, exception, view, pass, work, collect, admin, stored, faults,
                   scenario>>

----------------------------------------------------------------------------
(* A repair pass of an owner.                                              *)

Holds(n, e) == BlockOf(e) \in blocks[n]

\* run_placement_owned_repair(): the inventory in order, and build_repair_health_snapshot()
PassStart(n) ==
    /\ pass[n].pc = "idle" /\ inventory[n] # {} /\ n \in up
    /\ n \in scenario.passers /\ faults.passes[n] < scenario.passes
    /\ faults' = [faults EXCEPT !.passes[n] = @ + 1]
    /\ pass' = [pass EXCEPT ![n] = [Resting EXCEPT
                  !.pc = "plan", !.epoch = view[n].epoch,
                  !.todo = SetToSortSeq(inventory[n], LAMBDA d, e : key[d] < key[e]),
                  !.health = {<<m, e>> \in up \X inventory[n] : Holds(m, e)}]]
    /\ UNCHANGED <<namespaceVars, nodeVars, blocks, inventory, cursor, lease, exception, view, sync, work, collect, admin, stored,
                   scenario>>

\* repair_destination_for_missing(): a reachable canonical node itself; else the exception's node, unless it is healthy
\* and the exception has time left; else a replacement
Destination(n, e, c) ==
    LET x == view[n].exceptions[e]
        usable == Active(x, now) /\ (<<x.node, e>> \in pass[n].health \/ x.node \in up)
    IN CASE c \in up -> {[ev |-> e, dest |-> c, temp |-> FALSE]}
         [] c \notin up /\ usable ->
              IF <<x.node, e>> \in pass[n].health /\ x.expires > now + RenewalWindow
              THEN {} ELSE {[ev |-> e, dest |-> x.node, temp |-> TRUE]}
         [] OTHER -> {[ev |-> e, dest |-> Replacement[view[n].epoch][e], temp |-> TRUE]}

\* missing_canonical_targets()
Missing(n, e) == {c \in Canonical(e) : <<c, e>> \notin pass[n].health}

\* repair_tasks_for_inventory() of the next plan; only an owner by the pass's map dispatches them
Plan(n) ==
    /\ pass[n].pc = "plan" /\ pass[n].tasks = {}
    /\ IF pass[n].todo = <<>>
       THEN pass' = [pass EXCEPT ![n] = Resting]
       ELSE LET e == Head(pass[n].todo)
            IN pass' = [pass EXCEPT ![n].todo = Tail(@),
                                    ![n].tasks = IF n \in OwnersOf(e, pass[n].epoch)
                                                 THEN UNION {Destination(n, e, c) : c \in Missing(n, e)} ELSE {}]
    /\ UNCHANGED <<namespaceVars, nodeVars, blocks, inventory, cursor, lease, exception, view, sync, work, collect, admin, stored,
                   faults, scenario>>

NextTask(n) == [pass[n] EXCEPT !.pc = "plan", !.tasks = @ \ {pass[n].task}, !.task = NoTask, !.read = None,
                               !.token = None, !.gen = 0]

\* next_repair_fence(): an unexpired lease is left alone
NextFence(l) == IF l.expires > now THEN 0 ELSE l.fence + 1

\* the pass ends with an error
Abort(n) == pass' = [pass EXCEPT ![n] = Resting]

\* acquire_repair_lease(): an owner no more by the current map ends the pass; the committed lease is read ..
AcquireRead(n) ==
    /\ pass[n].pc \in {"plan", "read"} /\ pass[n].tasks # {}
    /\ LET t == CHOOSE x \in pass[n].tasks : TRUE
           new == [owner |-> n, epoch |-> view[n].epoch, fence |-> NextFence(lease[t]), expires |-> now + LeaseTime,
                   gen |-> lease[t].gen + 1]
       IN IF n \notin OwnersOf(t.ev, view[n].epoch) THEN Abort(n)
          ELSE pass' = [pass EXCEPT ![n] = IF NextFence(lease[t]) = 0
                                           THEN [NextTask(n) EXCEPT !.tasks = pass[n].tasks \ {t}]
                                           ELSE [pass[n] EXCEPT !.pc = "write", !.task = t, !.token = new]]
    /\ UNCHANGED <<namespaceVars, nodeVars, blocks, inventory, cursor, lease, exception, view, sync, work, collect, admin, stored,
                   faults, scenario>>

\* .. and replaced if it is still the same; a conflict starts again
LeaseMatches(n) == lease[pass[n].task].gen + 1 = pass[n].token.gen
AcquireWrite(n) ==
    /\ pass[n].pc = "write"
    /\ IF LeaseMatches(n)
       THEN lease' = [lease EXCEPT ![pass[n].task] = pass[n].token] /\ pass' = [pass EXCEPT ![n].pc = "ship"]
       ELSE pass' = [pass EXCEPT ![n].pc = "read", ![n].task = NoTask, ![n].token = None] /\ UNCHANGED lease
    /\ UNCHANGED <<namespaceVars, nodeVars, blocks, inventory, cursor, exception, view, sync, work, collect, admin, stored, faults,
                   scenario>>

\* the lease is read back; ensure_inventory_on_destination(), which checks the sender by its own map, and the request
\* to execute
Ship(n) ==
    /\ pass[n].pc = "ship"
    /\ LET t == pass[n].task
       IN CASE lease[t] # pass[n].token -> pass' = [pass EXCEPT ![n] = NextTask(n)] /\ UNCHANGED <<inventory, work>>
            [] lease[t] = pass[n].token /\ (t.dest = n \/ Accepts(t.dest, n, {t.ev})) ->
                 /\ inventory' = Kept(t.dest, {t.ev})
                 /\ work' = work \cup {[by |-> n, task |-> t, token |-> pass[n].token, step |-> "validate"]}
                 /\ pass' = [pass EXCEPT ![n].pc = "wait"]
            [] OTHER -> Abort(n) /\ UNCHANGED <<inventory, work>>
    /\ UNCHANGED <<namespaceVars, nodeVars, blocks, cursor, lease, exception, view, sync, collect, admin, stored, faults, scenario>>

\* validate_repair_execution(): the committed lease has this owner and fence and has not expired
SameLease(l, token) == l.owner = token.owner /\ l.fence = token.fence /\ l.epoch = token.epoch /\ l.gen >= token.gen
Valid(w) == SameLease(lease[w.task], w.token) /\ lease[w.task].expires > now /\ w.by \in OwnersOf(w.task.ev, w.token.epoch)

\* local_is_repair_destination()
IsDestination(d, t) == \/ d \in Canonical(t.ev)
                       \/ view[d].exceptions[t.ev].node = d /\ Active(view[d].exceptions[t.ev], now)
                       \/ t.temp /\ Replacement[view[d].epoch][t.ev] = d

Moves(w, step) == work' = (work \ {w}) \cup {[w EXCEPT !.step = step]}

\* execute_placement_repair(): validated, unless the copy is there already ..
Validate(w) ==
    /\ w.step = "validate"
    /\ Moves(w, CASE ~Valid(w) -> "fenced" [] Valid(w) /\ ~IsDestination(w.task.dest, w.task) -> "error"
                  [] OTHER -> IF Holds(w.task.dest, w.task.ev) THEN "healthy" ELSE "fetch")
    /\ UNCHANGED <<namespaceVars, nodeVars, blocks, inventory, cursor, lease, exception, view, sync, pass, collect, admin, stored,
                   faults, scenario>>

\* .. fetch_repair_source() from a canonical node or the exception's ..
Fetch(w) ==
    /\ w.step = "fetch"
    /\ LET x == view[w.task.dest].exceptions[w.task.ev]
           sources == Canonical(w.task.ev) \cup (IF Active(x, now) THEN {x.node} ELSE {})
       IN Moves(w, IF \E m \in sources \cap up : Holds(m, w.task.ev) THEN "revalidate" ELSE "error")
    /\ UNCHANGED <<namespaceVars, nodeVars, blocks, inventory, cursor, lease, exception, view, sync, pass, collect, admin, stored,
                   faults, scenario>>

\* .. validated again ..
Revalidate(w) ==
    /\ w.step = "revalidate" /\ Moves(w, IF Valid(w) THEN "put" ELSE "fenced")
    /\ UNCHANGED <<namespaceVars, nodeVars, blocks, inventory, cursor, lease, exception, view, sync, pass, collect, admin, stored,
                   faults, scenario>>

\* .. and stored
PutVerified(w) ==
    /\ w.step = "put" /\ Moves(w, "repaired")
    /\ LET d == w.task.dest
       IN /\ blocks' = [blocks EXCEPT ![d] = @ \cup {BlockOf(w.task.ev)}]
          /\ stored' = stored \cup {<<d, BlockOf(w.task.ev)>>}
          /\ faults' = [faults EXCEPT !.lost = @ \ {<<d, BlockOf(w.task.ev)>>}, !.last = @ \ {BlockOf(w.task.ev)}]
    /\ UNCHANGED <<namespaceVars, nodeVars, inventory, cursor, lease, exception, view, sync, pass, collect, admin, scenario>>

\* dispatch_placement_repair_task() while it waits: renew_repair_lease() reads the lease; if it is lost the task is given
\* up, and with it a local execution ..
RenewRead(n) ==
    /\ pass[n].pc = "reread" \/ (pass[n].pc = "wait" /\ pass[n].token.expires < now + LeaseTime)
    /\ LET t == pass[n].task
       IN IF SameLease(lease[t], pass[n].token) /\ lease[t].expires > now
          THEN /\ pass' = [pass EXCEPT ![n].pc = "renew", ![n].read = [lease[t] EXCEPT !.expires = now + LeaseTime, !.gen = @ + 1]]
               /\ UNCHANGED work
          ELSE /\ pass' = [pass EXCEPT ![n] = NextTask(n)]
               /\ work' = {w \in work : ~(w.by = n /\ w.task = t /\ t.dest = n)}
    /\ UNCHANGED <<namespaceVars, nodeVars, blocks, inventory, cursor, lease, exception, view, sync, collect, admin, stored, faults,
                   scenario>>

\* .. and extends it if it is still the same
RenewWrite(n) ==
    /\ pass[n].pc = "renew"
    /\ LET t == pass[n].task
       IN IF lease[t].gen + 1 = pass[n].read.gen
          THEN /\ lease' = [lease EXCEPT ![t] = pass[n].read]
               /\ pass' = [pass EXCEPT ![n].pc = "wait", ![n].token = pass[n].read, ![n].read = None]
          ELSE pass' = [pass EXCEPT ![n].pc = "reread", ![n].read = None] /\ UNCHANGED lease
    /\ UNCHANGED <<namespaceVars, nodeVars, blocks, inventory, cursor, exception, view, sync, work, collect, admin, stored, faults,
                   scenario>>

\* .. its answer: a lease that was lost is no error; a copy at a replacement needs an exception
Answered(n) ==
    /\ pass[n].pc = "wait"
    /\ \E w \in work :
         /\ w.by = n /\ w.task = pass[n].task /\ w.token.fence = pass[n].token.fence
         /\ w.step \in {"healthy", "repaired", "fenced", "error"}
         /\ work' = work \ {w}
         /\ CASE w.step = "error" -> Abort(n)
              [] w.step = "fenced" -> pass' = [pass EXCEPT ![n] = NextTask(n)]
              [] OTHER -> pass' = [pass EXCEPT ![n] = IF w.task.temp THEN [pass[n] EXCEPT !.pc = "check"] ELSE NextTask(n)]
    /\ UNCHANGED <<namespaceVars, nodeVars, blocks, inventory, cursor, lease, exception, view, sync, collect, admin, stored, faults,
                   scenario>>

\* a request whose destination is away gets no answer
Unanswered(n) ==
    /\ pass[n].pc = "wait" /\ pass[n].task.dest \notin up /\ Abort(n)
    /\ UNCHANGED <<namespaceVars, nodeVars, blocks, inventory, cursor, lease, exception, view, sync, work, collect, admin, stored,
                   faults, scenario>>

----------------------------------------------------------------------------
(* Placement exceptions.                                                   *)

\* without race these two do not overlap
Collecting(e) == \E m \in Nodes : collect[m].ev = e /\ collect[m].pc \in {"probe", "forget"}
Renewing(e) == admin.ev = e \/ \E m \in Nodes : pass[m].pc = "commit" /\ pass[m].task.ev = e

\* commit_preverified_repair_exception(): the target is asked for the copy, the committed exception is read ..
CheckTarget(n) ==
    /\ pass[n].pc = "check" /\ (scenario.race \/ ~Collecting(pass[n].task.ev))
    /\ LET t == pass[n].task
           same == /\ exception[t.ev].node = t.dest /\ exception[t.ev].expires > now + ExceptionTime \div 2
       IN CASE ~(t.dest \in up /\ Holds(t.dest, t.ev)) -> Abort(n)
            [] t.dest \in up /\ Holds(t.dest, t.ev) /\ same -> pass' = [pass EXCEPT ![n] = NextTask(n)]
            [] OTHER -> pass' = [pass EXCEPT ![n].pc = "commit", ![n].gen = exception[t.ev].gen]
    /\ UNCHANGED <<namespaceVars, nodeVars, blocks, inventory, cursor, lease, exception, view, sync, work, collect, admin, stored,
                   faults, scenario>>

\* .. and replaced if it is still the same
CommitException(n) ==
    /\ pass[n].pc = "commit"
    /\ LET t == pass[n].task
           new == [node |-> t.dest, gen |-> pass[n].gen + 1, expires |-> now + ExceptionTime]
       IN IF exception[t.ev].gen = pass[n].gen
          THEN /\ exception' = [exception EXCEPT ![t.ev] = new]
               /\ view' = [view EXCEPT ![n].exceptions[t.ev] = new]
               /\ pass' = [pass EXCEPT ![n] = NextTask(n)]
          ELSE Abort(n) /\ UNCHANGED <<exception, view>>
    /\ UNCHANGED <<namespaceVars, nodeVars, blocks, inventory, cursor, lease, sync, work, collect, admin, stored, faults, scenario>>

\* admin_placement_exception_put(): the block is read (from a node, never a cache) and copied to any node, a canonical
\* one too ..
AdminCopy(e, n) ==
    /\ faults.admins < scenario.admins /\ admin = NoAdmin /\ e \in Committed /\ {Gateway, n} \subseteq up
    /\ LET x == view[Gateway].exceptions[e]
       IN \E m \in (Canonical(e) \cup IF Active(x, now) THEN {x.node} ELSE {}) \cap up : Holds(m, e)
    /\ scenario.race \/ ~Collecting(e)
    /\ admin' = [ev |-> e, node |-> n, gen |-> exception[e].gen + 1, expires |-> now + ExceptionTime]
    /\ blocks' = [blocks EXCEPT ![n] = @ \cup {BlockOf(e)}]
    /\ stored' = stored \cup {<<n, BlockOf(e)>>}
    /\ faults' = [faults EXCEPT !.admins = @ + 1, !.lost = @ \ {<<n, BlockOf(e)>>}]
    /\ UNCHANGED <<namespaceVars, nodeVars, inventory, cursor, lease, exception, view, sync, pass, work, collect, scenario>>

\* .. and the exception committed, if its generation is the next
AdminCommit ==
    /\ admin # NoAdmin /\ admin' = NoAdmin
    /\ LET new == [node |-> admin.node, gen |-> admin.gen, expires |-> admin.expires]
       IN IF exception[admin.ev].gen + 1 = admin.gen
          THEN /\ exception' = [exception EXCEPT ![admin.ev] = new]
               /\ view' = [view EXCEPT ![Gateway].exceptions[admin.ev] = new]
          ELSE UNCHANGED <<exception, view>>
    /\ UNCHANGED <<namespaceVars, nodeVars, blocks, inventory, cursor, lease, sync, pass, work, collect, stored, faults,
                   scenario>>

\* admin_placement_exception_delete(): the copy stays
AdminDelete(e) ==
    /\ faults.admins < scenario.admins /\ exception[e].node # "none" /\ Gateway \in up
    /\ exception' = [exception EXCEPT ![e] = [NoException EXCEPT !.gen = exception[e].gen + 1]]
    /\ view' = [view EXCEPT ![Gateway].exceptions[e] = NoException]
    /\ faults' = [faults EXCEPT !.admins = @ + 1]
    /\ UNCHANGED <<namespaceVars, nodeVars, blocks, inventory, cursor, lease, sync, pass, work, collect, admin, stored, scenario>>

\* refresh_s3_placement_control(): the maps and the exceptions in force; an expired exception is collected
Refresh(n) ==
    /\ n \in up /\ collect[n].pc = "idle"
    /\ LET live == [e \in Ids |-> IF Active(exception[e], now) THEN exception[e] ELSE NoException]
           expired == {e \in Ids : exception[e].node # "none" /\ exception[e].expires <= now}
       IN /\ view' = [view EXCEPT ![n] = [epoch |-> epoch, exceptions |-> live]]
          /\ collect' = IF expired = {} THEN collect
                        ELSE [collect EXCEPT ![n] = LET e == CHOOSE x \in expired : TRUE
                                                    IN [pc |-> "ask", ev |-> e, saw |-> exception[e], probed |-> {}]]
          /\ view' # view \/ expired # {}
    /\ UNCHANGED <<namespaceVars, nodeVars, blocks, inventory, cursor, lease, exception, sync, pass, work, stored, faults,
                   admin, scenario>>

Step(n, to) == collect' = [collect EXCEPT ![n] = to]

\* cleanup_expired_repair_extra() on the exception's node: still the committed one, and not canonical ..
CleanupStart(n) ==
    /\ collect[n].pc = "ask" /\ (scenario.race \/ ~Renewing(collect[n].ev))
    /\ LET c == collect[n]
       IN IF c.saw.node \in up /\ exception[c.ev] = c.saw /\ c.saw.node \notin Canonical(c.ev)
          THEN Step(n, [c EXCEPT !.pc = "probe"]) ELSE Step(n, Quiet)
    /\ UNCHANGED <<namespaceVars, nodeVars, blocks, inventory, cursor, lease, exception, view, sync, pass, work, stored,
                   faults, admin, scenario>>

\* .. every canonical node is asked ..
NothingProbed(n) == TRUE        \* without the probes
AllProbed(n) == collect[n].probed = Canonical(collect[n].ev)
Probe(n) ==
    /\ collect[n].pc = "probe" /\ ~AllProbed(n)
    /\ LET c == collect[n]
           m == CHOOSE x \in Canonical(c.ev) \ c.probed : TRUE
       IN Step(n, IF m \in up /\ Holds(m, c.ev) THEN [c EXCEPT !.probed = @ \cup {m}] ELSE Quiet)
    /\ UNCHANGED <<namespaceVars, nodeVars, blocks, inventory, cursor, lease, exception, view, sync, pass, work, stored,
                   faults, admin, scenario>>

\* .. and the extra copy is deleted
DeleteExtra(n) ==
    /\ collect[n].pc = "probe" /\ AllProbed(n)
    /\ LET c == collect[n] IN
       /\ blocks' = [blocks EXCEPT ![c.saw.node] = @ \ {BlockOf(c.ev)}]
       /\ Step(n, [c EXCEPT !.pc = "forget"])
    /\ UNCHANGED <<namespaceVars, nodeVars, inventory, cursor, lease, exception, view, sync, pass, work, stored, faults,
                   admin, scenario>>

\* the exception is deleted if it is still the same
Forget(n) ==
    /\ collect[n].pc = "forget"
    /\ LET c == collect[n]
       IN exception' = IF exception[c.ev] = c.saw THEN [exception EXCEPT ![c.ev] = [NoException EXCEPT !.gen = c.saw.gen + 1]]
                       ELSE exception
    /\ Step(n, Quiet)
    /\ UNCHANGED <<namespaceVars, nodeVars, blocks, inventory, cursor, lease, view, sync, pass, work, stored, faults,
                   admin, scenario>>

Next ==
    \/ Tick \/ NewEpoch \/ AdminCommit
    \/ \E e \in Ids : BeginWrite(e) \/ CommitWrite(e) \/ AdminDelete(e) \/ \E n \in Nodes : AdminCopy(e, n)
    \/ \E n \in Nodes :
         \/ Outage(n) \/ Return(n) \/ LeaderChange(n) \/ \E b \in Blocks : LoseBlock(n, b)
         \/ SyncStart(n) \/ SyncRoute(n) \/ SyncPush(n) \/ SyncEnd(n)
         \/ PassStart(n) \/ Plan(n) \/ AcquireRead(n) \/ AcquireWrite(n) \/ Ship(n)
         \/ RenewRead(n) \/ RenewWrite(n) \/ Answered(n) \/ Unanswered(n) \/ CheckTarget(n) \/ CommitException(n)
         \/ Refresh(n) \/ CleanupStart(n) \/ Probe(n) \/ DeleteExtra(n) \/ Forget(n)
    \/ \E w \in work : Validate(w) \/ Fetch(w) \/ Revalidate(w) \/ PutVerified(w)

Spec == Init /\ [][Next]_vars

----------------------------------------------------------------------------
(* A canonical node keeps the copy it has stored, unless a fault takes it: *)
(* the collection of temporary copies never removes one, also when an      *)
(* administrator's exception names a canonical node.                       *)
CanonicalCopiesKept ==
    \A e \in Committed, n \in Nodes :
       n \in Canonical(e) /\ <<n, BlockOf(e)>> \in stored \ faults.lost => Holds(n, e)

(* A copy that is read for want of a canonical one exists: the node an     *)
(* unexpired exception names holds the block, unless a fault took it.      *)
ExceptionBacked ==
    \A e \in Ids : Active(exception[e], now) => Holds(exception[e].node, e) \/ <<exception[e].node, BlockOf(e)>> \in faults.lost

(* No event is forgotten: what lies before a cursor that its node would go *)
(* on from is in the inventory of every owner.  A cursor of another epoch  *)
(* than the node's map starts again, so it may be ahead.                   *)
CursorDelivered ==
    \A n \in Nodes, e \in Committed :
       cursor[n].epoch = view[n].epoch /\ key[e] <= cursor[n].key => \A o \in OwnersOf(e, cursor[n].epoch) : e \in inventory[o]

(* A fence belongs to one owner: two executions of a task that carry the   *)
(* same fence were sent by the same node.                                  *)
FenceOwned == \A v, w \in work : v.task = w.task /\ v.token.fence = w.token.fence => v.by = w.by

(* The last copy is never collected: a block that is nowhere lost its last *)
(* copy to a fault.  A fault between the collection's question to a node   *)
(* and the deletion is excepted (raced): there the last copy does go.      *)
CopyRemains == \A e \in Committed : (\E n \in Nodes : Holds(n, e)) \/ BlockOf(e) \in faults.last \cup faults.raced

RepairSound == CanonicalCopiesKept /\ ExceptionBacked /\ CursorDelivered /\ FenceOwned /\ CopyRemains
=============================================================================
