-------------------------- MODULE SmallObjectPacks --------------------------
(***************************************************************************)
(* Packing of small objects (pepper-agent small_object_pack.rs, with the   *)
(* puts and deletes of bucket_api.rs).  A small object's content is a raw  *)
(* replicated block that a pending marker in the bucket's namespace keeps. *)
(* The packer copies pending records into an erasure coded extent and in   *)
(* one transaction replaces their markers by index entries and notes the   *)
(* location at the objects.  Replacing or deleting a packed object marks   *)
(* its extent dirty; the compactor copies the live records of a dirty      *)
(* extent to a new one and retires the old.                                *)
(*                                                                         *)
(* An extent and its index block are content addressed: an extent IS the   *)
(* set of its records, a record a key and a content.  Sizes count records. *)
(* A marker deleted and written again is taken for the same value (its     *)
(* enqueue time has a resolution of a second).                             *)
(***************************************************************************)
EXTENDS Naturals, FiniteSets

CONSTANTS
    Keys, Contents,
    Requests,       \* [op |-> "put" | "delete", key, cid]
    Packers,
    MaxGroup,       \* group_commit_max_requests
    DeadMin,        \* compaction_dead_percent, in records
    MaxCopies,      \* bound on repartitionings
    Scenarios       \* sent: the requests; stale: a put may commit over an object other than the one it has read;
                    \* clears: requests and the clearing of a clean extent may overlap

Ids == DOMAIN Requests
Records == Keys \X Contents
Extents == (SUBSET Records) \ {{}}

VARIABLES
    ns,             \* the namespace: objects, pending and index markers, extent catalog, dirty extents
    raw,            \* the contents stored as blocks
    extents,        \* the extents stored
    req,            \* the requests
    pack,           \* the packers
    copies, scenario

vars == <<ns, raw, extents, req, pack, copies, scenario>>

NoContent == "none"
NoObject == [cid |-> NoContent, gen |-> 0, loc |-> {}, rec |-> <<>>]
Empty == [obj |-> [k \in Keys |-> NoObject], pending |-> {}, index |-> [r \in Records |-> {}], catalog |-> {}, dirty |-> {}]
Idle == [pc |-> "idle", sel |-> {}, base |-> Empty, old |-> {}]
New == [pc |-> "new", base |-> Empty]

TypeOK ==
    /\ ns.pending \subseteq Records /\ ns.catalog \subseteq Extents /\ ns.dirty \subseteq Extents
    /\ ns.index \in [Records -> SUBSET Records]
    /\ \A k \in Keys : ns.obj[k].cid \in Contents \cup {NoContent} /\ ns.obj[k].gen \in Nat
    /\ raw \subseteq Contents /\ extents \subseteq Extents
    /\ \A i \in Ids : req[i].pc \in {"new", "based", "done", "conflict"}
    /\ \A p \in Packers : pack[p].pc \in {"idle", "read", "apply", "scan", "clear", "retire", "compact"}

Init ==
    /\ ns = Empty /\ raw = {} /\ extents = {} /\ req = [i \in Ids |-> New] /\ pack = [p \in Packers |-> Idle]
    /\ copies = 0 /\ scenario \in Scenarios

----------------------------------------------------------------------------
(* Puts and deletes.                                                       *)

Key(i) == Requests[i].key
Cid(i) == Requests[i].cid

\* bucket_put() and bucket_delete() read the head they know; the content is stored before
ReadBase(i) ==
    /\ i \in scenario.sent /\ req[i].pc = "new" /\ (scenario.clears \/ \A p \in Packers : pack[p].pc # "clear")
    /\ Requests[i].op = "delete" => ns.obj[Key(i)].cid # NoContent
    /\ req' = [req EXCEPT ![i] = [pc |-> "based", base |-> ns]]
    /\ raw' = IF Requests[i].op = "put" THEN raw \cup {Cid(i)} ELSE raw
    /\ UNCHANGED <<ns, extents, pack, copies, scenario>>

\* small_object_pending_mutation(): no marker when the base has one
NewPending(i, base) ==
    IF Requests[i].op = "put" /\ base.index[<<Key(i), Cid(i)>>] = {} /\ <<Key(i), Cid(i)>> \notin base.pending
    THEN {<<Key(i), Cid(i)>>} ELSE {}

\* small_object_marker_cleanup_mutations() of the content the base has, unless it is put again
Replaced(i, base) ==
    LET old == base.obj[Key(i)].cid
    IN IF old = NoContent \/ (Requests[i].op = "put" /\ old = Cid(i)) THEN {} ELSE {<<Key(i), old>>}
OldPending(i, base) == Replaced(i, base) \cap base.pending
OldIndexed(i, base) == {r \in Replaced(i, base) : base.index[r] # {}}
NotDirtied(i, base) == {}
Dirtied(i, base) == {base.index[r] : r \in OldIndexed(i, base)} \ base.dirty

\* the preconditions of the transaction: a put takes any object, a delete the one it has read
Holds(i, base) ==
    /\ Requests[i].op = "delete" => ns.obj[Key(i)].gen = base.obj[Key(i)].gen
    /\ NewPending(i, base) \cap ns.pending = {} /\ OldPending(i, base) \subseteq ns.pending
    /\ \A r \in OldIndexed(i, base) : ns.index[r] = base.index[r]
    /\ Dirtied(i, base) \cap ns.dirty = {}

\* the namespace with the transaction applied
Applied(i, base) ==
    LET cid == IF Requests[i].op = "put" THEN Cid(i) ELSE NoContent
    IN [obj |-> [ns.obj EXCEPT ![Key(i)] = [NoObject EXCEPT !.cid = cid, !.gen = ns.obj[Key(i)].gen + 1]],
        pending |-> (ns.pending \cup NewPending(i, base)) \ OldPending(i, base),
        index |-> [r \in Records |-> IF r \in OldIndexed(i, base) THEN {} ELSE ns.index[r]],
        catalog |-> ns.catalog,
        dirty |-> ns.dirty \cup Dirtied(i, base)]
SameContent(i, base) == ns.obj[Key(i)].cid = base.obj[Key(i)].cid

Commit(i) ==
    /\ req[i].pc = "based"
    /\ LET base == req[i].base
       IN /\ Holds(i, base) => scenario.stale \/ SameContent(i, base)
          /\ ns' = IF Holds(i, base) THEN Applied(i, base) ELSE ns
          /\ req' = [req EXCEPT ![i] = [New EXCEPT !.pc = IF Holds(i, base) THEN "done" ELSE "conflict"]]
    /\ UNCHANGED <<raw, extents, pack, copies, scenario>>

----------------------------------------------------------------------------
(* The packer.                                                             *)

Set(p, to) == pack' = [pack EXCEPT ![p] = to]

\* pack_small_objects_in_namespace(): scan_pending(), select_pending(), fetch_pending(), and the extent is stored
PackScan(p) ==
    /\ pack[p].pc = "idle"
    /\ \E sel \in SUBSET ns.pending :
         /\ sel # {} /\ Cardinality(sel) <= MaxGroup /\ \A r \in sel : r[2] \in raw
         /\ extents' = extents \cup {sel}
         /\ Set(p, [Idle EXCEPT !.pc = "read", !.sel = sel])
    /\ UNCHANGED <<ns, raw, req, copies, scenario>>

\* transition_extent(): the records still pending at the base ..
StillPending(sel, base) == {r \in sel : r \in base.pending /\ base.index[r] = {}}
TransitionRead(p) ==
    /\ pack[p].pc = "read"
    /\ Set(p, IF StillPending(pack[p].sel, ns) = {} THEN [Idle EXCEPT !.pc = "scan"]
              ELSE [pack[p] EXCEPT !.pc = "apply", !.base = ns])
    /\ UNCHANGED <<ns, raw, extents, req, copies, scenario>>

\* the objects as they would be with these records in extent x
Located(obj, recs, x) ==
    [k \in Keys |-> IF \E r \in recs : r[1] = k
                    THEN [obj[k] EXCEPT !.gen = @ + 1, !.loc = x, !.rec = CHOOSE r \in recs : r[1] = k] ELSE obj[k]]
SameObjects(recs, base) == \A r \in recs : ns.obj[r[1]].gen = base.obj[r[1]].gen

\* .. get index entries; a conflict starts again; two records of one object are refused
TransitionApply(p) ==
    /\ pack[p].pc = "apply"
    /\ LET x == pack[p].sel
           base == pack[p].base
           recs == StillPending(x, base)
           holds == /\ recs \subseteq ns.pending /\ \A r \in recs : ns.index[r] = {}
                    /\ SameObjects(recs, base) /\ x \notin ns.catalog
           twice == \E r, s \in recs : r # s /\ r[1] = s[1]
       IN /\ ns' = IF holds /\ ~twice
                   THEN [ns EXCEPT !.obj = Located(@, recs, x), !.pending = @ \ recs,
                                   !.index = [r \in Records |-> IF r \in recs THEN x ELSE @[r]],
                                   !.catalog = @ \cup {x}]
                   ELSE ns
          /\ Set(p, IF twice THEN Idle ELSE IF holds THEN [Idle EXCEPT !.pc = "scan"]
                    ELSE [pack[p] EXCEPT !.pc = "read", !.base = Empty])
    /\ UNCHANGED <<raw, extents, req, copies, scenario>>

----------------------------------------------------------------------------
(* The compactor, after the packer in the same pass.                       *)

Live(x, n) == {r \in x : n.index[r] = x}
Dead(x, n) == Cardinality(x) - Cardinality(Live(x, n))

\* select_extent_for_compaction(): the one with the most dead bytes
Eligible(n) == {x \in n.dirty : Dead(x, n) > 0 /\ Dead(x, n) >= DeadMin}
Selected(n) == {x \in Eligible(n) : \A y \in Eligible(n) : Dead(y, n) <= Dead(x, n)}

\* compact_small_object_extent(): scan_dirty_extent_candidates(); a clean one first; one without live records is
\* retired; else its live records are read and stored in a new extent
ScanDirty(p) ==
    /\ pack[p].pc \in {"idle", "scan"}
    /\ LET clean == {x \in ns.dirty : Live(x, ns) = x}
       IN IF clean # {}
          THEN /\ scenario.clears \/ \A i \in Ids : req[i].pc # "based"
               /\ \E x \in clean : Set(p, [Idle EXCEPT !.pc = "clear", !.old = x])
               /\ UNCHANGED extents
          ELSE IF Selected(ns) = {} THEN pack[p].pc = "scan" /\ Set(p, Idle) /\ UNCHANGED extents
          ELSE \E x \in Selected(ns) :
                 IF Live(x, ns) = {} THEN Set(p, [Idle EXCEPT !.pc = "retire", !.old = x]) /\ UNCHANGED extents
                 ELSE /\ x \in extents
                      /\ Set(p, [Idle EXCEPT !.pc = "compact", !.old = x, !.sel = Live(x, ns)])
                      /\ extents' = extents \cup {Live(x, ns)}
    /\ UNCHANGED <<ns, raw, req, copies, scenario>>

\* clear_clean_dirty_extent() looks at the dirty marker only
ClearClean(p) ==
    /\ pack[p].pc = "clear"
    /\ ns' = [ns EXCEPT !.dirty = @ \ {pack[p].old}]
    /\ Set(p, IF pack[p].old \in ns.dirty THEN [Idle EXCEPT !.pc = "scan"] ELSE Idle)
    /\ UNCHANGED <<raw, extents, req, copies, scenario>>

\* retire_empty_extent()
RetireEmpty(p) ==
    /\ pack[p].pc = "retire"
    /\ ns' = IF pack[p].old \in ns.dirty \cap ns.catalog
             THEN [ns EXCEPT !.dirty = @ \ {pack[p].old}, !.catalog = @ \ {pack[p].old}] ELSE ns
    /\ Set(p, Idle)
    /\ UNCHANGED <<raw, extents, req, copies, scenario>>

\* transition_compacted_extent(): its preconditions repeat what it has read, so that reading and applying are one step;
\* it gives up unless every record is still live and its object has the old location
StillLive(recs, old) == \A r \in recs : ns.index[r] = old
CompactApply(p) ==
    /\ pack[p].pc = "compact"
    /\ LET old == pack[p].old
           new == pack[p].sel
           holds == /\ old \in ns.dirty \cap ns.catalog /\ StillLive(new, old)
                    /\ \A r \in new : ns.obj[r[1]].loc = old
                    /\ new \notin ns.catalog
                    /\ \A r, s \in new : r[1] = s[1] => r = s
       IN ns' = IF holds
                THEN [ns EXCEPT !.obj = Located(@, new, new), !.dirty = @ \ {old}, !.catalog = (@ \ {old}) \cup {new},
                                !.index = [r \in Records |-> IF r \in new THEN new ELSE @[r]]]
                ELSE ns
    /\ Set(p, Idle)
    /\ UNCHANGED <<raw, extents, req, copies, scenario>>

----------------------------------------------------------------------------
(* The environment of a bucket's namespace.                                *)

\* copy_partition_snapshot(): the entries of some keys come to a new namespace, their extents with a catalog entry and
\* marked dirty; requests to the old one fail at its fence, packers of the old one no longer matter
Copy(ks) ==
    /\ copies < MaxCopies /\ copies' = copies + 1
    /\ LET index == [r \in Records |-> IF r[1] \in ks THEN ns.index[r] ELSE {}]
           used == {index[r] : r \in Records} \ {{}}
       IN ns' = [obj |-> [k \in Keys |-> IF k \in ks THEN ns.obj[k] ELSE NoObject],
                 pending |-> {r \in ns.pending : r[1] \in ks}, index |-> index, catalog |-> used, dirty |-> used]
    /\ req' = [i \in Ids |-> IF req[i].pc = "based" THEN [New EXCEPT !.pc = "conflict"] ELSE req[i]]
    /\ pack' = [p \in Packers |-> Idle]
    /\ UNCHANGED <<raw, extents, scenario>>

\* a collection: what the namespace does not root, and no operation under way needs, goes
Collect ==
    /\ raw' = raw \cap ({r[2] : r \in ns.pending} \cup {Cid(i) : i \in {j \in Ids : req[j].pc = "based"}}
                          \cup UNION {{r[2] : r \in pack[p].sel} : p \in Packers})
    /\ extents' = extents \cap ({ns.index[r] : r \in Records} \cup ns.catalog \cup {pack[p].sel : p \in Packers}
                                  \cup {pack[p].old : p \in Packers})
    /\ <<raw, extents>>' # <<raw, extents>>
    /\ UNCHANGED <<ns, req, pack, copies, scenario>>

Next ==
    \/ \E i \in Ids : ReadBase(i) \/ Commit(i)
    \/ \E p \in Packers : PackScan(p) \/ TransitionRead(p) \/ TransitionApply(p) \/ ScanDirty(p) \/ ClearClean(p)
                            \/ RetireEmpty(p) \/ CompactApply(p)
    \/ \E ks \in (SUBSET Keys) \ {{}} : Copy(ks)
    \/ Collect

Spec == Init /\ [][Next]_vars

----------------------------------------------------------------------------
(* "Direct small records are rooted by an atomic pending marker ... The    *)
(* pack transition replaces that marker with an EC-extent index entry"     *)
(* (pepper-bucket): every object has one or the other.                     *)
RecordsRooted ==
    \A k \in Keys : LET c == ns.obj[k].cid IN c # NoContent => <<k, c>> \in ns.pending \/ ns.index[<<k, c>>] # {}

(* A GET of an object finds its content: in the extent its location names, *)
(* else in the extent its index entry names, else in its raw block.        *)
ObjectsReadable ==
    \A k \in Keys :
       LET o == ns.obj[k]
           x == IF o.loc # {} THEN o.loc ELSE IF o.cid # NoContent THEN ns.index[<<k, o.cid>>] ELSE {}
       IN o.cid # NoContent => IF x # {} THEN x \in extents /\ (o.loc # {} => o.rec = <<k, o.cid>>) ELSE o.cid \in raw

(* What is reclaimed is dead: every index entry's extent holds the record  *)
(* and is in the catalog, and what is dirty is too.                        *)
IndexBacked ==
    /\ \A r \in Records : ns.index[r] # {} => r \in ns.index[r] /\ ns.index[r] \in ns.catalog \cap extents
    /\ ns.dirty \subseteq ns.catalog

(* Dead space is found again: an extent none of whose records lives is     *)
(* marked dirty.                                                           *)
EmptyExtentsDirty == \A x \in ns.catalog : Live(x, ns) = {} => x \in ns.dirty

PacksSound == RecordsRooted /\ ObjectsReadable /\ IndexBacked /\ EmptyExtentsDirty
=============================================================================
