------------------------- MODULE NamespaceProtection -------------------------
(***************************************************************************)
(* How one replica of a namespace keeps the blocks the namespace needs     *)
(* safe from garbage collection.                                           *)
(*                                                                         *)
(* A publication stages its value under a lease, appends a command to the  *)
(* Raft log, and releases the lease once the committed state is protected  *)
(* by pins.  The state machine answers each command with pin intents (the  *)
(* difference between the roots protected before and after); the replica   *)
(* stores them with the applied batch, and a reconciler turns them into    *)
(* pins.  Checkpoints carry protection of their own.  The full state is    *)
(* written only every few entries, so a restarted replica replays.         *)
(*                                                                         *)
(* Data abstraction: a put names one content; Tree(r) is the tree root it  *)
(* leads to, Value(r) the value it stores (a transaction that deletes the  *)
(* key in use and puts the key of r, so contents recur).  Commit blocks    *)
(* follow their roots and are left out.  The one-hour barrier kept for     *)
(* applied intents is taken as over, and retention by age as unset.        *)
(***************************************************************************)
EXTENDS Naturals, FiniteSets, FiniteSetsExt

CONSTANTS Roots,        \* contents a put may publish
          Empty,        \* the content of a new namespace
          Names,        \* snapshot names, ordered as the map of names is
          Scenarios,    \* [keep, cadence, client, faults]: keep_last, the entries between two
                        \* writes of the state, what clients do, disturbances to come
          SegmentAfter, \* revisions beyond which a checkpoint is segmented
          ReuseNames,   \* may a deleted snapshot's name be used again?
          EmptyElsewhere, \* does some peer still hold the empty tree?
          MaxIndex      \* bound: log indexes

\* what the constants must be
ConstantsOK ==
    /\ Empty \notin Roots /\ Names \subseteq Nat \ {0}
    /\ Scenarios \subseteq [keep : Nat \ {0}, cadence : Nat \ {0}, faults : Nat,
                            client : {"puts", "snapshots", "retries"}]
    /\ SegmentAfter \in Nat /\ {ReuseNames, EmptyElsewhere} \subseteq BOOLEAN
    /\ MaxIndex \in Nat

VARIABLES
    keep,       \* the namespace's retention.keep_last
    cadence,    \* entries between two writes of the full state
    client,     \* do clients make snapshots, repeat requests that others followed?
    log,        \* local Raft log: index -> command
    committed,  \* highest index known committed
    truth,      \* what the group's state is at that index
    applied,    \* index the replica's memory has applied
    ns,         \* the namespace state in memory
    disk,       \* the state record last written: [ns, index]
    ckpt,       \* current checkpoint: its CID and its index
    live,       \* publication intents not yet retired
    batch,      \* intents the reconciler has pinned and not yet retired
    pins,       \* active permanent pins: <<cid, reason>>
    dead,       \* pins released once: their records stay, deleted
    leases,     \* staging leases
    pub,        \* the publication in progress on this node
    blocks,     \* trees and values in this node's block store
    faults      \* disturbances to come: crashes, truncations, retries and the like

policy == <<keep, cadence, client>>
raft == <<log, committed, truth>>
machine == <<applied, ns, disk, ckpt>>
ledger == <<live, batch, pins, dead>>
staging == <<leases, pub>>
vars == <<policy, raft, machine, ledger, staging, blocks, faults>>

Tree(r) == <<"tree", r, {}>>
Value(r) == <<"value", r, {}>>
Checkpoint(i, links) == <<"ckpt", i, links>>
NoCheckpoint == [cid |-> Checkpoint(0, {}), index |-> 0]
Idle == [phase |-> "idle", req |-> 0, root |-> Empty, index |-> 0]

Command == [op : {"put", "snap", "unsnap"}, root : Roots \cup {Empty},
            name : Names \cup {0}, rev : Nat, req : Nat]
Cmd(op, r, s, n, q) == [op |-> op, root |-> r, name |-> s, rev |-> n, req |-> q]
Put(r, q) == Cmd("put", r, 0, 0, q)
Snap(s, n, q) == Cmd("snap", Empty, s, n, q)
Unsnap(s, q) == Cmd("unsnap", Empty, s, 0, q)

(***************************************************************************)
(* The namespace state machine.                                            *)
(***************************************************************************)

Created == [rev |-> 0, hist |-> [n \in {0} |-> Empty],
            snaps |-> [s \in {} |-> 0], done |-> [q \in {} |-> {}]]
Head(st) == st.hist[st.rev]
Retained(st) == {n \in 0..st.rev : n + keep >= st.rev + 1}

\* Protected roots, each with the one reason that survives in the map:
\* snapshots overwrite revisions, later keys overwrite earlier ones.
Snapshots(st, r) == {s \in DOMAIN st.snaps : st.hist[st.snaps[s]] = r}
Revisions(st, r) == {n \in Retained(st) : st.hist[n] = r}
ProtectedRoots(st) ==
    {st.hist[n] : n \in Retained(st)}
        \cup {st.hist[st.snaps[s]] : s \in DOMAIN st.snaps}
Reason(st, r) == IF Snapshots(st, r) # {}
                 THEN <<"named_snapshot", Max(Snapshots(st, r))>>
                 ELSE <<"retained_revision", Max(Revisions(st, r))>>

PinIntent(act, cid, reason) == [act |-> act, cid |-> cid, reason |-> reason]
DiffPinIntents(before, after) ==
    {PinIntent("protect", Tree(r), Reason(after, r)) :
        r \in ProtectedRoots(after) \ ProtectedRoots(before)}
    \cup {PinIntent("release", Tree(r), Reason(before, r)) :
        r \in ProtectedRoots(before) \ ProtectedRoots(after)}

\* A put reads the current tree; a content already current conflicts.
Accepts(st, c, readable) ==
    \/ c.op = "put" /\ readable /\ Head(st) # c.root
    \/ c.op = "snap" /\ c.name \notin DOMAIN st.snaps /\ c.rev <= st.rev
    \/ c.op = "unsnap" /\ c.name \in DOMAIN st.snaps

Mutated(st, c) ==
    CASE c.op = "put" ->
           [st EXCEPT !.rev = @ + 1,
                      !.hist = [n \in 0..(st.rev + 1) |->
                                  IF n <= st.rev THEN @[n] ELSE c.root]]
      [] c.op = "snap" ->
           [st EXCEPT !.snaps = [s \in DOMAIN @ \cup {c.name} |->
                                   IF s = c.name THEN c.rev ELSE @[s]]]
      [] c.op = "unsnap" ->
           [st EXCEPT !.snaps = [s \in DOMAIN @ \ {c.name} |-> @[s]]]

\* apply: a known request answers with its recorded intents, an invalid one
\* leaves the state alone, any other records its intents and answers them.
Exec(st, c, readable) ==
    IF c.req \in DOMAIN st.done THEN [st |-> st, out |-> st.done[c.req]]
    ELSE IF ~Accepts(st, c, readable) THEN [st |-> st, out |-> {}]
    ELSE LET next == Mutated(st, c)
             out == DiffPinIntents(st, next)
         IN [st |-> [next EXCEPT !.done =
                       [q \in DOMAIN @ \cup {c.req} |->
                          IF q = c.req THEN out ELSE @[q]]],
             out |-> out]

(***************************************************************************)
(* What garbage collection spares.                                         *)
(***************************************************************************)

\* What a traversal reaches: a tree its value, a checkpoint its links.
Reach(cid) ==
    CASE cid[1] = "value" -> {cid}
      [] cid[1] = "tree" -> {cid, Value(cid[2])}
      [] cid[1] = "ckpt" -> UNION {{cid, Tree(r), Value(r)} : r \in cid[3]}
                                \cup {cid}

CaughtUp == applied = committed

GcRoots == {p[1] : p \in pins}
              \cup {i.cid : i \in {j \in live : j.act = "protect"}}
              \cup {Value(l.root) : l \in {m \in leases : m.active}}
Spared == UNION {Reach(c) : c \in GcRoots}

(***************************************************************************)
(* Log, application and persistence.                                       *)
(***************************************************************************)

LastIndex == Max(DOMAIN log \cup {committed})
NextRequest == Max({c.req : c \in {log[n] : n \in DOMAIN log}}
                     \cup DOMAIN truth.done \cup {l.req : l \in leases}
                     \cup {pub.req, 0}) + 1

Intent(n, kind, q, p) == [index |-> n, kind |-> kind, req |-> q,
                          act |-> p.act, cid |-> p.cid, reason |-> p.reason]

\* The log write and the protection of the values the entry names are one
\* transaction.
ProposalIntents(n, c) ==
    IF c.op # "put" THEN {}
    ELSE {Intent(n, "proposal", c.req,
                 PinIntent("protect", Value(c.root), <<"proposal_input", 0>>))}

Append(c) ==
    /\ LastIndex < MaxIndex
    /\ log' = [n \in DOMAIN log \cup {LastIndex + 1} |->
                 IF n = LastIndex + 1 THEN c ELSE log[n]]
    /\ live' = live \cup ProposalIntents(LastIndex + 1, c)

\* persist_intents_sync: settle the entry's proposal intents, add its own.
StoredIntents(n, c, out) ==
    {i \in live : ~(i.kind = "proposal" /\ i.index = n)}
        \cup {Intent(n, "committed", c.req, p) : p \in out}

\* The blocks applying c leaves behind: a tree fetched to be read, and the
\* new tree.
BlocksAfter(c, next) ==
    blocks \cup (IF next.rev = ns.rev THEN {} ELSE {Tree(c.root), Tree(Head(ns))})

Commits(n) ==
    IF n <= committed THEN UNCHANGED <<committed, truth>>
    ELSE /\ committed' = n
         /\ truth' = Exec(truth, log[n], TRUE).st

Readable(peer) == \/ peer
                  \/ Tree(Head(ns)) \in blocks
                  \/ Head(ns) = Empty /\ EmptyElsewhere

\* One applied entry.  Reading the current tree may need a peer; when none
\* has it the command fails as an application error.
ApplyEntry(peer) ==
    LET n == applied + 1
        next == Exec(ns, log[n], Readable(peer))
        due == n >= disk.index + cadence
    IN /\ n \in DOMAIN log
       /\ Commits(n)
       /\ live' = StoredIntents(n, log[n], next.out)
       /\ blocks' = BlocksAfter(log[n], next.st)
       /\ ns' = next.st
       /\ applied' = n
       /\ disk' = IF due THEN [ns |-> next.st, index |-> n] ELSE disk
       /\ UNCHANGED <<policy, log, ckpt, batch, pins, dead, staging, faults>>

Disturbed == faults > 0 /\ faults' = faults - 1

Restarted == /\ applied' = disk.index /\ ns' = disk.ns
             /\ batch' = {} /\ pub' = Idle

Crash ==
    /\ Disturbed /\ Restarted
    /\ UNCHANGED <<policy, raft, disk, ckpt, live, pins, dead, leases, blocks>>

\* The intents are one transaction, the state another: a crash between them.
CrashInApply ==
    LET n == applied + 1
        next == Exec(ns, log[n], Readable(FALSE))
    IN /\ n \in DOMAIN log
       /\ Disturbed /\ Restarted
       /\ Commits(n)
       /\ live' = StoredIntents(n, log[n], next.out)
       /\ blocks' = BlocksAfter(log[n], next.st)
       /\ UNCHANGED <<policy, log, disk, ckpt, pins, dead, leases>>

\* A new leader drops an entry this replica appended.
Truncate ==
    /\ LastIndex > committed
    /\ Disturbed
    /\ log' = [n \in DOMAIN log \ {LastIndex} |-> log[n]]
    /\ UNCHANGED <<policy, committed, truth, machine, ledger, staging, blocks>>

(***************************************************************************)
(* Checkpoints.                                                            *)
(***************************************************************************)

\* Fault: a checkpoint links to its head only.
CheckpointOfHead(st, n) == Checkpoint(n, {Head(st)})

\* A checkpoint links to the roots its state protects, unless it had to be
\* cut into segments, which link to nothing.
CheckpointOf(st, n) ==
    Checkpoint(n, IF st.rev > SegmentAfter THEN {} ELSE ProtectedRoots(st))

CheckpointIntents(cid, n) ==
    LET why == <<"namespace_checkpoint", 0>>
    IN {Intent(n, "checkpoint", 0, PinIntent("protect", cid, why))}
         \cup (IF ckpt.index = 0 \/ ckpt.cid = cid THEN {}
               ELSE {Intent(n, "checkpoint", 0, PinIntent("release", ckpt.cid, why))})

\* Fault: the state is not written with the snapshot.
BuildSnapshotAlone ==
    LET cid == CheckpointOf(ns, applied)
    IN /\ applied > ckpt.index
       /\ ckpt' = [cid |-> cid, index |-> applied]
       /\ live' = live \cup CheckpointIntents(cid, applied)
       /\ blocks' = blocks \cup {Tree(Head(ns))}
       /\ UNCHANGED <<policy, raft, applied, ns, disk, batch, pins, dead, staging, faults>>

BuildSnapshot ==
    LET cid == CheckpointOf(ns, applied)
    IN /\ applied > ckpt.index
       /\ disk' = [ns |-> ns, index |-> applied]
       /\ ckpt' = [cid |-> cid, index |-> applied]
       /\ live' = live \cup CheckpointIntents(cid, applied)
       /\ blocks' = blocks \cup {Tree(Head(ns))}
       /\ UNCHANGED <<policy, raft, applied, ns, batch, pins, dead, staging, faults>>

\* The leader sends a lagging replica a state that already holds a put this
\* replica never saw.
InstallSnapshot(r) ==
    LET n == LastIndex + 1
        st == Exec(truth, Put(r, NextRequest), TRUE).st
        cid == CheckpointOf(st, n)
    IN /\ n <= MaxIndex /\ r # Head(truth)
       /\ Disturbed
       /\ committed' = n /\ applied' = n /\ truth' = st /\ ns' = st
       /\ disk' = [ns |-> st, index |-> n]
       /\ ckpt' = [cid |-> cid, index |-> n]
       /\ log' = [i \in {} |-> 0]
       /\ live' = live \cup CheckpointIntents(cid, n)
       /\ blocks' = blocks \cup {Tree(r)}
       /\ UNCHANGED <<policy, batch, pins, dead, staging>>

(***************************************************************************)
(* Publication.                                                            *)
(***************************************************************************)

\* The value is uploaded, and lease and staging pins become durable at once.
Stage(r) ==
    /\ pub = Idle
    /\ r # Head(ns)
    /\ LastIndex < MaxIndex
    /\ blocks' = blocks \cup {Value(r)}
    /\ leases' = leases \cup {[req |-> NextRequest, root |-> r, active |-> TRUE]}
    /\ pub' = [phase |-> "staged", req |-> NextRequest, root |-> r, index |-> 0]
    /\ UNCHANGED <<policy, raft, machine, ledger, faults>>

Propose ==
    /\ pub.phase = "staged"
    /\ Append(Put(pub.root, pub.req))
    /\ pub' = [pub EXCEPT !.phase = "proposed", !.index = LastIndex + 1]
    /\ UNCHANGED <<policy, committed, truth, machine, batch, pins, dead, leases, blocks, faults>>

ReleaseStaging ==
    /\ leases' = {l \in leases : l.req # pub.req}
    /\ pub' = Idle

\* Durability not met, a rejected command, or an ambiguous proposal whose
\* lookup finds nothing: finalize without a commit.
Rejected ==
    /\ \/ pub.phase = "staged"
       \/ /\ pub.phase = "proposed" /\ applied = committed
          /\ pub.req \notin DOMAIN ns.done
    /\ ReleaseStaging
    /\ UNCHANGED <<policy, raft, machine, ledger, blocks, faults>>

\* The answer has arrived (or the lookup after an ambiguous one found the
\* request), and a reconciliation has taken in the intents of the entry.
Finalize ==
    /\ pub.phase = "proposed"
    /\ pub.req \in DOMAIN ns.done
    /\ \A i \in live : i.index > pub.index
    /\ ReleaseStaging
    /\ UNCHANGED <<policy, raft, machine, ledger, blocks, faults>>

\* Snapshot commands, and a client's retry of a command already in the log.
SnapshotCommand ==
    client = "snapshots" /\ \E s \in Names :
        \/ /\ ReuseNames \/ \A n \in DOMAIN log : log[n].name # s
           /\ \E n \in 1..ns.rev : Append(Snap(s, n, NextRequest))
        \/ s \in DOMAIN ns.snaps /\ Append(Unsnap(s, NextRequest))
Retry == \E n \in DOMAIN log :
             n <= applied /\ (client = "retries" \/ n = LastIndex) /\ Append(log[n])

Client ==
    /\ \/ SnapshotCommand /\ UNCHANGED faults
       \/ Retry /\ Disturbed
    /\ UNCHANGED <<policy, committed, truth, machine, batch, pins, dead, staging, blocks>>

\* A lease outlives the staging of its publication, not always the rest.
LeaseRunsOut(l) ==
    /\ l \in leases /\ l.active
    /\ ~(pub.req = l.req /\ pub.phase = "staged")
    /\ Disturbed
    /\ leases' = (leases \ {l}) \cup {[l EXCEPT !.active = FALSE]}
    /\ UNCHANGED <<policy, raft, machine, ledger, pub, blocks>>

\* The pending proposal intents of a lease's request.
ProposalsOf(l) == {i \in live : i.kind = "proposal" /\ i.req = l.req}

ExpireLease(l) ==
    /\ l \in leases /\ ~l.active
    /\ \A i \in ProposalsOf(l) : i.index \notin DOMAIN log
    /\ live' = live \ ProposalsOf(l)
    /\ leases' = leases \ {l}
    /\ UNCHANGED <<policy, raft, machine, batch, pins, dead, pub, blocks, faults>>

(***************************************************************************)
(* Reconciliation and collection.                                          *)
(***************************************************************************)

\* Every pin decision of a batch is taken on the pins stored before it: a
\* protect of a pin already active and a release of one not active do
\* nothing, whatever else the batch holds.
Pin(i) == <<i.cid, i.reason>>
PinsAfter(intents) ==
    (pins \ {Pin(i) : i \in {j \in intents : j.act = "release"}})
      \cup ({Pin(i) : i \in {j \in intents : j.act = "protect"}} \ pins)

\* validate_pin_update: the record of a released pin cannot be made active
\* again, and one such write fails the transaction of the whole batch.
Stuck(intents) ==
    \E i \in intents : i.act = "protect" /\ Pin(i) \in dead \ pins

ReconcileApply ==
    /\ batch = {} /\ live # {} /\ ~Stuck(live)
    /\ pins' = PinsAfter(live)
    /\ dead' = dead \cup (pins \ pins')
    /\ batch' = live
    /\ UNCHANGED <<policy, raft, machine, live, staging, blocks, faults>>

ReconcileRetire ==
    /\ batch # {}
    /\ live' = live \ batch
    /\ batch' = {}
    /\ UNCHANGED <<policy, raft, machine, pins, dead, staging, blocks, faults>>

\* A replay is much shorter than the barrier hour, within which the intents
\* it emits again are spared: collections fall outside of it.
CollectGarbage ==
    /\ CaughtUp
    /\ blocks' = blocks \cap Spared
    /\ UNCHANGED <<policy, raft, machine, ledger, staging, faults>>

Init ==
    /\ \E s \in Scenarios : /\ keep = s.keep /\ cadence = s.cadence
                           /\ client = s.client /\ faults = s.faults
    /\ log = [n \in {} |-> 0] /\ committed = 0 /\ applied = 0
    /\ truth = Created /\ ns = Created /\ disk = [ns |-> Created, index |-> 0]
    /\ ckpt = NoCheckpoint
    /\ live = {} /\ batch = {} /\ pins = {} /\ dead = {} /\ leases = {} /\ pub = Idle
    /\ blocks = {Tree(Empty)}

Next ==
    \/ \E r \in Roots : Stage(r)
    \/ Propose
    \/ Rejected
    \/ Finalize
    \/ Client
    \/ \E peer \in BOOLEAN : ApplyEntry(peer)
    \/ BuildSnapshot
    \/ \E r \in Roots : InstallSnapshot(r)
    \/ Crash
    \/ CrashInApply
    \/ Truncate
    \/ \E l \in leases : LeaseRunsOut(l)
    \/ \E l \in leases : ExpireLease(l)
    \/ ReconcileApply
    \/ ReconcileRetire
    \/ CollectGarbage

Spec == Init /\ [][Next]_vars

(***************************************************************************)
(* Properties.                                                             *)
(***************************************************************************)

\* Types, and the order of the indexes: the durable state never leads memory,
\* memory never leads the commit index, and the checkpoint is never ahead of
\* the state written with it.
TypeOK ==
    /\ \E s \in Scenarios : policy = <<s.keep, s.cadence, s.client>> /\ faults \in 0..s.faults
    /\ \A n \in DOMAIN log : log[n] \in Command
    /\ disk.index <= applied /\ applied <= committed
    /\ ckpt.index <= disk.index
    /\ batch = {} \/ pins # {} \/ \A i \in batch : i.act = "release"
    /\ \A l \in leases : l.root \in Roots /\ l.active \in BOOLEAN

\* "reconciled independently on every replica": whatever the applied state
\* protects is out of reach of a collection, by a pin of its own, a pending
\* intent or the checkpoint that carried it here.
ProtectedRootsCovered ==
    CaughtUp /\ ns = truth =>
        \A r \in ProtectedRoots(ns) \ {Empty} : Tree(r) \in Spared

\* A value is in the store from its staging, for as long as the log may
\* still commit it, and while the tree it led to is the head: the lease hands
\* over to the proposal intent, and that to the committed root.
PublishedValueKept ==
    /\ pub.phase = "staged" => Value(pub.root) \in blocks
    /\ \A n \in DOMAIN log :
          /\ log[n].op = "put"
          /\ log[n].req \notin DOMAIN truth.done \/ log[n].root = Head(ns)
          /\ n > committed \/ (CaughtUp /\ ns = truth /\ log[n].root = Head(ns))
          => Value(log[n].root) \in blocks

\* A restarted replica that has replayed its log is back in the group's
\* state: the trees the replay reads are still there, provided retention
\* reaches as far back as the state record may lag.
ReplayWithinRetention == keep >= cadence /\ CaughtUp => ns = truth

\* No pending intent asks for a pin that was released before: the reconciler
\* fails on such an intent every time, with every intent beside it, while
\* publications wait for it.  ("reconciliation re-applies it once" holds with
\* one disturbance; a replay longer than the retention, or the repetition of
\* an old request, does ask for one.)
ReconcilerFree ==
    keep >= cadence /\ client = "puts" /\ batch = {} => ~Stuck(live)

\* The same with no proviso, as the comment on the cadence has it: "recovery
\* replays the raft log from the last persisted applied index".
ReplayReproducesState == CaughtUp => ns = truth

=============================================================================
