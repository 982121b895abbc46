-------------------------- MODULE NamespaceRouting --------------------------
(***************************************************************************)
(* How an operation finds the leader of a namespace's group                *)
(* (NamespaceGroupManager of pepper-consensus): reads by lease, by quorum  *)
(* proof, from a follower that catches up with its leader, or from the     *)
(* leader that a discovery record names; writes to the local leader or     *)
(* forwarded; discovery among the peers; election nudges.                  *)
(*                                                                         *)
(* The Raft library is external: a log of committed entries, how far each  *)
(* voter has it and has applied it, and who leads in which term.  What the *)
(* manager sees of it are metrics, published from time to time.  Ages are  *)
(* in ticks and stop at the first that no condition tells from later ones. *)
(* An entry is the operation it carries, or 0: a membership change, and the *)
(* next epoch where it is applied.  Peers reach each other.                *)
(***************************************************************************)
EXTENDS Naturals, Sequences, FiniteSets, SequencesExt

CONSTANTS
    Nodes, Voters,
    Rank,           \* the order of announcers
    Heartbeat,      \* heartbeat_interval_ms
    Election,       \* election_timeout_min_ms
    RecordTTL,      \* of a discovery record
    RateLimit,      \* max_namespace_write_rate
    Rounds,         \* bound: attempts before the deadline
    Scenarios       \* ops: seq of [kind, at]; leader; standing: voters that time out; ticks, elections, nudges,
                    \* members, pauses, losses, announcements: how many

VARIABLES
    log,            \* committed entries
    last, applied,  \* [Voters -> index]
    view,           \* [Voters -> [term, leader]] of the Raft core
    acked,          \* [Voters -> age of the last quorum acknowledgement]
    heard,          \* [Voters -> age of the last word from a leader]
    metrics,        \* [Voters -> [term, leader, age, applied, last]] as published
    lastKnown,      \* [Voters -> [term, leader]]: last_known_leader
    records,        \* [Nodes -> set of discovery records]
    rate,           \* [Voters -> writes admitted this second]
    nudged,         \* nodes within the cooldown of a nudge
    paused,         \* nodes whose process stands still
    ops, answered,  \* the operations; the last entry that an answered one wrote or showed
    used, scenario

raft == <<log, last, applied, view, acked, heard>>
vars == <<raft, metrics, lastKnown, records, rate, nudged, paused, ops, answered, used, scenario>>

None == "none"
Old == 9            \* an age past every limit
Quorums == {q \in SUBSET Voters : 2 * Cardinality(q) > Cardinality(Voters)}
Term == view[CHOOSE n \in Voters : \A m \in Voters : view[m].term <= view[n].term].term
Top == CHOOSE n \in Voters : view[n].leader = n /\ view[n].term = Term
Epoch(n) == 1 + Len(SelectSeq(SubSeq(log, 1, applied[n]), LAMBDA e : e = 0))
Published(n) == [term |-> view[n].term, leader |-> view[n].leader, age |-> acked[n], applied |-> applied[n], last |-> last[n]]
Older(age, limit) == IF age >= limit THEN Old ELSE age + 1
Use(kind) == used[kind] < scenario[kind] /\ used' = [used EXCEPT ![kind] = @ + 1]
Disturb(os) == [i \in DOMAIN os |-> [os[i] EXCEPT !.steady = FALSE]]

TypeOK ==
    /\ \A n \in Voters : applied[n] <= last[n] /\ last[n] <= Len(log) /\ view[n].leader \in Voters \cup {None}
    /\ \A n \in Voters : metrics[n].term <= view[n].term /\ metrics[n].applied <= applied[n]
    /\ \A i \in DOMAIN ops : ops[i].pc \in {"new", "local", "proof", "follow", "catchup", "cached", "asking", "discover",
                                            "again", "fresh", "propose", "commit", "retry", "ok", "failed"}

NewOp(o) == [kind |-> o.kind, at |-> o.at, pc |-> "new", floor |-> 0, index |-> 0, term |-> 0, then |-> None, asked |-> {},
             queue |-> <<>>, found |-> {}, peers |-> {}, rounds |-> 0, result |-> 0, steady |-> FALSE]

Init ==
    /\ scenario \in Scenarios
    /\ log = <<>> /\ last = [n \in Voters |-> 0] /\ applied = last
    /\ view = [n \in Voters |-> [term |-> 1, leader |-> scenario.leader]]
    /\ acked = [n \in Voters |-> IF n = scenario.leader THEN 0 ELSE Old] /\ heard = [n \in Voters |-> 0]
    /\ metrics = [n \in Voters |-> Published(n)]
    /\ lastKnown = [n \in Voters |-> [term |-> 0, leader |-> None]]
    /\ records = [n \in Nodes |-> {}] /\ rate = [n \in Voters |-> 0] /\ nudged = {} /\ paused = {}
    /\ ops = [i \in DOMAIN scenario.ops |-> NewOp(scenario.ops[i])] /\ answered = 0
    /\ used = [ticks |-> 0, elections |-> 0, nudges |-> 0, members |-> 0, pauses |-> 0, losses |-> 0, announcements |-> 0]

----------------------------------------------------------------------------
(* Raft, and time.                                                         *)

\* one tick: published ages grow with the core's, where the process runs
Tick ==
    /\ Use("ticks")
    /\ acked' = [n \in Voters |-> Older(acked[n], Heartbeat)]
    /\ heard' = [n \in Voters |-> Older(heard[n], Election)]
    /\ metrics' = [n \in Voters |-> IF n \in paused THEN metrics[n] ELSE [Published(n) EXCEPT !.age = acked'[n]]]
    /\ records' = [n \in Nodes |-> {[r EXCEPT !.ttl = IF @ = 0 THEN 0 ELSE @ - 1] : r \in records[n]}]
    /\ rate' = [n \in Voters |-> 0]
    /\ UNCHANGED <<log, last, applied, view, lastKnown, nudged, paused, ops, answered, scenario>>

\* the leader of the latest term reaches a quorum, and brings it up to its log
Contact(q) ==
    /\ Top \in q /\ q \cap paused = {}
    /\ acked' = [acked EXCEPT ![Top] = 0] /\ heard' = [n \in Voters |-> IF n \in q THEN 0 ELSE heard[n]]
    /\ view' = [n \in Voters |-> IF n \in q THEN view[Top] ELSE view[n]]
Publish(q) ==
    metrics' = [n \in Voters |-> IF n \in q \ paused
                                 THEN [term |-> view'[n].term, leader |-> view'[n].leader, age |-> acked'[n],
                                       applied |-> applied'[n], last |-> last'[n]] ELSE metrics[n]]
Beat(q) ==
    /\ Contact(q)
    /\ last' = [n \in Voters |-> IF n \in q THEN last[Top] ELSE last[n]]
    /\ UNCHANGED <<log, applied>> /\ Publish(q)
    /\ <<acked', heard', view', last', metrics'>> # <<acked, heard, view, last, metrics>>
    /\ UNCHANGED <<lastKnown, records, rate, nudged, paused, ops, answered, used, scenario>>

Apply(n) ==
    /\ n \notin paused /\ applied[n] < last[n]
    /\ applied' = [applied EXCEPT ![n] = @ + 1] /\ UNCHANGED <<log, last, view, acked, heard>> /\ Publish({n})
    /\ UNCHANGED <<lastKnown, records, rate, nudged, paused, ops, answered, used, scenario>>

\* a quorum gives its votes: whoever has heard from the leader lately does not, but the leader itself may
Elects(n, q) ==
    /\ n \in q /\ q \cap paused = {} /\ view[n].leader # n
    /\ \A v \in q : last[v] <= last[n] /\ (v \in {n, view[v].leader} \/ heard[v] > Election)
    /\ view' = [v \in Voters |-> IF v \in q THEN [term |-> Term + 1, leader |-> IF v = n THEN n ELSE None] ELSE view[v]]
    /\ acked' = [v \in Voters |-> IF v \in q THEN Old ELSE acked[v]] /\ heard' = [v \in Voters |-> IF v \in q THEN 0 ELSE heard[v]]
    /\ UNCHANGED <<log, last, applied>> /\ Publish(q) /\ ops' = Disturb(ops)
    /\ UNCHANGED <<lastKnown, records, rate, paused, answered, scenario>>
Elect(n, q) == n \in scenario.standing /\ heard[n] > Election /\ Use("elections") /\ Elects(n, q) /\ UNCHANGED nudged

\* nudge_local_leadership(): a voter that does not lead campaigns, once per cooldown
Nudge(n, q) ==
    /\ metrics[n].leader # n /\ n \notin nudged /\ nudged' = nudged \cup {n}
    /\ Use("nudges") /\ Elects(n, q)

\* a membership change is committed
Member(q) ==
    /\ Use("members") /\ q \in Quorums /\ Contact(q)
    /\ log' = Append(log, 0) /\ last' = [n \in Voters |-> IF n \in q THEN Len(log') ELSE last[n]]
    /\ UNCHANGED applied /\ Publish(q) /\ ops' = Disturb(ops)
    /\ UNCHANGED <<lastKnown, records, rate, nudged, paused, answered, scenario>>

\* a process stands still; what it published before stays until its core runs again
Pause(n) ==
    /\ Use("pauses") /\ paused' = paused \cup {n} /\ ops' = Disturb(ops)
    /\ UNCHANGED <<raft, metrics, lastKnown, records, rate, nudged, answered, scenario>>
Resume(n) ==
    /\ n \in paused /\ paused' = paused \ {n}
    /\ UNCHANGED <<raft, metrics, lastKnown, records, rate, nudged, ops, answered, used, scenario>>

----------------------------------------------------------------------------
(* What a node knows.                                                      *)

\* current_leader, or last_known_leader of the same term
KnownLeader(n) ==
    IF metrics[n].leader # None THEN metrics[n].leader
    ELSE IF lastKnown[n].term = metrics[n].term THEN lastKnown[n].leader ELSE None
Noted(n) == IF metrics[n].leader # None THEN [lastKnown EXCEPT ![n] = [term |-> metrics[n].term, leader |-> metrics[n].leader]]
            ELSE lastKnown

\* ReadLease::is_current()
AnyAge(n) == metrics[n].leader = n /\ metrics[n].applied >= metrics[n].last      \* the age is not looked at
LeaseCurrent(n) == metrics[n].leader = n /\ metrics[n].age <= Heartbeat /\ metrics[n].applied >= metrics[n].last

\* discovery_records(): the unexpired ones of the newest epoch and term first; a read drops the expired
Fresh(n) == {r \in records[n] : r.ttl > 0}
Newer(r, s) == r.epoch > s.epoch \/ (r.epoch = s.epoch /\ r.term > s.term)
Position(r) == Rank[r.by] * 10 + r.ttl * 2 + IF r.leader = None THEN 0 ELSE 1
Before(r, s) == Newer(r, s) \/ (~Newer(s, r) /\ Position(r) < Position(s))
\* at most three, without repetitions in a row; the own node and unknown leaders are passed over
Candidates(n, rs) ==
    LET order == [k \in 1 .. Cardinality(rs) |-> CHOOSE r \in rs : Cardinality({s \in rs : Before(s, r)}) = k - 1]
        kept == {k \in DOMAIN order : k = 1 \/ order[k].epoch # order[k - 1].epoch \/ order[k].leader # order[k - 1].leader}
        three == {k \in kept : Cardinality({j \in kept : j < k}) < 3}
    IN SelectSeq([k \in 1 .. Cardinality(three) |-> order[CHOOSE j \in three : Cardinality({m \in three : m < j}) = k - 1]],
                 LAMBDA r : r.leader \notin {None, n})
Persisted(n, rs) == {r \in Fresh(n) : ~\E s \in rs : s.epoch = r.epoch /\ s.by = r.by} \cup rs

\* the record that discover() makes of the local group
OwnRecord(n) == [epoch |-> Epoch(n), term |-> metrics[n].term, leader |-> metrics[n].leader, by |-> n, ttl |-> RecordTTL]
Discovered(n) == IF n \in Voters THEN Persisted(n, {OwnRecord(n)}) ELSE Fresh(n)

\* local_route_hint()
Hint(n) == IF n \notin Voters \/ KnownLeader(n) \in {None, n} THEN {}
           ELSE {[epoch |-> Epoch(n), term |-> metrics[n].term, leader |-> KnownLeader(n), by |-> "hint", ttl |-> 1]}

----------------------------------------------------------------------------
(* Operations.                                                             *)

Set(i, o) == ops' = [ops EXCEPT ![i] = o]
Calm == /\ paused = {} /\ \A n \in Voters : view[n] = view[Top] /\ metrics[n] = Published(n) /\ Epoch(n) = Epoch(Top)
        /\ \A j \in DOMAIN log : log[j] = 0 => \A n \in Voters : applied[n] >= j
Runs(i) == ops[i].at \notin paused
Idle == UNCHANGED <<raft, metrics, lastKnown, records, rate, nudged, paused, answered, used, scenario>>
Answer(k) == answered' = IF k > answered THEN k ELSE answered

Start(i) ==
    /\ ops[i].pc = "new" /\ Runs(i)
    /\ Set(i, [ops[i] EXCEPT !.pc = IF ops[i].kind = "read" THEN "local" ELSE "propose", !.floor = answered, !.steady = Calm])
    /\ Idle

\* linearizable_local_namespace_projection() at node n: by lease at once, or a quorum proof
Leads(n) == n \in Voters /\ KnownLeader(n) = n
Local(i) ==
    LET o == ops[i] n == o.at IN
    /\ o.pc \in {"local", "again"} /\ Runs(i)
    /\ Answer(IF Leads(n) /\ LeaseCurrent(n) THEN applied[n] ELSE 0)
    /\ Set(i, IF Leads(n) /\ LeaseCurrent(n) THEN [o EXCEPT !.pc = "ok", !.result = applied[n]]
              ELSE IF Leads(n) THEN [o EXCEPT !.pc = "proof", !.term = metrics[n].term, !.index = 0,
                                              !.then = IF o.pc = "again" THEN "fresh" ELSE "follow"]
              ELSE [o EXCEPT !.pc = IF o.pc = "again" THEN "fresh" ELSE "follow"])
    /\ lastKnown' = IF n \in Voters THEN Noted(n) ELSE lastKnown
    /\ UNCHANGED <<raft, metrics, records, rate, nudged, paused, used, scenario>>

\* ensure_linearizable(): a quorum confirms the leader (index: what was committed, plus one) ..
Confirm(n, q) == q \in Quorums /\ n = Top /\ Contact(q) /\ UNCHANGED <<log, last, applied>> /\ Publish(q)
Prove(i, q) ==
    /\ ops[i].pc = "proof" /\ Runs(i) /\ ops[i].index = 0
    /\ Confirm(ops[i].at, q) /\ Set(i, [ops[i] EXCEPT !.index = Len(log) + 1])
    /\ UNCHANGED <<lastKnown, records, rate, nudged, paused, answered, used, scenario>>
\* .. and once it has applied that, the metrics must still say so
Proved(i) ==
    LET o == ops[i] n == o.at
        confirmed == metrics[n].leader = n /\ metrics[n].term = o.term IN
    /\ o.pc = "proof" /\ Runs(i) /\ o.index > 0 /\ applied[n] + 1 >= o.index
    /\ Set(i, IF confirmed THEN [o EXCEPT !.pc = "ok", !.result = applied[n]] ELSE [o EXCEPT !.pc = o.then])
    /\ lastKnown' = IF confirmed THEN Noted(n) ELSE lastKnown
    /\ Answer(IF confirmed THEN applied[n] ELSE 0)
    /\ UNCHANGED <<raft, metrics, records, rate, nudged, paused, used, scenario>>
\* the core no longer leads, or no quorum answers
Unproved(i) ==
    /\ ops[i].pc = "proof" /\ Runs(i) /\ ops[i].index = 0 /\ view[ops[i].at].leader # ops[i].at
    /\ Set(i, [ops[i] EXCEPT !.pc = ops[i].then]) /\ Idle

\* namespace_state_from_local_leader(): ask the leader for its applied index
Request(to, epoch, term, what) == [to |-> to, epoch |-> epoch, term |-> term, what |-> what, stage |-> "sent", index |-> 0]
Follow(i) ==
    LET o == ops[i] n == o.at
        leader == IF n \in Voters THEN KnownLeader(n) ELSE None IN
    /\ o.pc = "follow" /\ Runs(i)
    /\ Set(i, IF leader \in {None, n} THEN [o EXCEPT !.pc = "cached"]
              ELSE [o EXCEPT !.pc = "asking", !.then = "cached", !.asked = {Request(leader, Epoch(n), metrics[n].term, "index")}])
    /\ lastKnown' = IF n \in Voters THEN Noted(n) ELSE lastKnown
    /\ UNCHANGED <<raft, metrics, records, rate, nudged, paused, answered, used, scenario>>

\* namespace_state_from_candidates(): one after the other
Cached(i) ==
    LET o == ops[i] rs == IF o.pc = "cached" THEN Fresh(o.at) ELSE Fresh(o.at) \cup o.found IN
    /\ o.pc \in {"cached", "fresh"} /\ Runs(i)
    /\ Set(i, [o EXCEPT !.queue = Candidates(o.at, rs), !.pc = "asking", !.asked = {},
                        !.then = IF o.pc = "cached" THEN "discover" ELSE "retry"])
    /\ records' = [records EXCEPT ![o.at] = Fresh(o.at)]
    /\ UNCHANGED <<raft, metrics, lastKnown, rate, nudged, paused, answered, used, scenario>>
AskNext(i) ==
    LET o == ops[i] IN
    /\ o.pc = "asking" /\ o.kind = "read" /\ Runs(i) /\ o.asked = {}
    /\ Set(i, IF o.queue = <<>> THEN [o EXCEPT !.pc = o.then, !.peers = {}, !.found = {}]
              ELSE [o EXCEPT !.queue = Tail(@),
                             !.asked = {Request(Head(o.queue).leader, Head(o.queue).epoch, Head(o.queue).term, "state")}])
    /\ Idle

\* validate_rpc_context() and the state handler at the node asked
Valid(r) == r.to \in Voters /\ r.epoch = Epoch(r.to) /\ r.term = metrics[r.to].term
Staged(i, r, s) == [ops[i] EXCEPT !.asked = (@ \ {r}) \cup s]
StateArrives(i, r) ==
    LET n == r.to IN
    /\ ops[i].kind = "read" /\ r \in ops[i].asked /\ r.stage = "sent" /\ n \notin paused
    /\ Set(i, IF ~(Valid(r) /\ Leads(n)) THEN Staged(i, r, {})
              ELSE IF LeaseCurrent(n) THEN Staged(i, r, {[r EXCEPT !.stage = "reply", !.index = applied[n]]})
              ELSE Staged(i, r, {[r EXCEPT !.stage = "proof"]}))
    /\ lastKnown' = IF Valid(r) THEN Noted(n) ELSE lastKnown
    /\ UNCHANGED <<raft, metrics, records, rate, nudged, paused, answered, used, scenario>>
StateProve(i, r, q) ==
    /\ r \in ops[i].asked /\ r.stage = "proof" /\ r.to \notin paused /\ r.index = 0 /\ Confirm(r.to, q)
    /\ Set(i, Staged(i, r, {[r EXCEPT !.index = Len(log) + 1]}))
    /\ UNCHANGED <<lastKnown, records, rate, nudged, paused, answered, used, scenario>>
StateProved(i, r) ==
    LET n == r.to IN
    /\ r \in ops[i].asked /\ r.stage = "proof" /\ n \notin paused /\ r.index > 0 /\ applied[n] + 1 >= r.index
    /\ Set(i, IF metrics[n].leader = n /\ metrics[n].term = r.term
              THEN Staged(i, r, {[r EXCEPT !.stage = "reply", !.index = applied[n]]}) ELSE Staged(i, r, {}))
    /\ Idle
StateUnproved(i, r) ==
    /\ r \in ops[i].asked /\ r.stage = "proof" /\ r.to \notin paused /\ r.index = 0 /\ view[r.to].leader # r.to
    /\ Set(i, Staged(i, r, {})) /\ Idle

\* the answer: the state itself, or an index to wait for
StateReply(i, r) ==
    LET o == ops[i] IN
    /\ o.kind = "read" /\ r \in o.asked /\ r.stage = "reply" /\ Runs(i)
    /\ Set(i, IF r.what = "state" THEN [o EXCEPT !.pc = "ok", !.asked = {}, !.result = r.index]
              ELSE [o EXCEPT !.pc = "catchup", !.asked = {}, !.index = r.index])
    /\ Answer(IF r.what = "state" THEN r.index ELSE 0)
    /\ UNCHANGED <<raft, metrics, lastKnown, records, rate, nudged, paused, used, scenario>>
\* wait_for_applied_index()
CaughtUp(i) == metrics[ops[i].at].applied >= ops[i].index
Catchup(i) ==
    /\ ops[i].pc = "catchup" /\ Runs(i) /\ CaughtUp(i)
    /\ Set(i, [ops[i] EXCEPT !.pc = "ok", !.result = applied[ops[i].at]]) /\ Answer(applied[ops[i].at])
    /\ UNCHANGED <<raft, metrics, lastKnown, records, rate, nudged, paused, used, scenario>>

\* a request or an answer takes longer than its caller waits
Lose(i) ==
    /\ Use("losses") /\ (ops[i].pc = "catchup" \/ ops[i].asked # {}) /\ Runs(i)
    /\ \/ ops[i].pc = "catchup" /\ Set(i, [ops[i] EXCEPT !.pc = "cached", !.steady = FALSE])
       \/ \E r \in ops[i].asked : ops[i].pc = "asking" /\ r.stage # "orphan"
             /\ Set(i, [ops[i] EXCEPT !.steady = FALSE,
                          !.asked = (@ \ {r}) \cup (IF r.stage = "proposed" THEN {[r EXCEPT !.stage = "orphan"]} ELSE {})])
    /\ UNCHANGED <<raft, metrics, lastKnown, records, rate, nudged, paused, answered, scenario>>

----------------------------------------------------------------------------
(* Writes: routed_write_with_guard().                                      *)

\* admit_write(): so many in a second
Admits(n) == rate[n] < RateLimit
\* the local leader proposes; otherwise known routes are tried at the same time
Propose(i) ==
    LET o == ops[i] n == o.at
        routes == Candidates(n, Fresh(n) \cup Hint(n)) IN
    /\ o.pc = "propose" /\ Runs(i)
    /\ IF n \in Voters /\ metrics[n].leader = n
       THEN /\ Set(i, IF Admits(n) THEN [o EXCEPT !.pc = "commit", !.term = view[n].term]
                      ELSE [o EXCEPT !.pc = "failed", !.steady = FALSE])
            /\ rate' = [rate EXCEPT ![n] = IF Admits(n) THEN @ + 1 ELSE @] /\ UNCHANGED records
       ELSE /\ Set(i, [o EXCEPT !.pc = "asking", !.then = "discover",
                                !.asked = @ \cup {Request(routes[k].leader, routes[k].epoch, routes[k].term, "write") : k \in DOMAIN routes}])
            /\ records' = [records EXCEPT ![n] = Fresh(n)] /\ UNCHANGED rate
    /\ UNCHANGED <<raft, metrics, lastKnown, nudged, paused, answered, used, scenario>>

\* the proposal is committed and applied, or the proposer no longer leads
Replicate(n, i, q) ==
    /\ q \in Quorums /\ n = Top /\ Contact(q)
    /\ log' = Append(log, i) /\ last' = [v \in Voters |-> IF v \in q THEN Len(log') ELSE last[v]]
    /\ UNCHANGED applied /\ Publish(q)
Commit(i, q) ==
    /\ ops[i].pc = "commit" /\ Runs(i) /\ ops[i].index = 0 /\ ops[i].term = view[ops[i].at].term
    /\ Replicate(ops[i].at, i, q) /\ Set(i, [ops[i] EXCEPT !.index = Len(log) + 1])
    /\ UNCHANGED <<lastKnown, records, rate, nudged, paused, answered, used, scenario>>
Wrote(i, k) == [ops[i] EXCEPT !.pc = "ok", !.result = k]
CommitDone(i) ==
    /\ ops[i].pc = "commit" /\ Runs(i) /\ ops[i].index > 0 /\ applied[ops[i].at] >= ops[i].index
    /\ Set(i, Wrote(i, ops[i].index)) /\ Answer(ops[i].index)
    /\ UNCHANGED <<raft, metrics, lastKnown, records, rate, nudged, paused, used, scenario>>
CommitLost(i) ==
    /\ ops[i].pc = "commit" /\ Runs(i) /\ ops[i].index = 0 /\ ops[i].term # view[ops[i].at].term
    /\ Set(i, [ops[i] EXCEPT !.pc = "failed"]) /\ Idle

\* the forward handler: only the leader of the very term proposes
ForwardValid(r) == Valid(r) /\ metrics[r.to].leader = r.to
ForwardArrives(i, r) ==
    LET n == r.to IN
    /\ ops[i].kind = "write" /\ r \in ops[i].asked /\ r.stage = "sent" /\ n \notin paused
    /\ Set(i, IF ForwardValid(r) /\ Admits(n) THEN Staged(i, r, {[r EXCEPT !.stage = "proposed"]})
              ELSE [Staged(i, r, {}) EXCEPT !.steady = @ /\ ~ForwardValid(r)])
    /\ rate' = IF ForwardValid(r) /\ Admits(n) THEN [rate EXCEPT ![n] = @ + 1] ELSE rate
    /\ UNCHANGED <<raft, metrics, lastKnown, records, nudged, paused, answered, used, scenario>>
\* an orphan is a proposal whose caller has gone
ForwardCommit(i, r, q) ==
    /\ r \in ops[i].asked /\ r.stage \in {"proposed", "orphan"} /\ r.to \notin paused /\ r.index = 0
    /\ r.term = view[r.to].term /\ Replicate(r.to, i, q)
    /\ Set(i, Staged(i, r, IF r.stage = "orphan" THEN {} ELSE {[r EXCEPT !.index = Len(log) + 1]}))
    /\ UNCHANGED <<lastKnown, records, rate, nudged, paused, answered, used, scenario>>
ForwardLost(i, r) ==
    /\ r \in ops[i].asked /\ r.stage \in {"proposed", "orphan"} /\ r.index = 0 /\ r.to \notin paused /\ r.term # view[r.to].term
    /\ Set(i, Staged(i, r, {})) /\ Idle
Orphans(i) == {[r EXCEPT !.stage = "orphan"] : r \in {s \in ops[i].asked : s.stage \in {"proposed", "orphan"} /\ s.index = 0}}
ForwardDone(i, r) ==
    /\ ops[i].pc \in {"asking", "discover"} /\ r \in ops[i].asked /\ r.stage = "proposed" /\ r.index > 0
    /\ r.to \notin paused /\ Runs(i) /\ applied[r.to] >= r.index
    /\ Set(i, [Wrote(i, r.index) EXCEPT !.asked = Orphans(i)]) /\ Answer(r.index)
    /\ UNCHANGED <<raft, metrics, lastKnown, records, rate, nudged, paused, used, scenario>>
\* no known route worked
ForwardsFail(i) ==
    /\ ops[i].pc = "asking" /\ ops[i].kind = "write" /\ Runs(i) /\ \A r \in ops[i].asked : r.stage = "orphan"
    /\ Set(i, [ops[i] EXCEPT !.pc = "discover", !.peers = IF ops[i].then = "discover" THEN {} ELSE @]) /\ Idle

----------------------------------------------------------------------------
(* Rediscovery.                                                            *)

\* a peer answers with its records: a read collects them, a write tries them at once
Discover(i, p) ==
    LET o == ops[i] answer == {r \in Discovered(p) : r.ttl > 0}
        routes == Candidates(o.at, answer) IN
    /\ o.pc = "discover" /\ Runs(i) /\ p \notin paused /\ p \in Nodes \ (o.peers \cup {o.at})
    /\ records' = [records EXCEPT ![p] = answer, ![o.at] = Persisted(o.at, answer)]
    /\ Set(i, IF o.kind = "read" THEN [o EXCEPT !.peers = @ \cup {p}, !.found = @ \cup answer]
              ELSE [o EXCEPT !.peers = @ \cup {p}, !.pc = "asking", !.then = "more",
                             !.asked = @ \cup {Request(routes[k].leader, routes[k].epoch, routes[k].term, "write") : k \in DOMAIN routes}])
    /\ UNCHANGED <<raft, metrics, lastKnown, rate, nudged, paused, answered, used, scenario>>
\* every peer has answered or stands still; a read looks at its own group again
DiscoverEnd(i) ==
    /\ ops[i].pc = "discover" /\ Runs(i) /\ Nodes \ (ops[i].peers \cup {ops[i].at}) \subseteq paused
    /\ Set(i, [ops[i] EXCEPT !.pc = IF ops[i].kind = "read" THEN "again" ELSE "retry"]) /\ Idle
\* until the deadline
Retry(i) ==
    /\ ops[i].pc = "retry" /\ Runs(i)
    /\ Set(i, IF ops[i].rounds = Rounds THEN [ops[i] EXCEPT !.pc = "failed"]
              ELSE [ops[i] EXCEPT !.rounds = @ + 1, !.pc = IF ops[i].kind = "read" THEN "local" ELSE "propose", !.then = None])
    /\ Idle

\* announce_group(): the first of the records that discover() returns goes to every peer, and announce() there takes it
\* only if it is the sender's own
Announce(n) ==
    /\ n \notin paused /\ Use("announcements")
    /\ LET sent == CHOOSE r \in Discovered(n) : \A s \in Discovered(n) \ {r} : Before(r, s)
       IN records' = [m \in Nodes |-> IF m = n THEN Discovered(n)
                                      ELSE IF m \in paused \/ sent.by # n THEN records[m] ELSE Persisted(m, {sent})]
    /\ UNCHANGED <<raft, metrics, lastKnown, rate, nudged, paused, ops, answered, scenario>>

Next ==
    \/ Tick \/ \E q \in Quorums : Beat(q) \/ Member(q)
    \/ \E n \in Voters : Apply(n) \/ Pause(n) \/ Resume(n) \/ Announce(n) \/ \E q \in Quorums : Elect(n, q) \/ Nudge(n, q)
    \/ \E i \in DOMAIN ops :
          \/ Start(i) \/ Local(i) \/ Proved(i) \/ Unproved(i) \/ Follow(i) \/ Cached(i) \/ AskNext(i) \/ Catchup(i) \/ Lose(i)
          \/ Propose(i) \/ CommitDone(i) \/ CommitLost(i) \/ ForwardsFail(i) \/ DiscoverEnd(i) \/ Retry(i)
          \/ \E p \in Nodes : Discover(i, p)
          \/ \E q \in Quorums : Prove(i, q) \/ Commit(i, q)
          \/ \E r \in ops[i].asked :
                \/ StateArrives(i, r) \/ StateProved(i, r) \/ StateUnproved(i, r) \/ StateReply(i, r)
                \/ ForwardArrives(i, r) \/ ForwardLost(i, r) \/ ForwardDone(i, r)
                \/ \E q \in Quorums : StateProve(i, r, q) \/ ForwardCommit(i, r, q)
Spec == Init /\ [][Next]_vars

----------------------------------------------------------------------------
(* A read reflects every write that was answered and every entry that a read showed before it began, at whichever   *)
(* node: the age of the lease, the proof and the follower's wait leave no way around it.                            *)
ReadsLinearizable == \A i \in DOMAIN ops : ops[i].kind = "read" /\ ops[i].pc = "ok" => ops[i].result >= ops[i].floor
(* An operation gives up only if the group changed leader or membership, a node stood still, a message was late or the *)
(* rate was exceeded while it ran: stale routes alone never fail it. *)
CalmSucceeds == \A i \in DOMAIN ops : ops[i].pc = "failed" => ~ops[i].steady
RoutingSound == ReadsLinearizable /\ CalmSucceeds
=============================================================================
