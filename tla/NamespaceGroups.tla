--------------------------- MODULE NamespaceGroups --------------------------
(***************************************************************************)
(* The life of a namespace's group (NamespaceGroupManager of               *)
(* pepper-consensus, with the handlers of namespace_api.rs that drive it): *)
(* creation, start and recovery after a restart, the replacement of a      *)
(* replica through a learner, disaster recovery with new members, and the  *)
(* membership epoch that the Raft messages of a group carry.               *)
(*                                                                         *)
(* One namespace.  The Raft library is external and atomic: an election, a *)
(* replication from a leader to one follower, an advance of the commit     *)
(* index.  Log entries are membership configurations and others.           *)
(***************************************************************************)
EXTENDS Naturals, Sequences, FiniteSets, SequencesExt

CONSTANTS
    Nodes,
    Initial,        \* initial_replica_set
    Tolerance,      \* epochs a transition may be off: 4
    Scenarios       \* creations, elections, crashes, replacements, recoveries, compactions, failures (of requests): how
                    \* many; failed, spare: the replica to replace and its replacement; members: of a recovery, in the
                    \* request's order; standing, crashing: nodes that stand for election, that may crash; lost: those that crash for
                    \* good, before a request begins

VARIABLES
    up, running,    \* processes; nodes whose registry has the group
    meta,           \* [Nodes -> group record]: NAMESPACE_GROUPS
    stored,         \* [Nodes -> state machine record]: NAMESPACE_STATE
    machine,        \* [Nodes -> state machine in memory]: epoch, config, applied
    log, commit, term, snap,   \* the Raft core's, on disk
    leads,          \* nodes that lead
    task,           \* the administrator's request under way
    era, chosen,    \* [Nodes -> recoveries its data went through]; [era -> committed entries]
    apart,          \* learners that count the epochs of a log from the leader's epoch
    mixed,          \* nodes with an epoch or entries of both sides of a recovery
    used, scenario

disk == <<meta, stored, log, commit, term, snap, era>>
hist == <<chosen, apart, mixed>>
vars == <<up, running, disk, machine, leads, task, hist, used, scenario>>

NoConfig == [voters |-> {}, learners |-> {}]
Config(vs, ls) == [voters |-> vs, learners |-> ls]        \* voters: one set, or two in a joint configuration
Members(c) == UNION c.voters \cup c.learners
Entry(t, c) == [term |-> t, config |-> c]
NoMeta == [members |-> {}, learners |-> {}, status |-> "none"]
NoState == [epoch |-> 0, config |-> NoConfig, applied |-> 0]
Fresh == [NoState EXCEPT !.epoch = 1]                     \* INITIAL_MEMBERSHIP_EPOCH
NoTask == [kind |-> "none", pc |-> "none", by |-> "none", left |-> <<>>, index |-> 0]

TypeOK ==
    /\ running \subseteq up /\ leads \subseteq running
    /\ \A n \in Nodes \ mixed : commit[n] <= Len(log[n]) /\ machine[n].applied <= commit[n] /\ snap[n].applied <= Len(log[n])
    /\ task.kind \in {"none", "create", "replace", "recover"}

Init ==
    /\ scenario \in Scenarios
    /\ up = Nodes /\ running = {} /\ leads = {} /\ task = NoTask
    /\ meta = [n \in Nodes |-> NoMeta] /\ stored = [n \in Nodes |-> NoState] /\ machine = stored
    /\ log = [n \in Nodes |-> <<>>] /\ commit = [n \in Nodes |-> 0] /\ term = commit /\ snap = stored
    /\ era = [n \in Nodes |-> 1] /\ chosen = [e \in 1 .. 2 |-> <<>>] /\ apart = {} /\ mixed = {}
    /\ used = [creations |-> 0, elections |-> 0, crashes |-> 0, replacements |-> 0, recoveries |-> 0, compactions |-> 0, failures |-> 0]

Use(kind) == used[kind] < scenario[kind] /\ used' = [used EXCEPT ![kind] = @ + 1]

----------------------------------------------------------------------------
(* Raft.                                                                   *)

\* the configuration in force: the last in the log
Effective(n) ==
    LET is == {i \in DOMAIN log[n] : log[n][i].config # NoConfig}
    IN IF is = {} THEN NoConfig ELSE log[n][CHOOSE i \in is : \A j \in is : j <= i].config
Quorum(q, c) == \A vs \in c.voters : 2 * Cardinality(q \cap vs) > Cardinality(vs)
LastTerm(n) == IF log[n] = <<>> THEN 0 ELSE 1 + Last(log[n]).term
Behind(v, n) == LastTerm(v) < LastTerm(n) \/ (LastTerm(v) = LastTerm(n) /\ Len(log[v]) <= Len(log[n]))

\* validate_rpc_context(): votes need the same epoch, appends and snapshots one nearby
AnyEpoch(n, v) == v \in running
MayVote(n, v) == v \in running /\ machine[v].epoch = machine[n].epoch
Near(x, y) == x <= y + Tolerance /\ y <= x + Tolerance
MayAppend(n, v) == v \in running /\ Near(machine[n].epoch, machine[v].epoch)

Elect(n, q) ==
    LET next == 1 + term[CHOOSE v \in q : \A w \in q : term[w] <= term[v]] IN
    /\ Use("elections") /\ n \in (q \cap scenario.standing) \ leads /\ n \in UNION Effective(n).voters /\ Quorum(q, Effective(n))
    /\ \A v \in q \ {n} : MayVote(n, v) /\ Behind(v, n)
    /\ term' = [v \in Nodes |-> IF v \in q THEN next ELSE term[v]]
    /\ leads' = (leads \ q) \cup {n}
    /\ log' = [log EXCEPT ![n] = Append(@, Entry(next, NoConfig))]
    /\ UNCHANGED <<up, running, meta, stored, commit, snap, era, machine, task, hist, scenario>>

\* append_entries, or install_snapshot if what is missing has been purged: the state of the snapshot with its epoch
Send(n, v) ==
    LET purged == Len(log[v]) < snap[n].applied
        sent == IF purged THEN SubSeq(log[n], 1, snap[n].applied) ELSE log[n]
        known == IF commit[n] < Len(sent) THEN commit[n] ELSE Len(sent) IN
    /\ n \in leads /\ v \in Members(Effective(n)) \ {n} /\ MayAppend(n, v) /\ term[v] <= term[n]
    /\ log' = [log EXCEPT ![v] = sent] /\ term' = [term EXCEPT ![v] = term[n]] /\ leads' = leads \ {v}
    /\ commit' = [commit EXCEPT ![v] = IF known > @ THEN known ELSE IF @ > Len(sent) THEN Len(sent) ELSE @]
    /\ IF purged THEN /\ stored' = [stored EXCEPT ![v] = snap[n]] /\ machine' = [machine EXCEPT ![v] = snap[n]]
                      /\ snap' = [snap EXCEPT ![v] = snap[n]]
       ELSE UNCHANGED <<stored, machine, snap>>
    /\ <<log', term', commit', leads'>> # <<log, term, commit, leads>>
    /\ apart' = IF purged THEN (apart \ {v}) \cup {x \in {v} : n \in apart}
                ELSE apart \cup {x \in {scenario.spare} : x = v /\ machine[x].applied = 0}
    /\ mixed' = mixed \cup {x \in {v} : era[x] # era[n]}
    /\ UNCHANGED <<up, running, meta, era, task, chosen, used, scenario>>

Commit(n) ==
    /\ n \in leads /\ commit[n] < Len(log[n]) /\ LastTerm(n) = 1 + term[n]
    /\ Quorum({v \in Nodes : log[v] = log[n] /\ term[v] = term[n]}, Effective(n))
    /\ commit' = [commit EXCEPT ![n] = Len(log[n])]
    /\ chosen' = [chosen EXCEPT ![era[n]] = IF Len(log[n]) > Len(@) THEN log[n] ELSE @]
    /\ UNCHANGED <<up, running, meta, stored, log, term, snap, era, machine, leads, task, apart, mixed, used, scenario>>

\* apply(): a batch; with a membership entry, which starts an epoch, the state is written at once, else later
SkipsEntry(m, e) == [m EXCEPT !.applied = @ + 2]
Applied(m, e) == IF e.config = NoConfig THEN [m EXCEPT !.applied = @ + 1]
                 ELSE [epoch |-> m.epoch + 1, config |-> e.config, applied |-> m.applied + 1]
Apply(n) ==
    LET batch == SubSeq(log[n], machine[n].applied + 1, commit[n]) IN
    /\ n \in running /\ batch # <<>>
    /\ machine' = [machine EXCEPT ![n] = FoldLeft(Applied, @, batch)]
    /\ stored' = IF \E i \in DOMAIN batch : batch[i].config # NoConfig THEN [stored EXCEPT ![n] = machine'[n]] ELSE stored
    /\ UNCHANGED <<up, running, meta, log, commit, term, snap, era, leads, task, hist, used, scenario>>

\* a checkpoint, after which the log before it is purged
Compact(n) ==
    /\ n \in running /\ machine[n].applied > snap[n].applied /\ Use("compactions")
    /\ snap' = [snap EXCEPT ![n] = machine[n]] /\ stored' = [stored EXCEPT ![n] = machine[n]]
    /\ UNCHANGED <<up, running, meta, log, commit, term, era, machine, leads, task, hist, scenario>>

----------------------------------------------------------------------------
(* Start and restart.                                                      *)

\* start_group(): the applied configuration decides, before there is one the descriptor and the group record
Assigned(n, st, mt) == IF Members(st.config) # {} THEN n \in Members(st.config)
                       ELSE n \in Initial \/ n \in mt.members \cup mt.learners
StartGroup(n, st, mt) ==
    /\ Assigned(n, st, mt)
    /\ running' = running \cup {n}
    /\ stored' = [stored EXCEPT ![n] = IF st = NoState THEN Fresh ELSE st]
    /\ machine' = [machine EXCEPT ![n] = stored'[n]]
    /\ meta' = [meta EXCEPT ![n] = [members |-> IF mt = NoMeta THEN Initial ELSE mt.members, learners |-> mt.learners,
                                    status |-> "running"]]

\* recover_assigned_groups(): the groups on disk with this node in the applied configuration or the descriptor; a
\* group that will not start ends the node's start
Recovers(n) == stored[n] # NoState /\ (n \in Members(stored[n].config) \/ n \in Initial)
\* the node the task is at, and what becomes of a task whose requester is gone: a handler under way elsewhere goes on
At == IF task.kind = "replace" /\ task.pc \in {"prepare", "state"} THEN scenario.spare
      ELSE IF task.left # <<>> THEN Head(task.left) ELSE task.by
Midway == task.pc \in {"state", "record"} \/ (task.kind = "recover" /\ task.pc = "initialize")
Abandoned == IF Midway /\ At # task.by THEN [task EXCEPT !.by = At, !.left = SelectSeq(@, LAMBDA n : n = At)] ELSE NoTask
Crash(n) ==
    /\ n \in up /\ Use("crashes") /\ n \in scenario.crashing
    /\ up' = up \ {n} /\ running' = running \ {n} /\ leads' = leads \ {n}
    /\ machine' = [machine EXCEPT ![n] = NoState]
    /\ task' = IF Midway /\ n = At THEN NoTask ELSE IF task.by = n THEN Abandoned ELSE task
    /\ UNCHANGED <<disk, hist, scenario>>
Restart(n) ==
    /\ n \in Nodes \ (up \cup scenario.lost)
    /\ up' = up \cup {n}
    /\ IF Recovers(n) THEN StartGroup(n, stored[n], meta[n]) ELSE UNCHANGED <<running, stored, machine, meta>>
    /\ UNCHANGED <<log, commit, term, snap, era, leads, task, hist, used, scenario>>

----------------------------------------------------------------------------
(* The administrator's requests; a request that fails may be made again.   *)

Leading == task.by \in leads /\ \A n \in leads : term[n] <= term[task.by]
Refused == At \notin up \/ (task.kind = "replace" /\ task.pc \in {"learner", "catchup", "joint", "uniform"} /\ ~Leading)
Fails == /\ task.kind # "none" /\ IF Refused THEN UNCHANGED used ELSE Use("failures")
         /\ task' = Abandoned
         /\ UNCHANGED <<up, running, disk, machine, leads, hist, scenario>>
Idle == UNCHANGED <<up, log, commit, term, snap, era, leads, hist, scenario>>

\* bootstrap_namespace_group(): every initial replica starts the group, then one initializes it
CreateBegin(n) ==
    /\ task = NoTask /\ n \in up \cap Initial /\ log = [v \in Nodes |-> <<>>]
    /\ Use("creations")
    /\ task' = [NoTask EXCEPT !.kind = "create", !.pc = "start", !.by = n, !.left = SetToSeq(Initial)]
    /\ UNCHANGED <<up, running, disk, machine, leads, hist, scenario>>
CreateStart(n) ==
    /\ task.kind = "create" /\ task.pc = "start" /\ n \in up /\ n = Head(task.left)
    /\ task' = IF Len(task.left) > 1 THEN [task EXCEPT !.left = Tail(@)]
               ELSE [task EXCEPT !.left = SubSeq(SetToSeq(Initial), 1, 1), !.pc = "initialize"]
    /\ IF n \in running THEN UNCHANGED <<running, stored, machine, meta>> ELSE StartGroup(n, stored[n], meta[n])
    /\ Idle /\ UNCHANGED used

\* initialize(): the members of the group record, unless the state machine has others
Initializes(n, members) == n \in running /\ meta[n].members = members /\ machine[n].config = NoConfig
First(members, t) == <<Entry(t, Config({members}, {}))>>
Initialize(n) ==
    /\ task.pc = "initialize" /\ n \in up /\ n = Head(task.left)
    /\ LET done == Initializes(n, IF task.kind = "create" THEN Initial ELSE Range(scenario.members)) /\ log[n] = <<>> IN
       /\ log' = IF done THEN [log EXCEPT ![n] = First(meta[n].members, term[n])] ELSE log
       /\ task' = IF done /\ Len(task.left) > 1 THEN [task EXCEPT !.left = Tail(@), !.pc = "clear"] ELSE NoTask
    /\ UNCHANGED <<up, running, meta, stored, commit, term, snap, era, machine, leads, hist, used, scenario>>

\* admin_namespace_replace(): the spare prepares as a learner with the leader's epoch ..
ReplaceBegin(n) ==
    /\ task = NoTask /\ n \in leads /\ n # scenario.failed /\ machine[n].config # NoConfig /\ Use("replacements")
    /\ scenario.lost \cap up = {}
    /\ task' = [NoTask EXCEPT !.kind = "replace", !.pc = "prepare", !.by = n]
    /\ UNCHANGED <<up, running, disk, machine, leads, hist, scenario>>
\* prepare_learner_group(): first the group record, then the state record and the start; both only once
Voting(n) == UNION machine[n].config.voters
Replaceable(d) == Cardinality(Voting(task.by)) = 3 /\ d \notin Voting(task.by)
PrepareMeta ==
    LET d == scenario.spare IN
    /\ task.kind = "replace" /\ task.pc = "prepare" /\ d \in up
    /\ meta' = IF d \in running \/ ~Replaceable(d) THEN meta
               ELSE [meta EXCEPT ![d] = [members |-> Voting(task.by), learners |-> {d}, status |-> "learner"]]
    /\ task' = IF d \in running THEN [task EXCEPT !.pc = "learner"]
               ELSE IF Replaceable(d) THEN [task EXCEPT !.pc = "state", !.index = machine[task.by].epoch] ELSE NoTask
    /\ UNCHANGED <<running, stored, machine, used>> /\ Idle
PrepareState ==
    LET d == scenario.spare IN
    /\ task.kind = "replace" /\ task.pc = "state" /\ d \in up \ running
    /\ task' = IF task.by = d THEN NoTask ELSE [task EXCEPT !.pc = "learner"]
    /\ StartGroup(d, [Fresh EXCEPT !.epoch = task.index], meta[d])
    /\ Idle /\ UNCHANGED used

\* .. replace_replica(): a leader that is current and whose record names the failed node adds the learner ..
Appended(n, c) == log' = [log EXCEPT ![n] = Append(@, Entry(term[n], c))]
Settled(n) == commit[n] = Len(log[n]) /\ Cardinality(Effective(n).voters) = 1
Steps == UNCHANGED <<up, running, meta, stored, commit, term, snap, era, machine, leads, hist, used, scenario>>
AddLearner ==
    LET n == task.by d == scenario.spare IN
    /\ task.kind = "replace" /\ task.pc = "learner" /\ Leading /\ Settled(n)
    /\ IF scenario.failed \in meta[n].members /\ d \notin meta[n].members
       THEN /\ task' = [task EXCEPT !.pc = "catchup", !.index = Len(log[n]) + 1]
            /\ Appended(n, Config(Effective(n).voters, Effective(n).learners \cup {d}))
       ELSE task' = NoTask /\ UNCHANGED log
    /\ Steps
\* .. waits until it has what is committed ..
Caught(n, d) == IsPrefix(SubSeq(log[n], 1, commit[n]), log[d])
CatchUp ==
    LET n == task.by IN
    /\ task.kind = "replace" /\ task.pc = "catchup" /\ Leading /\ commit[n] >= task.index
    /\ Caught(n, scenario.spare)
    /\ task' = [task EXCEPT !.pc = "joint"] /\ UNCHANGED log /\ Steps
\* .. and changes the voters through a joint configuration; the leader's record follows
NewVoters(n) == (meta[n].members \ {scenario.failed}) \cup {scenario.spare}
Joint ==
    LET n == task.by old == Effective(n) IN
    /\ task.kind = "replace" /\ task.pc = "joint" /\ Leading /\ Settled(n)
    /\ log' = IF NewVoters(n) \subseteq Members(old)
              THEN [log EXCEPT ![n] = Append(@, Entry(term[n], Config(old.voters \cup {NewVoters(n)}, {})))] ELSE log
    /\ task' = IF NewVoters(n) \subseteq Members(old) THEN [task EXCEPT !.pc = "uniform", !.index = Len(log[n]) + 1]
               ELSE NoTask
    /\ Steps
Uniform ==
    LET n == task.by IN
    /\ task.kind = "replace" /\ task.pc = "uniform" /\ Leading /\ commit[n] >= task.index
    /\ task' = [task EXCEPT !.pc = "record", !.index = Len(log[n]) + 1]
    /\ Appended(n, Config({NewVoters(n)}, {})) /\ Steps
Replaced ==
    LET n == task.by IN
    /\ task.kind = "replace" /\ task.pc = "record" /\ n \in running /\ machine[n].applied >= task.index
    /\ meta' = [meta EXCEPT ![n] = [members |-> NewVoters(n), learners |-> {}, status |-> "running"]]
    /\ task' = NoTask /\ UNCHANGED <<running, stored, machine, used>> /\ Idle

\* admin_namespace_recover(): one member after the other forgets the group and starts it anew, the first initializes it
RecoverBegin(n) ==
    /\ task = NoTask /\ n \in Range(scenario.members) \cap up /\ Use("recoveries") /\ machine[n].config # NoConfig
    /\ scenario.lost \cap up = {}
    /\ task' = [NoTask EXCEPT !.kind = "recover", !.pc = "clear", !.by = n, !.left = scenario.members]
    /\ UNCHANGED <<up, running, disk, machine, leads, hist, scenario>>
\* prepare_disaster_recovery(), after shutdown_group(), by three writes: clear_consensus_group() ..
NextEpoch(n) == (IF stored[n] = NoState THEN 1 ELSE stored[n].epoch) + 1
\* a member whose next epoch another node has had before the recovery, or has not reached with it
Off(n) == \E v \in Nodes : stored[v].epoch > (IF era[v] = era[n] THEN stored[n].epoch ELSE NextEpoch(n))
RecoverClear(n) ==
    /\ task.kind = "recover" /\ task.pc = "clear" /\ n \in up /\ n = Head(task.left)
    /\ task' = [task EXCEPT !.pc = "state", !.index = NextEpoch(n)]
    /\ running' = running \ {n} /\ leads' = leads \ {n} /\ machine' = [machine EXCEPT ![n] = NoState]
    /\ meta' = IF n \in running THEN [meta EXCEPT ![n].status = "stopped"] ELSE meta
    /\ log' = [log EXCEPT ![n] = <<>>] /\ commit' = [commit EXCEPT ![n] = 0] /\ term' = [term EXCEPT ![n] = 0]
    /\ snap' = [snap EXCEPT ![n] = NoState] /\ stored' = [stored EXCEPT ![n] = NoState]
    /\ era' = [era EXCEPT ![n] = 2] /\ mixed' = (mixed \ {n}) \cup {x \in {n} : Off(x)}
    /\ UNCHANGED <<up, chosen, apart, used, scenario>>
\* .. then the state with the next epoch ..
RecoverState(n) ==
    /\ task.kind = "recover" /\ task.pc = "state" /\ n = Head(task.left)
    /\ stored' = [stored EXCEPT ![n] = [Fresh EXCEPT !.epoch = task.index]]
    /\ task' = [task EXCEPT !.pc = "record"]
    /\ UNCHANGED <<running, machine, meta, used>> /\ Idle
\* .. then the group record, and the start
RecoverRecord(n) ==
    /\ task.kind = "recover" /\ task.pc = "record" /\ n = Head(task.left)
    /\ task' = IF n = Head(scenario.members) THEN [task EXCEPT !.pc = "initialize"]
               ELSE IF Len(task.left) > 1 THEN [task EXCEPT !.left = Tail(@), !.pc = "clear"] ELSE NoTask
    /\ StartGroup(n, stored[n], [members |-> Range(scenario.members), learners |-> {}, status |-> "recovery_pending"])
    /\ Idle /\ UNCHANGED used

Next ==
    \/ \E n \in Nodes :
          \/ Commit(n) \/ Apply(n) \/ Compact(n) \/ Crash(n) \/ Restart(n) \/ CreateBegin(n) \/ CreateStart(n)
          \/ Initialize(n) \/ ReplaceBegin(n) \/ RecoverBegin(n)
          \/ RecoverClear(n) \/ RecoverState(n) \/ RecoverRecord(n)
          \/ \E v \in Nodes : Send(n, v)
          \/ \E q \in SUBSET running : Elect(n, q)
    \/ Fails \/ PrepareMeta \/ PrepareState \/ AddLearner \/ CatchUp \/ Joint \/ Uniform \/ Replaced
Spec == Init /\ [][Next]_vars

----------------------------------------------------------------------------
(* What the group committed stays, in each era between recoveries: no node commits another history, and whoever leads *)
(* in the term of the last committed entry or later has all of them. A recovered node has forgotten its vote and its  *)
(* log: only the epoch of a request for votes keeps it out of the elections of those not yet recovered. Excepted:     *)
(* once a leader's entries crossed from one side of a recovery to the other, or a member was recovered in an epoch    *)
(* that others have had before it.                                                                                    *)
CommittedKept ==
    mixed = {} =>
    /\ \A n \in Nodes : IsPrefix(SubSeq(log[n], 1, commit[n]), chosen[era[n]])
    /\ \A n \in leads : LET c == chosen[era[n]] IN c # <<>> /\ Last(c).term <= term[n] => IsPrefix(c, log[n])
(* Voters that have applied the same entries are in the same epoch, or they would refuse each other's votes, after   *)
(* restarts, snapshots and recoveries too. Excepted: learners that replay a log from the leader's epoch, and members *)
(* recovered from different epochs.                                                                                  *)
EpochsAgree ==
    \A n, v \in running \ (apart \cup mixed) :
                          /\ era[n] = era[v] /\ machine[n].applied = machine[v].applied /\ machine[n].applied > 0
                          /\ log[n] # <<>> /\ log[v] # <<>>
                          => machine[n].epoch = machine[v].epoch
(* A node that has applied a configuration with it as a voter comes back with the group after a restart. *)
VotersReturn == \A n \in up : n \in UNION stored[n].config.voters /\ task.kind # "recover" => n \in running
GroupsSound == CommittedKept /\ EpochsAgree /\ VotersReturn
=============================================================================
