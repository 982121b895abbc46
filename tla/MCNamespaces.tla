---------------------------- MODULE MCNamespaces ----------------------------
(***************************************************************************)
(* Model checking of the namespaces, each part by itself: the routing of   *)
(* reads and writes to a group and the group's membership. Only one of     *)
(* them runs in a behaviour, so that they share the variables v1, v2, ...; *)
(* the initial states choose it.                                           *)
(***************************************************************************)
EXTENDS Naturals, Sequences, TLC

VARIABLES v1, v2, v3, v4, v5, v6, v7, v8, v9, v10, v11, v12, v13, v14, v15, v16, v17, component

\* Three voters and a gateway: reads and writes by leases, proofs, cached routes and discovery. A write answered
\* by a new leader while the old one may still read by its lease; a nudge, a new member, a lost answer, a pause of
\* the leader during a write.
Routed(ops, t, e, g, m, p, k, a) ==
    [ops |-> ops, leader |-> "a", standing |-> {"b"}, ticks |-> t, elections |-> e, nudges |-> g, members |-> m, pauses |-> p, losses |-> k,
     announcements |-> a]
Read(n) == [kind |-> "read", at |-> n]
Write(n) == [kind |-> "write", at |-> n]
RoutingScenarios ==
    {Routed(<<Write("b"), Read("a")>>, 3, 1, 0, 0, 0, 0, 0), Routed(<<Write("b"), Read("a")>>, 0, 0, 1, 0, 0, 0, 0),
     Routed(<<Write("a"), Read("b"), Read("a")>>, 0, 0, 0, 0, 0, 0, 0),
     Routed(<<Write("g")>>, 0, 0, 0, 1, 0, 1, 0), Routed(<<Read("g")>>, 0, 0, 1, 0, 0, 0, 1),
     Routed(<<Read("b")>>, 0, 0, 0, 1, 0, 1, 0), Routed(<<Write("a"), Write("g")>>, 0, 0, 0, 0, 0, 0, 0),
     Routed(<<Write("g")>>, 0, 0, 0, 0, 1, 0, 0)}
AddressRank == [a |-> 1, b |-> 2, c |-> 3, g |-> 4, hint |-> 5]
Routing == INSTANCE NamespaceRouting WITH Nodes <- {"a", "b", "c", "g"}, Voters <- {"a", "b", "c"},
             Rank <- AddressRank, Heartbeat <- 1, Election <- 2, RecordTTL <- 2, RateLimit <- 1, Rounds <- 1,
             Scenarios <- RoutingScenarios, log <- v1, last <- v2, applied <- v3, view <- v4, acked <- v5,
             heard <- v6, metrics <- v7, lastKnown <- v8, records <- v9, rate <- v10, nudged <- v11, paused <- v12,
             ops <- v13, answered <- v14, used <- v15, scenario <- v16

\* A recovery, with leaders elected on both sides of it; one with a new member, a crash and a failed request; a
\* replacement with the replaced node elected; one after a loss, with a compaction; one begun again after a failure;
\* one whose learner restarts.
Group(n, e, vs, ks, r, d, c, f, lost, ms) ==
    [creations |-> n, elections |-> e, crashes |-> 1, standing |-> vs, crashing |-> ks, replacements |-> r, recoveries |-> d, compactions |-> c, failures |-> f, failed |-> "c",
     spare |-> "d", members |-> ms, lost |-> lost]
GroupScenarios ==
    {Group(1, 3, {"a", "b"}, {}, 0, 1, 0, 0, {}, <<"c", "a", "b">>),
     Group(2, 1, {"a", "b"}, {"a", "b", "d"}, 0, 1, 0, 1, {}, <<"b", "d", "a">>),
     Group(1, 2, {"a", "c"}, {}, 1, 0, 0, 0, {}, <<>>), Group(1, 1, {"a"}, {"c"}, 1, 0, 1, 0, {"c"}, <<>>),
     Group(1, 1, {"a"}, {"c"}, 2, 0, 0, 1, {"c"}, <<>>), Group(1, 1, {"a"}, {"d"}, 1, 0, 0, 0, {}, <<>>)}
Membership == INSTANCE NamespaceGroups WITH Nodes <- {"a", "b", "c", "d"}, Initial <- {"a", "b", "c"}, Tolerance <- 4,
                Scenarios <- GroupScenarios, up <- v1, running <- v2, meta <- v3, stored <- v4, machine <- v5,
                log <- v6, commit <- v7, term <- v8, snap <- v9, leads <- v10, task <- v11, era <- v12, chosen <- v13,
                apart <- v14, mixed <- v15, used <- v16, scenario <- v17

shared == <<v1, v2, v3, v4, v5, v6, v7, v8, v9, v10, v11, v12, v13, v14, v15, v16, v17>>

NamespacesInit ==
    \/ component = "routing" /\ Routing!Init
         /\ v17 = 0
    \/ component = "membership" /\ Membership!Init

NamespacesNext ==
    \/ component = "routing" /\ Routing!Next /\ UNCHANGED <<v17, component>>
    \/ component = "membership" /\ Membership!Next /\ UNCHANGED <<component>>

NamespacesSpec == NamespacesInit /\ [][NamespacesNext]_<<shared, component>>

(* The state of the part that runs has its type.                           *)
PartsTypeOK ==
    /\ component = "routing" => Routing!TypeOK
    /\ component = "membership" => Membership!TypeOK

(* Routed operations of a namespace (see NamespaceRouting): a read that    *)
(* was answered shows every write answered and every entry shown before it *)
(* began, and an operation fails only if the group, a message or the rate  *)
(* changed while it ran.                                                   *)
RoutingSound == component = "routing" => Routing!RoutingSound

(* The members of a namespace's group (see NamespaceGroups): committed     *)
(* entries kept by every later leader through replacements and recoveries, *)
(* one epoch for voters with the same entries, voters that come back after *)
(* a restart.                                                              *)
MembershipSound == component = "membership" => Membership!GroupsSound
=============================================================================
