------------------------------ MODULE MCCluster -----------------------------
(***************************************************************************)
(* Model checking of the parts that make the nodes a cluster, each by      *)
(* itself: the protection of a namespace's blocks, the network's           *)
(* connections and its directory of providers, erasure-coded objects. Only *)
(* one of them runs in a behaviour, chosen by the initial state; the       *)
(* transport has variables of its own, and the others share v1, v2, ...    *)
(***************************************************************************)
EXTENDS NetworkTransport, TLC

CONSTANTS Roots, Empty, MaxIndex

VARIABLES v1, v2, v3, v4, v5, v6, v7, v8, v9, v10, v11, v12, v13, v14, v15, v16, v17, v18, component

\* A window of one revision, which a lagging state record outlasts, and one that reaches as far back as the
\* record may lag; one disturbance, or snapshots and none.
Keeping(k, does, f) == [keep |-> k, cadence |-> 2, client |-> does, faults |-> f]
Windows == {Keeping(1, "retries", 1), Keeping(2, "puts", 1), Keeping(1, "snapshots", 0), Keeping(2, "snapshots", 0)}
Contents == Permutations(Roots)
Protection == INSTANCE NamespaceProtection WITH Scenarios <- Windows, Names <- {1}, SegmentAfter <- 9,
                ReuseNames <- FALSE, EmptyElsewhere <- TRUE, keep <- v1, cadence <- v2, client <- v3, log <- v4,
                committed <- v5, truth <- v6, applied <- v7, ns <- v8, disk <- v9, ckpt <- v10, live <- v11,
                batch <- v12, pins <- v13, dead <- v14, leases <- v15, pub <- v16, blocks <- v17, faults <- v18

ASSUME Protection!ConstantsOK

\* Restarts of the peer with late descriptors, duplicates at the edge of the replay window, cancelled calls, calls
\* that share a dial.
EndpointOf == ("control" :> "main") @@ ("raft" :> "main") @@ ("bulk" :> "main") @@ ("data" :> "data")
Link(lanes, r, d, g, k, t) ==
    [lane |-> lanes, restarts |-> r, duplicates |-> d, gossips |-> g, cancels |-> k, ticks |-> t]
LinkScenarios == {Link(<<"control", "raft">>, 1, 1, 0, 0, 1), Link(<<"data", "control">>, 1, 0, 1, 1, 0),
                  Link(<<"control", "control">>, 1, 0, 1, 0, 0), Link(<<"control", "control", "control">>, 1, 0, 0, 0, 0),
                  Link(<<"bulk", "control", "bulk">>, 0, 0, 0, 1, 0), Link(<<"control", "control", "control">>, 0, 1, 0, 0, 1)}
TransportIdle == NetworkInit /\ scenario = CHOOSE s \in Scenarios : TRUE

\* A chain of peers with the block at its end: an outage, a drop, a provider out of reach but for a relay; records
\* that expire, are swept and renewed.
Peers == {"h", "a", "b", "c"}
Everywhere == {{x, y} : x, y \in Peers}
Buckets == ("h" :> 0) @@ ("a" :> 1) @@ ("b" :> 1) @@ ("c" :> 1)
Know(h, a, b, c) == ("h" :> h) @@ ("a" :> a) @@ ("b" :> b) @@ ("c" :> c)
Held(friends, holders, linked, t, o, d, s, r) ==
    [peers |-> friends, holders |-> holders, linked |-> linked, publishers |-> {"c"}, ticks |-> t, outages |-> o, drops |-> d,
     sweeps |-> s, renewals |-> r, race |-> FALSE]
InLine == Know({"a"}, {"h", "b"}, {"a", "c"}, {"b"})
DirectoryScenarios ==
    {Held(InLine, {"c"}, Everywhere, 0, 1, 0, 0, 0), Held(InLine, {"b", "c"}, Everywhere \ {{"h", "c"}}, 0, 0, 1, 0, 0),
     Held(Know({"a", "b"}, {"h", "c"}, {"h"}, {"a"}), {"c"}, Everywhere \ {{"h", "c"}}, 2, 0, 0, 1, 0),
     Held(Know({}, {"c"}, {"c"}, {"a", "b"}), {"c"}, Everywhere, 3, 0, 0, 1, 1)}
Directory == INSTANCE NetworkDirectory WITH Nodes <- Peers, Home <- "h", Bucket <- Buckets, BucketSize <- 2,
               Alpha <- 2, LookupLimit <- 4, TTL <- 2, Scenarios <- DirectoryScenarios, up <- v1, clock <- v2,
               blocks <- v3, peers <- v4, nodes <- v5, records <- v6, announcing <- v7, sweep <- v8, look <- v9,
               fetch <- v10, accepted <- v11, steady <- v12, stable <- v13, faults <- v14, scenario <- v15

\* Two data shards and a parity: each transfer plan with an outage, lost answers, maps that are being installed and
\* a repair; whole reads, ranges over one and over both data shards.
ShardOwner == <<(0 :> "a") @@ (1 :> "b") @@ (2 :> "c"), (0 :> "b") @@ (1 :> "b") @@ (2 :> "c")>>
Coded(plan, o, l, m, x, r) == [plan |-> plan, outages |-> o, losses |-> l, installs |-> m, exceptions |-> x, range |-> r]
ErasureScenarios ==
    {Coded("gateway", 1, 0, 1, 1, <<>>), Coded("parity", 1, 1, 0, 0, <<2, 3>>), Coded("hierarchy", 1, 1, 2, 0, <<1, 2>>),
     Coded("pipeline", 1, 1, 0, 0, <<>>), Coded("gateway", 2, 0, 0, 1, <<>>)}
Erasure == INSTANCE ErasureStripes WITH Nodes <- {"a", "b", "c", "g"}, Gateway <- "g", Reader <- "g", K <- 2, M <- 1,
             Size <- 3, Owner <- ShardOwner, Keepers <- {"a", "c"}, Factor <- 2, MaxHops <- 2,
             Scenarios <- ErasureScenarios, up <- v1, blocks <- v2, maps <- v3, write <- v4, execs <- v5,
             manifest <- v6, excepted <- v7, read <- v8, used <- v9, scenario <- v10

shared == <<v1, v2, v3, v4, v5, v6, v7, v8, v9, v10, v11, v12, v13, v14, v15, v16, v17, v18>>

ClusterInit ==
    \/ component = "protection" /\ Protection!Init /\ TransportIdle
    \/ component = "transport" /\ NetworkInit
         /\ v1 = 0 /\ v2 = 0 /\ v3 = 0 /\ v4 = 0 /\ v5 = 0 /\ v6 = 0 /\ v7 = 0 /\ v8 = 0 /\ v9 = 0 /\ v10 = 0
         /\ v11 = 0 /\ v12 = 0 /\ v13 = 0 /\ v14 = 0 /\ v15 = 0 /\ v16 = 0 /\ v17 = 0 /\ v18 = 0
    \/ component = "directory" /\ Directory!Init /\ TransportIdle
         /\ v16 = 0 /\ v17 = 0 /\ v18 = 0
    \/ component = "erasure" /\ Erasure!Init /\ TransportIdle
         /\ v11 = 0 /\ v12 = 0 /\ v13 = 0 /\ v14 = 0 /\ v15 = 0 /\ v16 = 0 /\ v17 = 0 /\ v18 = 0

ClusterNext ==
    \/ component = "protection" /\ Protection!Next /\ UNCHANGED <<networkVars, component>>
    \/ component = "transport" /\ NetworkNext /\ UNCHANGED <<shared, component>>
    \/ component = "directory" /\ Directory!Next /\ UNCHANGED <<v16, v17, v18, networkVars, component>>
    \/ component = "erasure" /\ Erasure!Next /\ UNCHANGED <<v11, v12, v13, v14, v15, v16, v17, v18, networkVars,
         component>>

ClusterSpec == ClusterInit /\ [][ClusterNext]_<<shared, networkVars, component>>

(* The state of the part that runs has its type.                           *)
PartsTypeOK ==
    /\ component = "protection" => Protection!TypeOK
    /\ component = "transport" => NetworkTypeOK
    /\ component = "directory" => Directory!TypeOK
    /\ component = "erasure" => Erasure!TypeOK

(* Namespace protection (see NamespaceProtection): the roots that the      *)
(* applied state protects, and the values whose publication may still      *)
(* commit, are out of reach of collection; a replica whose retention       *)
(* reaches back as far as its record lags replays to the group's state and *)
(* asks for no pin it has released.                                        *)
ProtectionSound ==
    component = "protection" => Protection!ProtectedRootsCovered /\ Protection!PublishedValueKept /\
                                 Protection!ReplayWithinRetention /\ Protection!ReconcilerFree

(* The network's directory: an undisturbed lookup finds every provider, a  *)
(* fetch gives up only if no peer has the block, an accepted record stays  *)
(* until it expires.                                                       *)
DirectorySound == component = "directory" => Directory!DirectorySound

(* Erasure-coded objects (see ErasureStripes): an answered object has      *)
(* every shard at its owner, a read returns the bytes with any K shards.   *)
ErasureSound == component = "erasure" => Erasure!ErasureSound
=============================================================================
