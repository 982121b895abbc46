----------------------------- MODULE MCServices -----------------------------
(***************************************************************************)
(* Model checking of the node's storage and services, each by itself: the  *)
(* keyed runtime, the native engine, the block store, the S3 gateway's     *)
(* buckets, objects and multipart uploads, the SQLite writers, placement   *)
(* repair, the packs of small objects and the compute jobs. Only one of    *)
(* them runs in a behaviour, chosen by the initial state; the keyed        *)
(* runtime and the multipart uploads have variables of their own, and the  *)
(* others share v1, v2, ...                                                *)
(***************************************************************************)
EXTENDS S3Multipart, KeyedRuntime, TLC

CONSTANTS d1, d2, g1, g2, s1, s2, adm, Threads, Cids, SegmentSlots, MaxGeneration, MaxPuts, MaxDeletes, NormalLimit,
          MaxCalls, KeyCount, MaxChanges, MaxStops, MaxCuts, Lease, Wait, MaxWaiters, MaxAttempts, LeaseTime,
          ExceptionTime, RenewalWindow, MaxGroup, DeadMin, MaxCopies

VARIABLES v1, v2, v3, v4, v5, v6, v7, v8, v9, v10, v11, v12, v13, v14, v15, v16, v17, v18, v19, v20, v21, component

\* Two dispatchers of one key and a remap of its slot.
DispatchCalls == <<[by |-> d1, key |-> 0, class |-> "F"], [by |-> d1, key |-> 0, class |-> "B"],
                   [by |-> d2, key |-> 0, class |-> "F"]>>
Limits == ("F" :> 2) @@ ("B" :> 1)
Cycle == <<"F", "B">>
RuntimeIdle == KeyedInit

\* Two crashes, or a failed barrier; never a crash within a compaction's unlinking.
EngineScenarios == {[crashes |-> 2, failures |-> 0, torn |-> FALSE], [crashes |-> 0, failures |-> 1, torn |-> FALSE]}
Engine == INSTANCE NativeEngine WITH Scenarios <- EngineScenarios, disk <- v1, writer <- v2, index <- v3, next <- v4,
            call <- v5, up <- v6, ackedPut <- v7, ackedDelete <- v8, puts <- v9, deletes <- v10, scenario <- v11

\* A block of each kind; a failed barrier with a restart and a power loss, or with a damaged file.
BlockKinds == ("f" :> "file") @@ ("n" :> "native") @@ ("i" :> "inline")
StoreScenarios ==
    {[duplicates |-> FALSE, lateMarks |-> FALSE, restarts |-> 1, crashes |-> 1, failures |-> 1, corruptions |-> 0],
     [duplicates |-> FALSE, lateMarks |-> FALSE, restarts |-> 0, crashes |-> 0, failures |-> 1, corruptions |-> 1]}
Store == INSTANCE BlockStore WITH Blocks <- {"f", "n", "i"}, Kind <- BlockKinds, Scenarios <- StoreScenarios,
           meta <- v1, payload <- v2, disk <- v3, used <- v4, writeLock <- v5, call <- v6, kept <- v7, unbarred <- v8,
           calls <- v9, scenario <- v10

\* One gateway repartitions, without cached read routes; or none does, with them.
Sent(g, op, k) == [gw |-> g, op |-> op, key |-> k]
ObjectRequests == <<Sent(g1, "put", 1), Sent(g2, "replace", 1), Sent(g1, "get", 1), Sent(g1, "create", 2),
                    Sent(g1, "delete", 1), Sent(g2, "put", 2), Sent(g2, "replace", 1)>>
ObjectScenarios == {[sent |-> {1, 3, 6}, changers |-> {g1}, cached |-> FALSE],
                    [sent |-> {1, 2, 5}, changers |-> {g1}, cached |-> FALSE],
                    [sent |-> {1, 2, 3, 4, 7}, changers |-> {}, cached |-> TRUE]}
Objects == INSTANCE S3Objects WITH Requests <- ObjectRequests, Scenarios <- ObjectScenarios, Gateways <- {g1, g2},
             map <- v1, spaces <- v2, routes <- v3, heads <- v4, req <- v5, admin <- v6, clock <- v7, acked <- v8,
             claims <- v9, stale <- v10, scenario <- v11, changes <- v12, stops <- v13

\* Three parts where two fit, a Complete and an Abort; or two Completes and a PutObject.
PartList == <<[part |-> 1, content |-> "a"], [part |-> 2, content |-> "b"]>>
Part(op, p, c, list) == [op |-> op, part |-> p, content |-> c, list |-> list]
UploadRequests == <<Part("part", 1, "a", <<>>), Part("part", 2, "b", <<>>), Part("part", 3, "a", <<>>),
                    Part("complete", 1, "a", PartList), Part("complete", 1, "a", PartList),
                    Part("abort", 1, "a", <<>>), Part("put", 1, "a", <<[part |-> 1, content |-> "n"]>>)>>
UploadScenarios == {{1, 2, 3, 4, 6}, {1, 2, 4, 5, 7}}
MultipartIdle == MultipartInit /\ req = [r \in Ids |-> Idle(IF r \in (CHOOSE s \in Scenarios : TRUE) THEN "new" ELSE "failed")]

\* Creates that are cut off and repeated; a bucket deleted and created again; two gateways.
BucketRequests == <<[gw |-> g1, op |-> "create"], [gw |-> g1, op |-> "create"], [gw |-> g1, op |-> "put"],
                    [gw |-> g1, op |-> "remove"], [gw |-> g1, op |-> "delete"], [gw |-> g1, op |-> "create"],
                    [gw |-> g2, op |-> "create"]>>
Buckets == INSTANCE S3Buckets WITH Requests <- BucketRequests,
             Scenarios <- {{1, 2, 3, 6}, {1, 2, 3, 4, 5, 6}, {1, 7}}, catalog <- v1, control <- v2, data <- v3,
             lock <- v4, req <- v5, orphans <- v6, overlap <- v7, cuts <- v8

\* Two files that write, or one and a compaction or rollback: with an election, with time for a lease
\* to end, with lost requests and answers, with a file that is closed and locked again.
Lockings(n1, n2, n3) == {[by |-> s1, n |-> i] : i \in 1 .. n1} \cup {[by |-> s2, n |-> i] : i \in 1 .. n2}
                          \cup {[by |-> adm, n |-> i] : i \in 1 .. n3}
Writers(acqs, c, t, h, l) ==
    [stale |-> FALSE, overlap |-> FALSE, acqs |-> acqs, closes |-> c, terms |-> t, time |-> h, losses |-> l]
SqliteScenarios == {Writers(Lockings(1, 1, 0), 0, 2, 1, 0), Writers(Lockings(1, 1, 0), 0, 1, 1, 1),
                    Writers(Lockings(2, 0, 0), 0, 1, 2, 1), Writers(Lockings(1, 0, 1), 0, 2, 0, 1),
                    Writers(Lockings(1, 0, 1), 0, 1, 2, 1), Writers(Lockings(2, 1, 0), 1, 1, 1, 0),
                    Writers(Lockings(1, 1, 0), 0, 1, 2, 0)}
Sqlite == INSTANCE SqliteSessions WITH Files <- {s1, s2}, Admins <- {adm},
            Acquisitions <- [by : {s1, s2, adm}, n : 1 .. 2], Scenarios <- SqliteScenarios, history <- v1, now <- v2,
            term <- v3, coord <- v4, mutex <- v5, file <- v6, held <- v7, session <- v8, pc <- v9, seen <- v10,
            beat <- v11, job <- v12, outcome <- v13, losses <- v14, closes <- v15, scenario <- v16

\* Two copies of a block on three nodes: two owners that race for a lost copy; an outage and a loss; an outage, an
\* exception and its collection; two lost copies and a collection; outages, elections and epochs while events are handed out.
RepairEvents == <<[block |-> "x", canonical |-> {"na", "nb"}], [block |-> "y", canonical |-> {"nb", "nc"}]>>
RepairOwners == <<<<{"na", "nb"}, {"nb", "nc"}>>, <<{"nb", "nc"}, {"nb", "nc"}>>>>
Faults(t, o, l, ep, ld, ad) == [time |-> t, outages |-> o, losses |-> l, epochs |-> ep, leaders |-> ld, admins |-> ad]
Repairs(sent, placed, passers, f) ==
    [sent |-> sent, placed |-> placed, passers |-> passers, passes |-> 1, stale |-> FALSE, race |-> FALSE] @@ f
RepairScenarios == {Repairs({1}, TRUE, {"na", "nb"}, Faults(2, 0, 1, 1, 0, 0)), Repairs({1}, TRUE, {"na"}, Faults(1, 1, 1, 1, 0, 0)),
                    Repairs({1}, TRUE, {"na"}, Faults(2, 1, 0, 1, 0, 1)), Repairs({1}, TRUE, {"nb"}, Faults(3, 1, 0, 1, 0, 1)),
                    Repairs({1}, TRUE, {}, Faults(2, 0, 2, 1, 0, 1)),
                    Repairs({1}, FALSE, {"nb"}, Faults(0, 1, 0, 2, 1, 0)), Repairs({1, 2}, FALSE, {}, Faults(0, 1, 0, 1, 0, 0))}
Repair == INSTANCE PlacementRepair WITH Nodes <- {"na", "nb", "nc"}, Voters <- {"na", "nb"}, Blocks <- {"x", "y"},
            Gateway <- "na", Events <- RepairEvents, Owners <- RepairOwners,
            Replacement <- <<<<"nc", "na">>, <<"nc", "na">>>>, MaxEpoch <- 2, Scenarios <- RepairScenarios,
            revision <- v1, key <- v2, base <- v3, leader <- v4, epoch <- v5, now <- v6, up <- v7, blocks <- v8,
            inventory <- v9, cursor <- v10, lease <- v11, exception <- v12, view <- v13, sync <- v14, pass <- v15,
            work <- v16, collect <- v17, admin <- v18, stored <- v19, faults <- v20, scenario <- v21

\* Objects that share an extent: one replaced, one put again, both deleted; two packers and a repartitioning.
Small(op, k, c) == [op |-> op, key |-> k, cid |-> c]
SmallRequests == <<Small("put", 1, "c"), Small("put", 1, "d"), Small("put", 2, "e"), Small("delete", 1, "c"),
                   Small("put", 1, "c"), Small("delete", 2, "e")>>
PackScenarios == [sent : {{1, 2, 3}, {1, 2, 5}, {1, 3, 4, 6}}, stale : {FALSE}, clears : {FALSE}]
Packs == INSTANCE SmallObjectPacks WITH Keys <- {1, 2}, Contents <- {"c", "d", "e"}, Requests <- SmallRequests,
           Packers <- {"p", "q"}, Scenarios <- PackScenarios, ns <- v1, raw <- v2, extents <- v3, req <- v4,
           pack <- v5, copies <- v6, scenario <- v7

\* One job with cancels, status requests, a restart and lost messages; two jobs that share a node's queue.
Run(sent, queue, slots, addresses, cancelers, polls, restarts, losses) ==
    [sent |-> sent, queue |-> queue, slots |-> slots, addresses |-> addresses, cancels |-> cancelers, polls |-> polls, restarts |-> restarts,
     losses |-> losses, race |-> FALSE, dup |-> FALSE]
JobScenarios == {Run({"j"}, 2, 1, 2, {"c"}, {"p"}, 1, 1), Run({"j"}, 1, 1, 1, {"c", "d"}, {"p"}, 0, 1),
                 Run({"i", "j"}, 2, 2, 1, {}, {}, 1, 0), Run({"i", "j"}, 2, 1, 1, {}, {}, 0, 1),
                 Run({"i", "j"}, 1, 1, 1, {"c"}, {}, 0, 0), Run({"i", "j"}, 1, 1, 1, {}, {}, 0, 1)}
SubmittedTo == ("i" :> "o") @@ ("j" :> "o")
JobHash == ("i" :> 0) @@ ("j" :> 0)
Compute == INSTANCE ComputeJobs WITH Nodes <- {"o", "e"}, Jobs <- {"i", "j"}, Origin <- SubmittedTo,
             HashOf <- JobHash, CidCount <- 3, Cancelers <- {"c", "d"}, Pollers <- {"p"}, Scenarios <- JobScenarios,
             rec <- v1, task <- v2, handle <- v3, lock <- v4, stream <- v5, sub <- v6, inbox <- v7, canc <- v8,
             poll <- v9, first <- v10, faults <- v11, scenario <- v12

shared == <<v1, v2, v3, v4, v5, v6, v7, v8, v9, v10, v11, v12, v13, v14, v15, v16, v17, v18, v19, v20, v21>>

ServicesInit ==
    \/ component = "runtime" /\ KeyedInit /\ MultipartIdle
         /\ v1 = 0 /\ v2 = 0 /\ v3 = 0 /\ v4 = 0 /\ v5 = 0 /\ v6 = 0 /\ v7 = 0 /\ v8 = 0 /\ v9 = 0 /\ v10 = 0
         /\ v11 = 0 /\ v12 = 0 /\ v13 = 0 /\ v14 = 0 /\ v15 = 0 /\ v16 = 0 /\ v17 = 0 /\ v18 = 0 /\ v19 = 0 /\ v20 = 0
         /\ v21 = 0
    \/ component = "engine" /\ Engine!Init /\ RuntimeIdle /\ MultipartIdle
         /\ v12 = 0 /\ v13 = 0 /\ v14 = 0 /\ v15 = 0 /\ v16 = 0 /\ v17 = 0 /\ v18 = 0 /\ v19 = 0 /\ v20 = 0 /\ v21 = 0
    \/ component = "store" /\ Store!Init /\ RuntimeIdle /\ MultipartIdle
         /\ v11 = 0 /\ v12 = 0 /\ v13 = 0 /\ v14 = 0 /\ v15 = 0 /\ v16 = 0 /\ v17 = 0 /\ v18 = 0 /\ v19 = 0 /\ v20 = 0
         /\ v21 = 0
    \/ component = "objects" /\ Objects!Init /\ RuntimeIdle /\ MultipartIdle
         /\ v14 = 0 /\ v15 = 0 /\ v16 = 0 /\ v17 = 0 /\ v18 = 0 /\ v19 = 0 /\ v20 = 0 /\ v21 = 0
    \/ component = "multipart" /\ MultipartInit /\ RuntimeIdle
         /\ v1 = 0 /\ v2 = 0 /\ v3 = 0 /\ v4 = 0 /\ v5 = 0 /\ v6 = 0 /\ v7 = 0 /\ v8 = 0 /\ v9 = 0 /\ v10 = 0
         /\ v11 = 0 /\ v12 = 0 /\ v13 = 0 /\ v14 = 0 /\ v15 = 0 /\ v16 = 0 /\ v17 = 0 /\ v18 = 0 /\ v19 = 0 /\ v20 = 0
         /\ v21 = 0
    \/ component = "buckets" /\ Buckets!Init /\ RuntimeIdle /\ MultipartIdle
         /\ v9 = 0 /\ v10 = 0 /\ v11 = 0 /\ v12 = 0 /\ v13 = 0 /\ v14 = 0 /\ v15 = 0 /\ v16 = 0 /\ v17 = 0 /\ v18 = 0
         /\ v19 = 0 /\ v20 = 0 /\ v21 = 0
    \/ component = "sqlite" /\ Sqlite!Init /\ RuntimeIdle /\ MultipartIdle
         /\ v17 = 0 /\ v18 = 0 /\ v19 = 0 /\ v20 = 0 /\ v21 = 0
    \/ component = "repair" /\ Repair!Init /\ RuntimeIdle /\ MultipartIdle
    \/ component = "packs" /\ Packs!Init /\ RuntimeIdle /\ MultipartIdle
         /\ v8 = 0 /\ v9 = 0 /\ v10 = 0 /\ v11 = 0 /\ v12 = 0 /\ v13 = 0 /\ v14 = 0 /\ v15 = 0 /\ v16 = 0 /\ v17 = 0
         /\ v18 = 0 /\ v19 = 0 /\ v20 = 0 /\ v21 = 0
    \/ component = "compute" /\ Compute!Init /\ RuntimeIdle /\ MultipartIdle
         /\ v13 = 0 /\ v14 = 0 /\ v15 = 0 /\ v16 = 0 /\ v17 = 0 /\ v18 = 0 /\ v19 = 0 /\ v20 = 0 /\ v21 = 0

ServicesNext ==
    \/ component = "runtime" /\ KeyedNext /\ UNCHANGED <<shared, multipartVars, component>>
    \/ component = "engine" /\ Engine!Next /\ UNCHANGED <<v12, v13, v14, v15, v16, v17, v18, v19, v20, v21, keyedVars,
         multipartVars, component>>
    \/ component = "store" /\ Store!Next /\ UNCHANGED <<v11, v12, v13, v14, v15, v16, v17, v18, v19, v20, v21,
         keyedVars, multipartVars, component>>
    \/ component = "objects" /\ Objects!Next /\ UNCHANGED <<v14, v15, v16, v17, v18, v19, v20, v21, keyedVars,
         multipartVars, component>>
    \/ component = "multipart" /\ MultipartNext /\ UNCHANGED <<shared, keyedVars, component>>
    \/ component = "buckets" /\ Buckets!Next /\ UNCHANGED <<v9, v10, v11, v12, v13, v14, v15, v16, v17, v18, v19, v20,
         v21, keyedVars, multipartVars, component>>
    \/ component = "sqlite" /\ Sqlite!Next /\ UNCHANGED <<v17, v18, v19, v20, v21, keyedVars, multipartVars,
         component>>
    \/ component = "repair" /\ Repair!Next /\ UNCHANGED <<keyedVars, multipartVars, component>>
    \/ component = "packs" /\ Packs!Next /\ UNCHANGED <<v8, v9, v10, v11, v12, v13, v14, v15, v16, v17, v18, v19, v20,
         v21, keyedVars, multipartVars, component>>
    \/ component = "compute" /\ Compute!Next /\ UNCHANGED <<v13, v14, v15, v16, v17, v18, v19, v20, v21, keyedVars,
         multipartVars, component>>

ServicesSpec == ServicesInit /\ [][ServicesNext]_<<shared, keyedVars, multipartVars, component>>

(* The state of the part that runs has its type.                           *)
PartsTypeOK ==
    /\ component = "runtime" => KeyedTypeOK
    /\ component = "engine" => Engine!TypeOK
    /\ component = "store" => Store!TypeOK
    /\ component = "objects" => Objects!TypeOK
    /\ component = "multipart" => MultipartTypeOK
    /\ component = "buckets" => Buckets!TypeOK
    /\ component = "sqlite" => Sqlite!TypeOK
    /\ component = "repair" => Repair!TypeOK
    /\ component = "packs" => Packs!TypeOK
    /\ component = "compute" => Compute!TypeOK

(* The native engine and the block store: an answered put is readable and  *)
(* an answered delete stays deleted, over crashes and compactions.         *)
StoredBlocksKept ==
    /\ component = "engine" => Engine!PutsKept /\ Engine!DeletedStaysDeleted
    /\ component = "store" => Store!AnsweredReadable

(* S3 objects and buckets: an acknowledged write is where its key is       *)
(* routed and a read returns at least it; a version is replaced by one If- *)
(* Match put; the map names the partition's fence and a deleted bucket is  *)
(* empty.                                                                  *)
ObjectsAndBucketsSound ==
    /\ component = "objects" => Objects!AckedWriteRouted /\ Objects!ReadAfterWrite /\ Objects!ReplacedOnce
    /\ component = "buckets" => Buckets!BucketsSound

(* SQLite: no update is lost, a ticket is honoured until its lease ends,   *)
(* and what SQLite is told of its commit is true.                          *)
SqliteSound == component = "sqlite" => Sqlite!SqliteSound

(* Repair: canonical copies and the last copy are never collected, an      *)
(* exception names a copy, no inventory event is forgotten, and a fence    *)
(* has one owner.                                                          *)
RepairSound == component = "repair" => Repair!RepairSound

(* Small objects: an object has a pending marker or an index entry, its    *)
(* content is where they say, and an extent without live records is found. *)
PacksSound == component = "packs" => Packs!PacksSound

(* Compute: an unfinished job has a task, an answered cancel has stopped   *)
(* its job, a final status stays and its proxy agrees, the node's limits   *)
(* hold.                                                                   *)
ComputeSound == component = "compute" => Compute!ComputeSound
=============================================================================
