--------------------------- MODULE ErasureStripes ---------------------------
(***************************************************************************)
(* An erasure-coded object of pepper-agent (main.rs): a gateway cuts it    *)
(* into K data and M parity shards and stores them by one of four transfer *)
(* plans, of which three leave part of the work to other nodes and fall    *)
(* back to the first; then the manifest is replicated.  Readers collect    *)
(* shards with hedges and reconstruct, or read a range straight from the   *)
(* data shards.                                                            *)
(*                                                                         *)
(* One stripe.  A byte is its position in the stripe, 0 the padding; a     *)
(* parity shard is a model value per index.  Reed-Solomon is external: any *)
(* K shards give the others.  A node keeps the blocks it has stored while  *)
(* it is down.                                                             *)
(***************************************************************************)
EXTENDS Naturals, Sequences, FiniteSets, FiniteSetsExt, SequencesExt

CONSTANTS
    Nodes, Gateway, Reader,
    K, M,               \* data_shards, parity_shards
    Size,               \* encoded bytes of the stripe
    Owner,              \* [epoch -> [index -> node]]: the placement of the shards
    Keepers,            \* the nodes that the manifest's placement selects
    Factor,             \* replication factor of the manifest
    MaxHops,            \* pipeline_max_hops
    Scenarios           \* plan; outages, losses (answers), installs (maps), exceptions, ranges: how many; range: what is read

VARIABLES
    up, blocks,         \* nodes that run; [Nodes -> blocks stored]
    maps,               \* [Nodes -> epochs loaded]
    write,              \* the gateway's request: pc, epoch, plan, left, receipts, calm
    execs,              \* requests at executors: a chain, the first is the gateway's
    manifest,           \* [epoch, status] once the write is answered
    excepted,           \* [index -> node that a placement exception names]
    read,               \* the reader's request
    used, scenario

vars == <<up, blocks, maps, write, execs, manifest, excepted, read, used, scenario>>

None == "none"
Indices == 0 .. K + M - 1
Data == 0 .. K - 1
Parity == K .. K + M - 1
\* encode_and_store_erasure_stripe(): geometry
ShardSize == LET s == (Size + K - 1) \div K IN IF s = 0 THEN 1 ELSE s
\* adaptive_systematic_shards(), and a stand-in for the parity
Systematic(i) == [k \in 1 .. ShardSize |-> IF i * ShardSize + k <= Size THEN i * ShardSize + k ELSE 0]
Shard(i) == IF i \in Data THEN Systematic(i) ELSE [k \in 1 .. ShardSize |-> 100 + i]
ManifestBlock == <<>>
Logical == [k \in 1 .. Size |-> k]

NoWrite == [pc |-> "new", epoch |-> 0, plan |-> "gateway", left |-> {}, receipts |-> <<>>, calm |-> TRUE]
NoRead == [pc |-> "new", fetching |-> {}, got |-> {}, next |-> K, hedged |-> FALSE, missed |-> {}, result |-> <<>>, range |-> FALSE]
NoManifest == [epoch |-> 0, status |-> None]

TypeOK ==
    /\ up \subseteq Nodes /\ write.left \subseteq Indices /\ DOMAIN excepted \subseteq Indices
    /\ write.pc \in {"new", "transfer", "remote", "fallback", "manifest", "ok", "failed"}
    /\ read.pc \in {"new", "range", "shards", "ok", "failed"} /\ read.got \subseteq Indices

Init ==
    /\ scenario \in Scenarios
    /\ up = Nodes /\ blocks = [n \in Nodes |-> {}] /\ maps = [n \in Nodes |-> {1}]
    /\ write = NoWrite /\ execs = <<>> /\ manifest = NoManifest /\ excepted = <<>> /\ read = NoRead
    /\ used = [outages |-> 0, losses |-> 0, installs |-> 0, exceptions |-> 0]

Use(kind) == used[kind] < scenario[kind] /\ used' = [used EXCEPT ![kind] = @ + 1]
Current(n) == Max(maps[n])
Store(n, b) == blocks' = [blocks EXCEPT ![n] = @ \cup {b}]

----------------------------------------------------------------------------
(* The write.                                                              *)

Begin ==
    /\ write.pc = "new"
    /\ write' = [write EXCEPT !.pc = "transfer", !.epoch = Current(Gateway), !.plan = scenario.plan, !.calm = up = Nodes,
                              !.left = CASE scenario.plan = "gateway" -> Indices [] scenario.plan = "parity" -> Data
                                         [] OTHER -> {}]
    /\ UNCHANGED <<up, blocks, maps, execs, manifest, excepted, read, used, scenario>>

\* store_erasure_shard(): at the owner of its index, and nowhere else
Receipt(i, n) == [index |-> i, node |-> n]
Received(rs) == {rs[k].index : k \in DOMAIN rs}
StoreShard(i) ==
    LET n == Owner[write.epoch][i] IN
    /\ write.pc \in {"transfer", "fallback"} /\ i \in write.left /\ n \in up
    /\ Store(n, Shard(i))
    /\ write' = [write EXCEPT !.left = @ \ {i}, !.receipts = Append(@, Receipt(i, n))]
    /\ UNCHANGED <<up, maps, execs, manifest, excepted, read, used, scenario>>
\* one that fails ends the plan; another plan than the gateway's own is tried again as that, from the start
ForgetParity(w) == [w EXCEPT !.pc = "fallback", !.left = Parity]
Fallback(w) ==
    IF w.pc # "fallback" /\ w.plan # "gateway" THEN [w EXCEPT !.pc = "fallback", !.left = Indices, !.receipts = <<>>]
    ELSE [w EXCEPT !.pc = "failed", !.left = {}]
StoreFails(i) ==
    /\ write.pc \in {"transfer", "fallback"} /\ i \in write.left /\ Owner[write.epoch][i] \notin up
    /\ write' = Fallback(write)
    /\ UNCHANGED <<up, blocks, maps, execs, manifest, excepted, read, used, scenario>>

\* choose_erasure_coordinator() and choose_hierarchical_coordinator(): an owner of data, another node if there is one
Coordinator(e) == LET os == {Owner[e][i] : i \in Data} IN CHOOSE n \in os : n # Gateway \/ os = {Gateway}
\* remote_transfer_shards(): the owners of data in order, the gateway last
Hops(e) ==
    LET away == {i \in Data : Owner[e][i] # Gateway}
        all == SetToSortSeq(away, LAMBDA x, y : x < y) \o SetToSortSeq(Data \ away, LAMBDA x, y : x < y)
    IN SubSeq(all, 1, IF Len(all) < MaxHops THEN Len(all) ELSE MaxHops)
Exec(n, is, tail) == [at |-> n, fetch |-> FALSE, left |-> is, done |-> <<>>, last |-> tail, state |-> "run"]
Chain(e) == LET hs == Hops(e) IN
            [k \in DOMAIN hs |-> Exec(Owner[e][hs[k]], IF k = Len(hs) THEN {hs[k]} \cup (Indices \ Range(hs)) ELSE {hs[k]}, k = Len(hs))]
\* the request to the executor or the first hop; without one elsewhere the plan fails
Ingress == IF write.plan = "pipeline" THEN Owner[write.epoch][Hops(write.epoch)[1]] ELSE Coordinator(write.epoch)
Elsewhere == Ingress # Gateway \/ write.plan = "parity"
AskExecutor ==
    LET e == write.epoch IN
    /\ write.pc = "transfer" /\ write.plan # "gateway" /\ write.left = {}
    /\ write' = IF Elsewhere THEN [write EXCEPT !.pc = "remote"] ELSE Fallback(write)
    /\ execs' = CASE ~Elsewhere -> execs
                  [] write.plan = "parity" -> <<[Exec(Ingress, Parity, TRUE) EXCEPT !.fetch = TRUE]>>
                  [] write.plan = "hierarchy" -> <<Exec(Ingress, Indices, TRUE)>>
                  [] write.plan = "pipeline" -> Chain(e)
    /\ UNCHANGED <<up, blocks, maps, manifest, excepted, read, used, scenario>>

----------------------------------------------------------------------------
(* Executors; the request names the epoch, and all its hops run at once.   *)

SetExec(k, x) == execs' = [execs EXCEPT ![k] = x]
Running(k) == execs[k].state = "run" /\ execs[k].at \in up
Behind(k) == IF execs[k].last THEN "ok" ELSE execs[k + 1].state
Holds(n, i) == n \in up /\ Shard(i) \in blocks[n]
\* get_block_at_placement(): the owner, then the nodes of an exception; the same for a part of a block
AtException(i) == i \in DOMAIN excepted /\ Holds(excepted[i], i)
Reachable(e, i) == Holds(Owner[e][i], i) \/ AtException(i)
RangeHeld(n, i) == n \in up /\ Shard(i) \in blocks[n]
RangeReachable(e, i) == RangeHeld(Owner[e][i], i) \/ (i \in DOMAIN excepted /\ RangeHeld(excepted[i], i))

\* execute_distributed_parity(): the data shards first
ExecFetch(k) ==
    /\ Running(k) /\ execs[k].fetch
    /\ SetExec(k, IF write.epoch \in maps[execs[k].at] /\ \A i \in Data : Reachable(write.epoch, i)
                  THEN [execs[k] EXCEPT !.fetch = FALSE] ELSE [execs[k] EXCEPT !.state = "failed"])
    /\ UNCHANGED <<up, blocks, maps, write, manifest, excepted, read, used, scenario>>
\* adaptive_store_shard(): the epoch must be loaded here
ExecStore(k, i) ==
    LET x == execs[k] n == Owner[write.epoch][i] IN
    /\ Running(k) /\ ~x.fetch /\ i \in x.left
    /\ IF write.epoch \in maps[x.at] /\ n \in up
       THEN Store(n, Shard(i)) /\ SetExec(k, [x EXCEPT !.left = @ \ {i}, !.done = Append(@, Receipt(i, n))])
       ELSE SetExec(k, [x EXCEPT !.state = "failed"]) /\ UNCHANGED blocks
    /\ UNCHANGED <<up, maps, write, manifest, excepted, read, used, scenario>>
\* a hop answers with what the next one answered and its own shard
ExecDone(k) ==
    LET x == execs[k] IN
    /\ Running(k) /\ ~x.fetch /\ x.left = {} /\ Behind(k) = "ok"
    /\ SetExec(k, [x EXCEPT !.state = "ok", !.done = IF x.last THEN @ ELSE execs[k + 1].done \o @])
    /\ UNCHANGED <<up, blocks, maps, write, manifest, excepted, read, used, scenario>>
ExecFails(k) ==
    /\ execs[k].state = "run"
    /\ execs[k].at \notin up \/ Behind(k) = "failed"
    /\ SetExec(k, [execs[k] EXCEPT !.state = "failed"])
    /\ UNCHANGED <<up, blocks, maps, write, manifest, excepted, read, used, scenario>>

\* validate_adaptive_response(): every expected index once, from its owner
Expected == IF write.plan = "parity" THEN Parity ELSE Indices
ValidResponse(rs) ==
    /\ Len(rs) = Cardinality(Expected) /\ Received(rs) = Expected
    /\ \A k \in DOMAIN rs : rs[k].node = Owner[write.epoch][rs[k].index]
Answered ==
    /\ write.pc = "remote" /\ execs[1].state \in {"ok", "failed"}
    /\ write' = IF execs[1].state = "ok" /\ ValidResponse(execs[1].done)
                THEN [write EXCEPT !.pc = "transfer", !.plan = "gateway", !.receipts = @ \o execs[1].done] ELSE Fallback(write)
    /\ UNCHANGED <<up, blocks, maps, execs, manifest, excepted, read, used, scenario>>
\* the answer does not come; the executors go on
AnswerLost ==
    /\ write.pc = "remote" /\ Use("losses") /\ write' = Fallback(write)
    /\ UNCHANGED <<up, blocks, maps, execs, manifest, excepted, read, scenario>>

\* shards_for_manifest(): indices complete; then put_replicated_block() of the manifest
Complete(rs) == Len(rs) = K + M /\ Received(rs) = Indices
WriteManifest ==
    /\ write.pc \in {"transfer", "fallback"} /\ write.left = {} /\ (write.plan = "gateway" \/ write.pc = "fallback")
    /\ write' = IF Complete(write.receipts) THEN [write EXCEPT !.pc = "manifest", !.left = {}] ELSE [write EXCEPT !.pc = "failed"]
    /\ UNCHANGED <<up, blocks, maps, execs, manifest, excepted, read, used, scenario>>
\* put_replicated_block_with_placement_map(): every target is tried; those that acknowledge must be enough
Acked == {n \in Keepers : ManifestBlock \in blocks[n]}
Reaches == Cardinality(Acked') >= Factor
Distinct(rs) == Cardinality({rs[k].node : k \in DOMAIN rs})
Replicate ==
    /\ write.pc = "manifest"
    /\ blocks' = [n \in Nodes |-> IF n \in Keepers \cap up THEN blocks[n] \cup {ManifestBlock} ELSE blocks[n]]
    /\ write' = [write EXCEPT !.pc = IF Reaches THEN "ok" ELSE "failed"]
    /\ manifest' = IF Reaches THEN [epoch |-> write.epoch, status |-> IF Distinct(write.receipts) >= K + M THEN "durable" ELSE "degraded"]
                   ELSE manifest
    /\ UNCHANGED <<up, maps, execs, excepted, read, used, scenario>>

----------------------------------------------------------------------------
(* Reads.                                                                  *)

Needed == LET r == scenario.range IN (r[1] - 1) \div ShardSize .. (r[2] - 1) \div ShardSize
Missed == {i \in Indices : ~Reachable(manifest.epoch, i)}
\* the manifest comes from any node that holds it
ReadBegin ==
    /\ read.pc = "new" /\ write.pc = "ok" /\ \E n \in up : ManifestBlock \in blocks[n]
    /\ read' = [read EXCEPT !.pc = IF scenario.range # <<>> THEN "range" ELSE "shards", !.range = scenario.range # <<>>,
                            !.fetching = IF scenario.range # <<>> THEN Needed ELSE Data, !.missed = Missed]
    /\ UNCHANGED <<up, blocks, maps, write, execs, manifest, excepted, used, scenario>>
Slice(bytes) == IF read.range THEN SubSeq(bytes, scenario.range[1], scenario.range[2]) ELSE bytes
Finish(r, bytes) == [r EXCEPT !.pc = "ok", !.result = bytes, !.fetching = {}]
\* read_raw_systematic_erasure_range(): the overlaps of the shards; if one is missing, the stripe is reconstructed
Overlap(i) == LET lo == IF scenario.range[1] > i * ShardSize THEN scenario.range[1] - i * ShardSize ELSE 1
                  hi == IF scenario.range[2] < (i + 1) * ShardSize THEN scenario.range[2] - i * ShardSize ELSE ShardSize
              IN SubSeq(Shard(i), lo, hi)
RangeFetched(i) ==
    /\ read.pc = "range" /\ i \in read.fetching
    /\ read' = IF ~RangeReachable(manifest.epoch, i) THEN [read EXCEPT !.pc = "shards", !.fetching = Data, !.got = {}]
               ELSE IF read.fetching = {i} THEN Finish(read, FlattenSeq([k \in 1 .. Cardinality(Needed) |-> Overlap(Min(Needed) + k - 1)]))
               ELSE [read EXCEPT !.fetching = @ \ {i}, !.got = @ \cup {i}]
    /\ UNCHANGED <<up, blocks, maps, write, execs, manifest, excepted, used, scenario>>
\* read_erasure_data_shards(): until enough shards have come; a parity shard at a time when all others have answered
Enough(got) == Cardinality(got) >= K
\* data as it is, or out of any K; reconstruct_erasure_stripe_bytes() joins and truncates
Decoded(got) == FlattenSeq([k \in 1 .. K |-> IF k - 1 \in got \/ Cardinality(got) >= K THEN Systematic(k - 1)
                                             ELSE [j \in 1 .. ShardSize |-> 0]])
Proceed(r) == IF Enough(r.got) THEN Finish(r, Slice(SubSeq(Decoded(r.got), 1, Size)))
              ELSE IF r.fetching # {} THEN r
              ELSE IF r.next <= K + M - 1 THEN [r EXCEPT !.fetching = {r.next}, !.next = @ + 1]
              ELSE [r EXCEPT !.pc = "failed"]
ShardFetched(i) ==
    /\ read.pc = "shards" /\ i \in read.fetching
    /\ read' = Proceed([read EXCEPT !.fetching = @ \ {i}, !.got = IF Reachable(manifest.epoch, i) THEN @ \cup {i} ELSE @])
    /\ UNCHANGED <<up, blocks, maps, write, execs, manifest, excepted, used, scenario>>
\* one hedge, when the answers are slow
Hedge ==
    /\ read.pc = "shards" /\ ~read.hedged /\ read.fetching # {} /\ read.next <= K + M - 1
    /\ read' = [read EXCEPT !.hedged = TRUE, !.fetching = @ \cup {read.next}, !.next = @ + 1]
    /\ UNCHANGED <<up, blocks, maps, write, execs, manifest, excepted, used, scenario>>

----------------------------------------------------------------------------
(* The surroundings.                                                       *)

Down(n) ==
    /\ n \in up \ {Gateway, Reader} /\ Use("outages")
    /\ up' = up \ {n} /\ write' = [write EXCEPT !.calm = FALSE]
    /\ UNCHANGED <<blocks, maps, execs, manifest, excepted, scenario>>
    /\ read' = [read EXCEPT !.missed = IF read.pc \in {"range", "shards"} THEN @ \cup Missed' ELSE @]
Return(n) ==
    /\ n \in Nodes \ up /\ up' = up \cup {n}
    /\ UNCHANGED <<blocks, maps, write, execs, manifest, excepted, read, used, scenario>>
\* install_map(): a new epoch, one node after the other
Install(n) ==
    /\ 2 \notin maps[n] /\ Use("installs") /\ maps' = [maps EXCEPT ![n] = @ \cup {2}]
    /\ write' = [write EXCEPT !.calm = FALSE]
    /\ UNCHANGED <<up, blocks, execs, manifest, excepted, read, scenario>>
\* repair gives a shard whose owner is down to another node, with a placement exception
Except(i, n) ==
    /\ manifest # NoManifest /\ Owner[manifest.epoch][i] \notin up /\ n \in up /\ Use("exceptions")
    /\ Cardinality({j \in Indices : Reachable(manifest.epoch, j)}) >= K
    /\ Store(n, Shard(i)) /\ excepted' = [j \in DOMAIN excepted \cup {i} |-> IF j = i THEN n ELSE excepted[j]]
    /\ UNCHANGED <<up, maps, write, execs, manifest, read, scenario>>

Next ==
    \/ Begin \/ AskExecutor \/ Answered \/ AnswerLost \/ WriteManifest \/ Replicate \/ ReadBegin \/ Hedge
    \/ \E i \in Indices : StoreShard(i) \/ StoreFails(i) \/ RangeFetched(i) \/ ShardFetched(i) \/ \E n \in Nodes : Except(i, n)
    \/ \E k \in DOMAIN execs : ExecFetch(k) \/ ExecDone(k) \/ ExecFails(k) \/ \E i \in Indices : ExecStore(k, i)
    \/ \E n \in Nodes : Down(n) \/ Return(n) \/ Install(n)
Spec == Init /\ [][Next]_vars

----------------------------------------------------------------------------
(* An object that was answered has every shard at the owner that its manifest's epoch names, whichever plan and *)
(* however much of another plan stored them; if it is called durable, on as many nodes as there are shards.     *)
AnsweredStored ==
    manifest # NoManifest =>
        /\ \A i \in Indices : Shard(i) \in blocks[Owner[manifest.epoch][i]]
        /\ Cardinality(Acked) >= Factor
        /\ manifest.status = "durable" <=> Cardinality({Owner[manifest.epoch][i] : i \in Indices}) = K + M
(* A read returns the bytes asked for, with any K shards; it fails only if more shards than there are parities were *)
(* out of reach at some time while it ran. *)
ReadsExact == read.pc = "ok" => read.result = Slice(Logical)
ReadSurvives == read.pc = "failed" => Cardinality(read.missed) > M
(* A write fails only if a node was down, a map was being installed or an answer was lost. *)
CalmWrites == write.pc = "failed" /\ used.losses = 0 => ~write.calm
ErasureSound == AnsweredStored /\ ReadsExact /\ ReadSurvives /\ CalmWrites
=============================================================================
