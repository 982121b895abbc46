-------------------------- MODULE NetworkDirectory --------------------------
(***************************************************************************)
(* Who has a block (pepper-network lib.rs): provider records with an       *)
(* expiry in the metadata of every node, announcements, the lookup through *)
(* the peers of peers, the table of peers with its buckets, and the ways a *)
(* block is fetched: from a provider, through a relay, from any peer.      *)
(*                                                                         *)
(* One block and one node, Home, that looks for it.  Signatures hold, an   *)
(* address is its node.  The order in which a lookup asks (distances of    *)
(* ids, and of hashed addresses for later candidates) and which peers of a *)
(* full bucket a table keeps (connected, last seen) are left open.         *)
(***************************************************************************)
EXTENDS Naturals, FiniteSets

CONSTANTS
    Nodes, Home,
    Bucket,         \* [Nodes -> bucket] as Home sees them
    BucketSize,     \* KADEMLIA_BUCKET_SIZE
    Alpha, LookupLimit,
    TTL,            \* of a provider record
    Scenarios       \* peers, holders, linked (pairs that reach each other), publishers; ticks, outages, drops, sweeps,
                    \* renewals: how many; race: may a sweep overlap a renewal?

VARIABLES
    up, clock, blocks,
    peers,          \* [Nodes -> SUBSET Nodes]: the routing tables
    nodes,          \* [Nodes -> SUBSET Nodes]: the NODES tables, with public keys
    records,        \* [Nodes -> [Nodes -> expiry]]: the PROVIDERS tables; 0 is none
    announcing,     \* announcements under way
    sweep,          \* keys that a cleanup found expired
    look,           \* Home's lookup
    fetch,          \* Home's search for the block
    accepted,       \* the last record of a node that each node accepted
    steady,         \* nodes that could serve the block directly since the fetch began
    stable,         \* nothing disturbed the lookup since it began; what it then should find
    faults, scenario

world == <<up, clock, blocks>>
tables == <<peers, nodes, records, accepted>>
vars == <<world, tables, announcing, sweep, look, fetch, steady, stable, faults, scenario>>

NoLook == [pc |-> "idle", found |-> {}, queue |-> {}, queried |-> {}, active |-> {}, asked |-> {}]
NoFetch == [pc |-> "idle", left |-> {}, relay |-> "none", tried |-> {}, result |-> "none"]

TypeOK ==
    /\ up \subseteq Nodes /\ blocks \subseteq Nodes
    /\ \A n \in Nodes : peers[n] \subseteq nodes[n] /\ n \notin peers[n]
    /\ look.pc \in {"idle", "run", "done"} /\ look.active \subseteq look.queried
    /\ fetch.pc \in {"idle", "look", "direct", "relay", "probe", "done"}

Init ==
    /\ scenario \in Scenarios
    /\ up = Nodes /\ clock = 0 /\ blocks = scenario.holders
    /\ peers = scenario.peers
    /\ nodes = [n \in Nodes |-> IF n = Home THEN scenario.peers[n] ELSE Nodes \ {n}]
    /\ records = [n \in Nodes |-> [m \in Nodes |-> 0]] /\ accepted = records
    /\ announcing = {} /\ sweep = [n \in Nodes |-> {}]
    /\ look = NoLook /\ fetch = NoFetch /\ steady = {} /\ stable = {}
    /\ faults = [outages |-> 0, drops |-> 0, sweeps |-> 0, renewals |-> 0]

Reaches(n, m) == {n, m} \subseteq up /\ {n, m} \in scenario.linked
Fault(kind) == faults[kind] < scenario[kind] /\ faults' = [faults EXCEPT ![kind] = @ + 1]

----------------------------------------------------------------------------
(* Provider records.                                                       *)

\* validate_provider_record(): unexpired, of a node whose key is known
Acceptable(n, m, expiry) == expiry > clock /\ (m = n \/ m \in nodes[n])
Stored(n, m, expiry) ==
    IF Acceptable(n, m, expiry) THEN [records EXCEPT ![n][m] = expiry] ELSE records
NotSweeping(n) == scenario.race \/ sweep[n] = {}

\* a node that has the block stores its record and announces it to its peers
Publish(n) ==
    /\ n \in up \cap blocks \cap scenario.publishers /\ NotSweeping(n) /\ (records[n][n] = 0 \/ Fault("renewals"))
    /\ records[n][n] = 0 => UNCHANGED faults
    /\ records' = Stored(n, n, clock + TTL) /\ accepted' = [accepted EXCEPT ![n][n] = clock + TTL]
    /\ announcing' = announcing \cup {[from |-> n, to |-> m, expiry |-> clock + TTL] : m \in peers[n]}
    /\ stable' = {}
    /\ UNCHANGED <<world, peers, nodes, sweep, look, fetch, steady, scenario>>

\* the announcement arrives, or fails
Announced(a) ==
    /\ Reaches(a.from, a.to) => NotSweeping(a.to)
    /\ announcing' = announcing \ {a}
    /\ records' = IF Reaches(a.from, a.to) THEN Stored(a.to, a.from, a.expiry) ELSE records
    /\ accepted' = IF Reaches(a.from, a.to) /\ Acceptable(a.to, a.from, a.expiry) THEN [accepted EXCEPT ![a.to][a.from] = a.expiry] ELSE accepted
    /\ UNCHANGED <<world, peers, nodes, sweep, look, fetch, steady, stable, faults, scenario>>

\* cleanup_expired_provider_records(): what a read finds expired ..
Lapsed(n) == {m \in Nodes : records[n][m] # 0 /\ records[n][m] <= clock}
SweepScan(n) ==
    /\ sweep[n] = {} /\ Lapsed(n) # {} /\ Fault("sweeps")
    /\ sweep' = [sweep EXCEPT ![n] = Lapsed(n)]
    /\ UNCHANGED <<world, tables, announcing, look, fetch, steady, stable, scenario>>
\* .. a later transaction removes by key
SweepRemove(n) ==
    /\ sweep[n] # {}
    /\ records' = [records EXCEPT ![n] = [m \in Nodes |-> IF m \in sweep[n] THEN 0 ELSE @[m]]]
    /\ sweep' = [sweep EXCEPT ![n] = {}]
    /\ UNCHANGED <<world, peers, nodes, accepted, announcing, look, fetch, steady, stable, faults, scenario>>

\* provider_records_for_cid()
Provided(n) == {m \in Nodes : records[n][m] > clock}

----------------------------------------------------------------------------
(* The lookup: find_providers().                                           *)

\* prune_routing_table(): as many of a bucket as it takes
Pruned(known) ==
    {kept \in SUBSET known : \A b \in {Bucket[m] : m \in known} :
       LET there == {m \in known : Bucket[m] = b}
       IN Cardinality(kept \cap there) = IF Cardinality(there) > BucketSize THEN BucketSize ELSE Cardinality(there)}

\* what every chain of peers that answer leads to, from Home
Chain[k \in 0 .. Cardinality(Nodes)] ==
    IF k = 0 THEN {m \in peers[Home] : Reaches(Home, m)}
    ELSE Chain[k - 1] \cup {m \in Nodes \ {Home} : Reaches(Home, m) /\ \E p \in Chain[k - 1] : m \in peers[p]}
Findable == LET asked == Chain[Cardinality(Nodes)]
            IN Provided(Home) \cup UNION {Provided(m) : m \in asked} \cup (asked \cap blocks)

LookStart ==
    /\ look.pc = "idle" /\ fetch.pc = "look"
    /\ look' = [NoLook EXCEPT !.pc = "run", !.found = Provided(Home), !.queue = peers[Home]]
    /\ stable' = Findable
    /\ UNCHANGED <<world, tables, announcing, sweep, fetch, steady, faults, scenario>>

MayAsk(m) == Cardinality(look.active) < Alpha /\ Cardinality(look.queried) < LookupLimit
LookAsk(m) ==
    /\ look.pc = "run" /\ m \in look.queue /\ MayAsk(m)
    /\ look' = [look EXCEPT !.queue = @ \ {m}, !.queried = @ \cup {m}, !.active = @ \cup {m}]
    /\ UNCHANGED <<world, tables, announcing, sweep, fetch, steady, stable, faults, scenario>>

\* query_dht_peer(): first the records of a peer, and its own if it has the block; valid ones are stored here too
OnlyStored(m) == IF Reaches(Home, m) THEN Provided(m) ELSE {}
Told(m) == IF Reaches(Home, m) THEN Provided(m) \cup ({m} \cap blocks) ELSE {}
ToldExpiry(m, p) == IF records[m][p] > clock THEN records[m][p] ELSE clock + TTL
LookRecords(m) ==
    LET valid == {p \in Told(m) : Acceptable(Home, p, ToldExpiry(m, p))}
    IN /\ look.pc = "run" /\ m \in look.active \ look.asked /\ (Reaches(Home, m) => NotSweeping(Home))
       /\ look' = [look EXCEPT !.asked = @ \cup {m}, !.found = @ \cup valid]
       /\ records' = [records EXCEPT ![Home] = [p \in Nodes |-> IF p \in valid THEN ToldExpiry(m, p) ELSE @[p]]]
       /\ accepted' = [accepted EXCEPT ![Home] = [p \in Nodes |-> IF p \in valid THEN ToldExpiry(m, p) ELSE @[p]]]
       /\ UNCHANGED <<world, peers, nodes, announcing, sweep, fetch, steady, stable, faults, scenario>>

\* .. then its peers, each of which is asked for its descriptor and recorded (record_descriptor())
LookPeers(m) ==
    LET verified == IF Reaches(Home, m) THEN {p \in peers[m] \ {Home} : Reaches(Home, p)} ELSE {}
    IN /\ look.pc = "run" /\ m \in look.active \cap look.asked
       /\ \E kept \in Pruned(peers[Home] \cup verified) :
            /\ peers' = [peers EXCEPT ![Home] = kept]
            /\ steady' = steady \ (peers[Home] \ kept)
       /\ nodes' = [nodes EXCEPT ![Home] = @ \cup verified]
       /\ look' = [look EXCEPT !.active = @ \ {m}, !.queue = @ \cup (verified \ look.queried)]
       /\ UNCHANGED <<world, records, accepted, announcing, sweep, fetch, stable, faults, scenario>>

LookEnd ==
    /\ look.pc = "run" /\ look.active = {} /\ (look.queue = {} \/ Cardinality(look.queried) >= LookupLimit)
    /\ look' = [look EXCEPT !.pc = "done", !.found = @ \cap Provided(Home)]
    /\ UNCHANGED <<world, tables, announcing, sweep, fetch, steady, stable, faults, scenario>>

----------------------------------------------------------------------------
(* The fetch: get_block_from_any_peer_with_source().                       *)

Serves(n, m) == Reaches(n, m) /\ m \in blocks
FetchStart ==
    /\ fetch.pc = "idle"
    /\ fetch' = [NoFetch EXCEPT !.pc = "look"]
    /\ steady' = {m \in peers[Home] : Serves(Home, m)}
    /\ UNCHANGED <<world, tables, announcing, sweep, look, stable, faults, scenario>>

FetchProviders ==
    /\ fetch.pc = "look" /\ look.pc = "done"
    /\ fetch' = [fetch EXCEPT !.pc = "direct", !.left = look.found]
    /\ UNCHANGED <<world, tables, announcing, sweep, look, steady, stable, faults, scenario>>

\* a provider is asked directly; its own answer is final, otherwise relays are tried
AfterDirect(p) == IF Reaches(Home, p) THEN "direct" ELSE "relay"
FetchDirect(p) ==
    /\ fetch.pc = "direct" /\ p \in fetch.left
    /\ fetch' = IF Serves(Home, p) THEN [fetch EXCEPT !.pc = "done", !.result = p]
                ELSE [fetch EXCEPT !.pc = AfterDirect(p), !.left = @ \ {p}, !.relay = p, !.tried = {}]
    /\ UNCHANGED <<world, tables, announcing, sweep, look, steady, stable, faults, scenario>>

\* get_block_via_relays(): the relay fetches from a target that is its peer
Relays(r, p) == Reaches(Home, r) /\ p \in peers[r] /\ Serves(r, p)
FetchRelay(r) ==
    /\ fetch.pc = "relay" /\ r \in peers[Home] \ (fetch.tried \cup {fetch.relay})
    /\ fetch' = IF Relays(r, fetch.relay) THEN [fetch EXCEPT !.pc = "done", !.result = fetch.relay]
                ELSE [fetch EXCEPT !.tried = @ \cup {r}]
    /\ UNCHANGED <<world, tables, announcing, sweep, look, steady, stable, faults, scenario>>
NoRelay ==
    /\ fetch.pc = "relay" /\ peers[Home] \subseteq fetch.tried \cup {fetch.relay}
    /\ fetch' = [fetch EXCEPT !.pc = "direct"]
    /\ UNCHANGED <<world, tables, announcing, sweep, look, steady, stable, faults, scenario>>

\* every peer is probed; the first that has the block wins
FetchProbe ==
    /\ fetch.pc = "direct" /\ fetch.left = {}
    /\ \E m \in IF \E p \in peers[Home] : Serves(Home, p) THEN {p \in peers[Home] : Serves(Home, p)} ELSE {"none"} :
         fetch' = [fetch EXCEPT !.pc = "done", !.result = m]
    /\ UNCHANGED <<world, tables, announcing, sweep, look, steady, stable, faults, scenario>>

----------------------------------------------------------------------------
(* What happens to nodes.                                                  *)

Outage(n) ==
    /\ n \in up \ {Home} /\ Fault("outages")
    /\ up' = up \ {n}
    /\ announcing' = {a \in announcing : a.from # n}
    /\ steady' = steady \ {n} /\ stable' = {}
    /\ UNCHANGED <<clock, blocks, tables, sweep, look, fetch, scenario>>
Return(n) ==
    /\ n \in Nodes \ up
    /\ up' = up \cup {n}
    /\ UNCHANGED <<clock, blocks, tables, announcing, sweep, look, fetch, steady, stable, faults, scenario>>
Drop(n) ==
    /\ n \in blocks /\ Fault("drops")
    /\ blocks' = blocks \ {n}
    /\ steady' = steady \ {n} /\ stable' = {}
    /\ UNCHANGED <<up, clock, tables, announcing, sweep, look, fetch, scenario>>
Tick ==
    /\ clock < scenario.ticks
    /\ clock' = clock + 1
    /\ stable' = {}
    /\ UNCHANGED <<up, blocks, tables, announcing, sweep, look, fetch, steady, faults, scenario>>

Next ==
    \/ \E n \in Nodes : Publish(n) \/ SweepScan(n) \/ SweepRemove(n) \/ Outage(n) \/ Return(n) \/ Drop(n)
    \/ \E a \in announcing : Announced(a)
    \/ \E m \in Nodes : LookAsk(m) \/ LookRecords(m) \/ LookPeers(m) \/ FetchDirect(m) \/ FetchRelay(m)
    \/ LookStart \/ LookEnd \/ FetchStart \/ FetchProviders \/ NoRelay \/ FetchProbe \/ Tick

Spec == Init /\ [][Next]_vars

----------------------------------------------------------------------------
(* An undisturbed lookup finds every provider that a chain of answering    *)
(* peers knows or is, and it never returns an expired record.              *)
LookComplete ==
    look.pc = "done" /\ Cardinality(look.queried) < LookupLimit => {m \in stable : m \in nodes[Home] \cup {Home}} \subseteq look.found

(* A fetch gives up only if no peer could have served the block all along. *)
FetchFinds == fetch.pc = "done" /\ fetch.result = "none" => steady = {}

(* A record that a node accepted is there until it expires.                *)
RecordsKept == \A n, m \in Nodes : accepted[n][m] > clock => records[n][m] = accepted[n][m]

DirectorySound == LookComplete /\ FetchFinds /\ RecordsKept
=============================================================================
