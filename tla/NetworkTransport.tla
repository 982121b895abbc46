-------------------------- MODULE NetworkTransport --------------------------
(***************************************************************************)
(* The connections between two nodes (pepper-network lib.rs): the pools of *)
(* outbound connections, one entry for each peer and class of requests,    *)
(* the coalesced dials behind them, and what the peer does with a request. *)
(*                                                                         *)
(* A restarted peer has a new TLS certificate: an incarnation here.  Its   *)
(* old connections are dead, but QUIC may say so late or not at all before *)
(* the next packet; a descriptor the peer signed tells the client which    *)
(* incarnation is the current one.  Clocks agree; one tick is the replay   *)
(* window and the time for which a signed request is valid.  Sizes,        *)
(* bandwidth, metrics and signatures are left out.                         *)
(***************************************************************************)
EXTENDS Naturals, FiniteSets

CONSTANTS
    Lanes,          \* the entries: a class of requests of an endpoint
    Handle,         \* [Lanes -> endpoint]: main, or an isolated data endpoint
    Bulk,           \* the lanes that need a bulk address
    Exempt,         \* the Raft lanes, to which the rate limit does not apply
    Calls,
    RateLimit,      \* requests_per_minute
    ReplayCapacity,
    Slots,          \* streams of one connection that are served at a time
    Scenarios       \* lane: of each call; restarts, duplicates, gossips, cancels, ticks: how many

VARIABLES
    inc, listening, \* the peer's incarnation, and whether it is up
    authenticated,  \* the connections that made their handshake with it
    seen, served,   \* its replay window, and the requests of this minute
    slots,          \* its streams in service
    dispatched,     \* how often each request was executed
    clock,
    digest, known,  \* what the client knows of the peer: incarnation, address
    pool, dials,    \* the client's connections and dial locks
    dial,           \* the dial tasks, one for each call
    call,           \* the calls
    closed,         \* connections known to be closed
    gossip,         \* descriptors on their way to the client
    nextConn, faults, failed, scenario

client == <<digest, known, pool, dials, dial, call, closed, gossip, nextConn, failed>>
server == <<inc, listening, authenticated, seen, served, slots, dispatched>>
networkVars == <<server, clock, client, faults, scenario>>

NoConn == [id |-> 0, inc |-> 0]
NoDial == [pc |-> "none", conn |-> NoConn]
Ended == {"ok", "refused", "deadline", "unreachable"}
Steps == {"new", "pool", "dial", "open", "sent", "served"} \cup Ended

\* A connection to an incarnation the peer has had.
Conns == [id : Nat, inc : 0 .. inc]

ASSUME NetworkAssumption ==
    /\ IsFiniteSet(Calls) /\ Slots \in Nat
    /\ \A s \in Scenarios : DOMAIN s.lane \subseteq Calls /\ \A c \in DOMAIN s.lane : s.lane[c] \in Lanes

NetworkTypeOK ==
    /\ inc \in Nat \ {0} /\ listening \in BOOLEAN /\ authenticated \subseteq Nat
    /\ seen \subseteq [call : Calls, at : Nat] /\ served \in Nat /\ slots \subseteq Calls
    /\ dispatched \in [Calls -> Nat] /\ clock \in Nat
    /\ digest \in 0 .. inc /\ known \in BOOLEAN
    /\ pool \in [Lanes -> Conns] /\ dials \in [Lanes -> {"free", "locked"}]
    /\ dial \in [Calls -> [pc : {"none", "wait", "connect", "insert"}, conn : Conns]]
    /\ call \in [Calls -> [pc : Steps, conn : Conns, tries : 0 .. 2, sent : Nat]]
    /\ closed \subseteq Nat /\ gossip \subseteq 0 .. inc /\ nextConn \in Nat \ {0}
    /\ failed \in [Lanes -> BOOLEAN] /\ scenario \in Scenarios

NetworkInit ==
    /\ inc = 1 /\ listening = TRUE /\ authenticated = {} /\ seen = {} /\ served = 0 /\ slots = {}
    /\ dispatched = [c \in Calls |-> 0] /\ clock = 0
    /\ digest = 0 /\ known = FALSE
    /\ pool = [l \in Lanes |-> NoConn] /\ dials = [l \in Lanes |-> "free"]
    /\ dial = [c \in Calls |-> NoDial]
    /\ call = [c \in Calls |-> [pc |-> "new", conn |-> NoConn, tries |-> 0, sent |-> 0]]
    /\ closed = {} /\ gossip = {} /\ nextConn = 1
    /\ faults = [restarts |-> 0, duplicates |-> 0, gossips |-> 0, cancels |-> 0]
    /\ failed = [l \in Lanes |-> FALSE]
    /\ scenario \in Scenarios

Lane(c) == scenario.lane[c]
Alive(conn) == listening /\ conn.inc = inc
Fault(kind) == faults[kind] < scenario[kind] /\ faults' = [faults EXCEPT ![kind] = @ + 1]

----------------------------------------------------------------------------
(* The pool.                                                               *)

\* pooled_connection_is_current()
IsCurrent(conn) == conn.id # 0 /\ conn.id \notin closed /\ digest \in {0, conn.inc}

\* pooled_connection(): a current entry is used, another is dropped and a dial task spawned
PooledConnection(c) ==
    LET l == Lane(c)
    IN /\ call[c].pc = "pool"
       /\ IF IsCurrent(pool[l])
          THEN /\ call' = [call EXCEPT ![c].pc = "open", ![c].conn = pool[l]]
               /\ UNCHANGED <<pool, dial>>
          ELSE /\ pool' = [pool EXCEPT ![l] = NoConn]
               /\ call' = [call EXCEPT ![c].pc = "dial"]
               /\ dial' = [dial EXCEPT ![c].pc = "wait"]
       /\ UNCHANGED <<server, clock, digest, known, dials, closed, gossip, nextConn, failed, faults, scenario>>

\* the caller of a dial task gets its result, unless it has gone away
Resume(c, conn) ==
    IF call[c].pc = "dial" THEN [call EXCEPT ![c].pc = IF conn = NoConn THEN "unreachable" ELSE "open", ![c].conn = conn] ELSE call

\* dial_pooled_connection() with the lane's dial lock: another task may have dialed meanwhile
DialLocked(c) ==
    LET l == Lane(c)
    IN /\ dial[c].pc = "wait" /\ dials[l] = "free"
       /\ IF IsCurrent(pool[l])
          THEN dial' = [dial EXCEPT ![c] = NoDial] /\ call' = Resume(c, pool[l]) /\ UNCHANGED <<pool, dials>>
          ELSE /\ pool' = [pool EXCEPT ![l] = NoConn] /\ dials' = [dials EXCEPT ![l] = "locked"]
               /\ dial' = [dial EXCEPT ![c].pc = "connect"] /\ UNCHANGED call
       /\ UNCHANGED <<server, clock, digest, known, closed, gossip, nextConn, failed, faults, scenario>>

EndDial(c, conn) ==
    /\ dial' = [dial EXCEPT ![c] = NoDial]
    /\ dials' = [dials EXCEPT ![Lane(c)] = "free"]
    /\ call' = Resume(c, conn)

\* connection_target(): a bulk address is known from the peer's descriptor; and the connection may fail
DialFails(c) ==
    /\ dial[c].pc = "connect" /\ ((Lane(c) \in Bulk /\ ~known) \/ ~listening)
    /\ EndDial(c, NoConn)
    /\ UNCHANGED <<server, clock, digest, known, pool, closed, gossip, nextConn, failed, faults, scenario>>

\* handshake_connection(): both sides record the other; the certificate is the one the descriptor names
DialHandshake(c) ==
    /\ dial[c].pc = "connect" /\ listening /\ (Lane(c) \in Bulk => known)
    /\ nextConn' = nextConn + 1
    /\ authenticated' = authenticated \cup {nextConn}
    /\ digest' = inc /\ known' = TRUE
    /\ dial' = [dial EXCEPT ![c] = [pc |-> "insert", conn |-> [id |-> nextConn, inc |-> inc]]]
    /\ UNCHANGED <<inc, listening, seen, served, slots, dispatched, clock, pool, dials, call, closed, gossip, failed, faults, scenario>>

\* record_descriptor() drops the handle's entries of other incarnations
Retained(handle, i) == [l \in Lanes |-> IF Handle[l] = handle /\ pool[l].inc # i THEN NoConn ELSE pool[l]]

\* the new connection is inserted unless the entry has become current
DialInsert(c) ==
    LET l == Lane(c)
        kept == Retained(Handle[l], dial[c].conn.inc)
        conn == IF IsCurrent(kept[l]) THEN kept[l] ELSE dial[c].conn
    IN /\ dial[c].pc = "insert"
       /\ pool' = [kept EXCEPT ![l] = conn]
       /\ EndDial(c, conn)
       /\ failed' = [failed EXCEPT ![l] = @ /\ conn.inc = inc]
       /\ UNCHANGED <<server, clock, digest, known, closed, gossip, nextConn, faults, scenario>>

----------------------------------------------------------------------------
(* A call.                                                                 *)

Start(c) ==
    /\ call[c].pc = "new" /\ c \in DOMAIN scenario.lane
    /\ call' = [call EXCEPT ![c].pc = "pool", ![c].tries = 1]
    /\ UNCHANGED <<server, clock, digest, known, pool, dials, dial, closed, gossip, nextConn, failed, faults, scenario>>

\* open_rpc_stream(): a stream opens on a connection that is not known to be closed, dead or not
OpenStream(c) ==
    /\ call[c].pc = "open" /\ call[c].conn.id \notin closed
    /\ call' = [call EXCEPT ![c].pc = "sent", ![c].sent = clock]
    /\ UNCHANGED <<server, clock, digest, known, pool, dials, dial, closed, gossip, nextConn, failed, faults, scenario>>

\* .. a closed one leaves the pool and the stream is tried once more
Reopened(c) == IF call[c].tries = 1 THEN "pool" ELSE "deadline"
OpenFails(c) ==
    LET l == Lane(c)
    IN /\ call[c].pc = "open" /\ call[c].conn.id \in closed
       /\ pool' = [pool EXCEPT ![l] = IF @.id = call[c].conn.id THEN NoConn ELSE @]
       /\ call' = [call EXCEPT ![c].pc = Reopened(c), ![c].tries = 2]
       /\ UNCHANGED <<server, clock, digest, known, dials, dial, closed, gossip, nextConn, failed, faults, scenario>>

\* with_peer_timeout(): the entry goes, whichever connection it holds; a dial task goes on.  What was sent may arrive
Lost(c) == call[c].pc = "sent" /\ ~Alive(call[c].conn)
KeepEntry(l) == pool[l]
Removed(l) == NoConn
Timeout(c) ==
    LET l == Lane(c)
    IN /\ call[c].pc \in {"pool", "dial", "open", "sent", "served"}
       /\ IF Lost(c) THEN UNCHANGED faults ELSE Fault("cancels")
       /\ failed' = [failed EXCEPT ![l] = @ \/ (Lost(c) /\ listening)]
       /\ pool' = [pool EXCEPT ![l] = Removed(l)]
       /\ call' = [call EXCEPT ![c].pc = "deadline", ![c].conn = IF call[c].pc \in {"sent", "served"} THEN @ ELSE NoConn]
       /\ slots' = slots \ {c}
       /\ UNCHANGED <<inc, listening, authenticated, seen, served, dispatched, clock, digest, known, dials, dial, closed, gossip,
                      nextConn, scenario>>

----------------------------------------------------------------------------
(* The peer.                                                               *)

Window == 1
\* ReplayWindow::admit() forgets what is older than the window ..
Remembered(s) == {e \in s : e.at + Window >= clock}
\* .. and refuses what it remembers, and everything when it is full
Admits(c, s) == (\A e \in s : e.call # c) /\ Cardinality(s) < ReplayCapacity
\* verify_request_auth(): the time of the request
Fresh(c) == clock <= call[c].sent + Window
\* check_rate_limit(): a request is counted before it is looked at
UnderLimit(c) == Lane(c) \in Exempt \/ served < RateLimit

\* handle_stream() and validate_request(), in their order: authentication, rate, replay, handshake
Valid(c, conn) == Fresh(c) /\ UnderLimit(c) /\ Admits(c, Remembered(seen)) /\ conn.id \in authenticated
Receive(c, duplicate) ==
    LET conn == call[c].conn
        kept == Remembered(seen)
    IN /\ Alive(conn) /\ conn.id \notin closed
       /\ IF duplicate THEN call[c].pc \in {"served"} \cup Ended /\ conn.id # 0 /\ Fault("duplicates")
          ELSE call[c].pc = "sent" /\ Cardinality({d \in slots : call[d].conn = conn}) < Slots /\ UNCHANGED faults
       /\ served' = IF Fresh(c) /\ Lane(c) \notin Exempt THEN served + 1 ELSE served
       /\ seen' = IF Fresh(c) /\ UnderLimit(c) THEN IF Admits(c, kept) THEN kept \cup {[call |-> c, at |-> clock]} ELSE kept ELSE seen
       /\ dispatched' = [dispatched EXCEPT ![c] = IF Valid(c, conn) THEN @ + 1 ELSE @]
       /\ call' = IF duplicate THEN call ELSE [call EXCEPT ![c].pc = IF Valid(c, conn) THEN "served" ELSE "refused"]
       /\ slots' = IF duplicate \/ ~Valid(c, conn) THEN slots ELSE slots \cup {c}
       /\ UNCHANGED <<inc, listening, authenticated, clock, digest, known, pool, dials, dial, closed, gossip, nextConn, failed, scenario>>

Answer(c) ==
    /\ call[c].pc = "served" /\ Alive(call[c].conn)
    /\ call' = [call EXCEPT ![c].pc = "ok"]
    /\ slots' = slots \ {c}
    /\ UNCHANGED <<inc, listening, authenticated, seen, served, dispatched, clock, digest, known, pool, dials, dial, closed, gossip,
                   nextConn, failed, faults, scenario>>

\* an answer that a restart lost
Unanswered(c) ==
    /\ call[c].pc = "served" /\ ~Alive(call[c].conn)
    /\ call' = [call EXCEPT ![c].pc = "sent"]
    /\ UNCHANGED <<server, clock, digest, known, pool, dials, dial, closed, gossip, nextConn, failed, faults, scenario>>

\* a restart: what the peer keeps in memory is gone
Crash ==
    /\ listening /\ Fault("restarts")
    /\ listening' = FALSE
    /\ authenticated' = {} /\ seen' = {} /\ served' = 0 /\ slots' = {}
    /\ UNCHANGED <<inc, dispatched, clock, client, scenario>>
Restart ==
    /\ ~listening
    /\ listening' = TRUE /\ inc' = inc + 1
    /\ failed' = [l \in Lanes |-> FALSE]
    /\ UNCHANGED <<authenticated, seen, served, slots, dispatched, clock, digest, known, pool, dials, dial, call, closed, gossip,
                   nextConn, faults, scenario>>

\* QUIC finds out that a connection is dead
Notice(c) ==
    /\ call[c].conn.id \notin closed \cup {0} /\ ~Alive(call[c].conn)
    /\ closed' = closed \cup {call[c].conn.id}
    /\ UNCHANGED <<server, clock, digest, known, pool, dials, dial, call, gossip, nextConn, failed, faults, scenario>>

\* node_info(), of the gossip loop or a lookup: a descriptor is signed, and recorded some time later
Describe ==
    /\ listening /\ Fault("gossips")
    /\ gossip' = gossip \cup {inc}
    /\ UNCHANGED <<server, clock, digest, known, pool, dials, dial, call, closed, nextConn, failed, scenario>>
RecordDescriptor(g) ==
    /\ digest' = g /\ known' = TRUE
    /\ pool' = Retained("main", g)
    /\ gossip' = gossip \ {g}
    /\ UNCHANGED <<server, clock, dials, dial, call, closed, nextConn, failed, faults, scenario>>

Tick ==
    /\ clock < scenario.ticks
    /\ clock' = clock + 1 /\ served' = 0
    /\ UNCHANGED <<inc, listening, authenticated, seen, slots, dispatched, client, faults, scenario>>

NetworkNext ==
    \/ \E c \in Calls :
         \/ Start(c) \/ PooledConnection(c) \/ DialLocked(c) \/ DialFails(c) \/ DialHandshake(c) \/ DialInsert(c)
         \/ OpenStream(c) \/ OpenFails(c) \/ Timeout(c) \/ Answer(c) \/ Unanswered(c) \/ Notice(c)
         \/ \E duplicate \in BOOLEAN : Receive(c, duplicate)
    \/ \E g \in gossip : RecordDescriptor(g)
    \/ Crash \/ Restart \/ Describe \/ Tick

NetworkSpec == NetworkInit /\ [][NetworkNext]_networkVars

----------------------------------------------------------------------------
(* A request is executed at most once, whatever arrives again; one that is *)
(* answered well was executed, one that found no connection was not.       *)
AtMostOnce ==
    \A c \in Calls :
       /\ dispatched[c] <= 1
       /\ call[c].pc = "ok" => dispatched[c] = 1
       /\ call[c].pc = "unreachable" => dispatched[c] = 0

(* Once a call was lost on a dead connection its lane is rid of it: the    *)
(* entry is a connection to the peer as it is now, or none, until a dial   *)
(* from before the restart brings an old one.                              *)
LaneRecovers == \A l \in Lanes : listening /\ failed[l] => pool[l].inc \in {0, inc}

(* A lane dials once at a time, also when the calls that asked for it went *)
(* away, and no dial keeps the lock.                                       *)
OneDial ==
    \A l \in Lanes :
       LET dialing == {c \in Calls \cap DOMAIN scenario.lane : Lane(c) = l /\ dial[c].pc \in {"connect", "insert"}}
       IN Cardinality(dialing) = IF dials[l] = "free" THEN 0 ELSE 1

(* The streams in service of one connection are bounded.                   *)
SlotsBounded ==
    \A c \in slots : Cardinality({d \in slots : call[d].conn = call[c].conn}) <= Slots

NetworkSound == AtMostOnce /\ LaneRecovers /\ OneDial /\ SlotsBounded
=============================================================================
