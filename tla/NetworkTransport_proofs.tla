----------------------- MODULE NetworkTransport_proofs -----------------------
(***************************************************************************)
(* Proofs about the connections of pepper-network for any number of calls, *)
(* lanes, restarts, duplicates and cancellations.                          *)
(***************************************************************************)
EXTENDS NetworkTransport, FiniteSetTheorems, TLAPS

Unsent == {"new", "pool", "dial", "open", "unreachable"}

\* What the state of a call says of its execution.  A request that was
\* executed and could arrive again is still in the replay window, or too old.
Executed ==
    \A c \in Calls :
       /\ dispatched[c] <= 1 /\ call[c].sent <= clock
       /\ call[c].pc \in Unsent => dispatched[c] = 0
       /\ call[c].pc \in {"served", "ok"} => dispatched[c] = 1
       /\ call[c].pc = "unreachable" => call[c].conn = NoConn
       /\ dispatched[c] # 0 /\ Alive(call[c].conn) =>
            ~Fresh(c) \/ \E e \in seen : e.call = c /\ e.at >= call[c].sent

\* A dial task belongs to a call that waits for it or has gone away, and the
\* dial lock of a lane to one task.
Dialing(c, l) == c \in DOMAIN scenario.lane /\ Lane(c) = l /\ dial[c].pc \in {"connect", "insert"}

Dialed ==
    /\ \A c \in Calls : call[c].pc # "new" => c \in DOMAIN scenario.lane
    /\ \A c \in Calls : dial[c].pc # "none" => call[c].pc \in {"dial", "deadline"}
    /\ \A l \in Lanes : dials[l] = "free" => \A c \in Calls : ~Dialing(c, l)
    /\ \A l \in Lanes : dials[l] = "locked" => \E c \in Calls : Dialing(c, l) /\ \A d \in Calls : Dialing(d, l) => d = c

\* A stream in service belongs to a call that waits for its answer.
InService == \A c \in slots : call[c].pc = "served" /\ Alive(call[c].conn)

NetworkIInv == NetworkTypeOK /\ Executed /\ Dialed /\ LaneRecovers /\ InService /\ SlotsBounded

-----------------------------------------------------------------------------
CallRecords == [pc : Steps, conn : Conns, tries : 0 .. 2, sent : Nat]

\* The calls stay calls when one of them moves on.
LEMMA CallMoves ==
    ASSUME NetworkTypeOK, NEW c \in Calls, NEW p \in Steps, call' = [call EXCEPT ![c].pc = p]
    PROVE  call' \in [Calls -> CallRecords]
  <1> DEFINE T == 0 .. 2
             S == Nat
  <1>0. call \in [Calls -> [pc : Steps, conn : Conns, tries : T, sent : S]]
    BY DEF NetworkTypeOK
  <1> HIDE DEF T, S
  <1>1. call' \in [Calls -> [pc : Steps, conn : Conns, tries : T, sent : S]]
    BY <1>0
  <1> QED BY <1>1 DEF CallRecords, T, S

LEMMA CallConnected ==
    ASSUME NetworkTypeOK, NEW c \in Calls, NEW p \in Steps, NEW k \in Conns, call' = [call EXCEPT ![c].pc = p, ![c].conn = k]
    PROVE  call' \in [Calls -> CallRecords]
  <1> DEFINE T == 0 .. 2
             S == Nat
  <1>0. call \in [Calls -> [pc : Steps, conn : Conns, tries : T, sent : S]]
    BY DEF NetworkTypeOK
  <1> HIDE DEF T, S
  <1>1. call' \in [Calls -> [pc : Steps, conn : Conns, tries : T, sent : S]]
    BY <1>0
  <1> QED BY <1>1 DEF CallRecords, T, S

LEMMA CallTried ==
    ASSUME NetworkTypeOK, NEW c \in Calls, NEW p \in Steps, NEW t \in 0 .. 2, call' = [call EXCEPT ![c].pc = p, ![c].tries = t]
    PROVE  call' \in [Calls -> CallRecords]
  <1> DEFINE T == 0 .. 2
             S == Nat
  <1>0. call \in [Calls -> [pc : Steps, conn : Conns, tries : T, sent : S]] /\ t \in T
    BY DEF NetworkTypeOK
  <1> HIDE DEF T, S
  <1>1. call' \in [Calls -> [pc : Steps, conn : Conns, tries : T, sent : S]]
    BY <1>0
  <1> QED BY <1>1 DEF CallRecords, T, S

LEMMA CallSent ==
    ASSUME NetworkTypeOK, NEW c \in Calls, NEW p \in Steps, NEW s \in Nat, call' = [call EXCEPT ![c].pc = p, ![c].sent = s]
    PROVE  call' \in [Calls -> CallRecords]
  <1> DEFINE T == 0 .. 2
             S == Nat
  <1>0. call \in [Calls -> [pc : Steps, conn : Conns, tries : T, sent : S]] /\ s \in S
    BY DEF NetworkTypeOK
  <1> HIDE DEF T, S
  <1>1. call' \in [Calls -> [pc : Steps, conn : Conns, tries : T, sent : S]]
    BY <1>0
  <1> QED BY <1>1 DEF CallRecords, T, S

\* The dials stay dials.
DialRecords == [pc : {"none", "wait", "connect", "insert"}, conn : Conns]

LEMMA DialMoves ==
    ASSUME NetworkTypeOK, NEW c \in Calls, NEW p \in {"none", "wait", "connect", "insert"}, dial' = [dial EXCEPT ![c].pc = p]
    PROVE  dial' \in [Calls -> DialRecords]
  <1> DEFINE P == {"none", "wait", "connect", "insert"}
  <1>0. dial \in [Calls -> [pc : P, conn : Conns]] /\ p \in P
    BY DEF NetworkTypeOK
  <1> HIDE DEF P
  <1>1. dial' \in [Calls -> [pc : P, conn : Conns]]
    BY <1>0
  <1> QED BY <1>1 DEF P, DialRecords

LEMMA DialReplaced ==
    ASSUME NetworkTypeOK, NEW c \in Calls, NEW r \in DialRecords, dial' = [dial EXCEPT ![c] = r]
    PROVE  dial' \in [Calls -> DialRecords]
  <1>0. dial \in [Calls -> DialRecords]
    BY DEF NetworkTypeOK, DialRecords
  <1> QED BY <1>0

\* A call that has begun names a lane.
LEMMA LaneIsOne ==
    ASSUME NetworkTypeOK, NEW c \in Calls, c \in DOMAIN scenario.lane
    PROVE  Lane(c) \in Lanes
  BY NetworkAssumption DEF NetworkTypeOK, Lane

\* No connection belongs to no incarnation.
LEMMA NoConnIsDead ==
    ASSUME NetworkTypeOK
    PROVE  NoConn \in Conns /\ NoConn.inc = 0 /\ NoConn.id = 0 /\ ~Alive(NoConn) /\ NoDial \in DialRecords
  BY DEF NetworkTypeOK, NoConn, NoDial, Conns, DialRecords, Alive

\* The parts of a call.
LEMMA CallParts ==
    ASSUME NetworkTypeOK, NEW c \in Calls
    PROVE  /\ call[c] \in [pc : Steps, conn : Conns, tries : 0 .. 2, sent : Nat]
           /\ call[c].conn \in Conns /\ call[c].conn.id \in Nat /\ call[c].conn.inc \in 0 .. inc /\ call[c].sent \in Nat
           /\ dial[c].conn \in Conns
  BY DEF NetworkTypeOK, Conns

\* A step of one call that reaches the peer's state in no way.
LEMMA ExecutedKept ==
    ASSUME NetworkIInv, NEW c \in Calls, UNCHANGED <<inc, listening, seen, clock, dispatched>>,
           \A d \in Calls : d # c => call'[d] = call[d],
           dispatched[c] = 0 \/ (call'[c].conn = call[c].conn /\ call'[c].sent = call[c].sent),
           call'[c].sent \in {call[c].sent, clock},
           call'[c].pc \in Unsent => dispatched[c] = 0,
           call'[c].pc \in {"served", "ok"} => dispatched[c] = 1,
           call'[c].pc = "unreachable" => call'[c].conn = NoConn
    PROVE  Executed'
  <1>1. clock \in Nat
    BY DEF NetworkIInv, NetworkTypeOK
  <1> QED BY <1>1 DEF NetworkIInv, Executed, Alive, Fresh

\* A step of one call that leaves the dials alone.
LEMMA DialedKept ==
    ASSUME NetworkIInv, NEW c \in Calls, UNCHANGED <<dial, dials, scenario>>,
           \A d \in Calls : d # c => call'[d] = call[d],
           c \in DOMAIN scenario.lane,
           dial[c].pc # "none" => call'[c].pc \in {"dial", "deadline"}
    PROVE  Dialed'
  <1>1. \A d \in Calls, l \in Lanes : Dialing(d, l)' <=> Dialing(d, l)
    BY DEF Dialing, Lane
  <1>2. \A d \in Calls : call'[d].pc # "new" => d \in DOMAIN scenario.lane
    BY DEF NetworkIInv, Dialed
  <1>3. \A d \in Calls : dial[d].pc # "none" => call'[d].pc \in {"dial", "deadline"}
    BY DEF NetworkIInv, Dialed
  <1> QED BY <1>1, <1>2, <1>3 DEF NetworkIInv, Dialed

\* A step of one call that has no stream in service.
LEMMA ServiceKept ==
    ASSUME NetworkIInv, NEW c \in Calls, UNCHANGED <<inc, listening>>, slots' = slots \ {c} \/ (slots' = slots /\ c \notin slots),
           \A d \in Calls : d # c => call'[d] = call[d]
    PROVE  InService' /\ SlotsBounded'
  <1>1. slots \subseteq Calls /\ IsFiniteSet(Calls) /\ Slots \in Nat
    BY NetworkAssumption DEF NetworkIInv, NetworkTypeOK
  <1>2. slots' \subseteq slots /\ c \notin slots' /\ \A d \in slots' : call'[d] = call[d]
    BY <1>1
  <1>3. InService'
    BY <1>2 DEF NetworkIInv, InService, Alive
  <1>4. ASSUME NEW d \in slots' PROVE Cardinality({e \in slots' : call'[e].conn = call'[d].conn}) <= Slots
    <2> DEFINE before == {e \in slots : call[e].conn = call[d].conn}
               after == {e \in slots' : call'[e].conn = call'[d].conn}
    <2>1. after \subseteq before /\ IsFiniteSet(before)
      BY <1>1, <1>2, FS_Subset
    <2>2. Cardinality(before) <= Slots
      BY <1>2 DEF NetworkIInv, SlotsBounded
    <2> HIDE DEF before, after
    <2>3. Cardinality(after) <= Cardinality(before) /\ Cardinality(after) \in Nat /\ Cardinality(before) \in Nat
      BY <2>1, FS_Subset, FS_CardinalityType
    <2>4. Cardinality(after) <= Slots
      BY <1>1, <2>2, <2>3
    <2> QED BY <2>4 DEF after
  <1>5. SlotsBounded'
    BY <1>4 DEF SlotsBounded
  <1> QED BY <1>3, <1>5

\* Dropping entries of the pool frees a lane of a dead connection.
LEMMA LanesKept ==
    ASSUME NetworkIInv, UNCHANGED <<inc, listening>>,
           \A l \in Lanes : pool'[l] \in {pool[l], NoConn} /\ (failed'[l] => failed[l] \/ pool'[l] = NoConn)
    PROVE  LaneRecovers'
  BY DEF NetworkIInv, LaneRecovers, NoConn

-----------------------------------------------------------------------------
\* The initial state satisfies the inductive invariant.
LEMMA InitNetworkIInv == NetworkInit => NetworkIInv
  <1> SUFFICES ASSUME NetworkInit PROVE NetworkIInv
    OBVIOUS
  <1>0. NoConn \in Conns
    BY DEF NetworkInit, NoConn, Conns
  <1>1. NetworkTypeOK
    <2>1. /\ dial \in [Calls -> [pc : {"none", "wait", "connect", "insert"}, conn : Conns]]
          /\ call \in [Calls -> [pc : Steps, conn : Conns, tries : 0 .. 2, sent : Nat]]
      BY <1>0 DEF NetworkInit, NoDial, Steps
    <2>2. inc \in Nat \ {0} /\ served \in Nat /\ clock \in Nat /\ digest \in 0 .. inc /\ nextConn \in Nat \ {0}
      BY DEF NetworkInit
    <2>3. /\ pool \in [Lanes -> Conns] /\ dials \in [Lanes -> {"free", "locked"}] /\ failed \in [Lanes -> BOOLEAN]
          /\ dispatched \in [Calls -> Nat]
      BY <1>0 DEF NetworkInit
    <2>4. /\ listening \in BOOLEAN /\ known \in BOOLEAN /\ authenticated \subseteq Nat /\ closed \subseteq Nat
          /\ seen \subseteq [call : Calls, at : Nat] /\ slots \subseteq Calls /\ gossip \subseteq 0 .. inc /\ scenario \in Scenarios
      BY DEF NetworkInit
    <2> QED BY <2>1, <2>2, <2>3, <2>4 DEF NetworkTypeOK
  <1>2. Executed
    BY DEF NetworkInit, Executed
  <1>3. Dialed
    BY DEF NetworkInit, Dialed, Dialing, NoDial
  <1>4. LaneRecovers /\ InService /\ SlotsBounded
    BY DEF NetworkInit, LaneRecovers, InService, SlotsBounded
  <1> QED BY <1>1, <1>2, <1>3, <1>4 DEF NetworkIInv

\* A call begins.
LEMMA StartIInv ==
    ASSUME NetworkIInv, NEW c \in Calls, Start(c)
    PROVE  NetworkIInv'
  <1>0. /\ UNCHANGED <<inc, listening, authenticated, seen, served, slots, dispatched, clock, digest, known, pool, dials, dial,
                       closed, gossip, nextConn, failed, scenario>>
        /\ call[c].pc = "new" /\ c \in DOMAIN scenario.lane
        /\ call' = [call EXCEPT ![c].pc = "pool", ![c].tries = 1]
    BY DEF Start, server
  <1>1. call' \in [Calls -> CallRecords]
    <2>1. "pool" \in Steps /\ 1 \in 0 .. 2
      BY DEF Steps
    <2> QED BY <1>0, <2>1, CallTried DEF NetworkIInv
  <1>2. NetworkTypeOK'
    BY <1>0, <1>1 DEF NetworkIInv, NetworkTypeOK, CallRecords, Conns
  <1>a. /\ call'[c].pc = "pool" /\ call'[c].conn = call[c].conn /\ call'[c].sent = call[c].sent
        /\ \A d \in Calls : d # c => call'[d] = call[d]
    BY <1>0 DEF NetworkIInv, NetworkTypeOK
  <1>b. dispatched[c] = 0 /\ dial[c].pc = "none" /\ c \notin slots
    BY <1>0 DEF NetworkIInv, Executed, Dialed, InService, Unsent
  <1>3. Executed'
    BY <1>0, <1>a, <1>b, ExecutedKept
  <1>4. Dialed'
    BY <1>0, <1>a, <1>b, DialedKept
  <1>5. InService' /\ SlotsBounded'
    BY <1>0, <1>a, <1>b, ServiceKept
  <1>6. LaneRecovers'
    BY <1>0, LanesKept DEF NetworkIInv
  <1> QED BY <1>2, <1>3, <1>4, <1>5, <1>6 DEF NetworkIInv

\* The caller of a dial task gets its connection, or none, if it still waits.
LEMMA Resumed ==
    ASSUME NetworkIInv, NEW c \in Calls, NEW conn \in Conns, call' = Resume(c, conn)
    PROVE  /\ call' \in [Calls -> CallRecords]
           /\ \A d \in Calls : d # c => call'[d] = call[d]
           /\ call'[c].sent = call[c].sent
           /\ \/ call'[c] = call[c]
              \/ call[c].pc = "dial" /\ call'[c].conn = conn /\ call'[c].pc = IF conn = NoConn THEN "unreachable" ELSE "open"
  <1>0. call \in [Calls -> CallRecords]
    BY DEF NetworkIInv, NetworkTypeOK, CallRecords
  <1>1. CASE call[c].pc # "dial"
    BY <1>0, <1>1 DEF Resume
  <1>2. CASE call[c].pc = "dial"
    <2> DEFINE p == IF conn = NoConn THEN "unreachable" ELSE "open"
    <2>1. p \in Steps
      BY DEF Steps, Ended
    <2>2. call' = [call EXCEPT ![c].pc = p, ![c].conn = conn]
      BY <1>2 DEF Resume
    <2> HIDE DEF p
    <2>3. call' \in [Calls -> CallRecords]
      BY <2>1, <2>2, CallConnected DEF NetworkIInv
    <2>4. call'[c].pc = p /\ call'[c].conn = conn /\ call'[c].sent = call[c].sent /\ \A d \in Calls : d # c => call'[d] = call[d]
      BY <1>0, <2>2 DEF CallRecords
    <2> QED BY <1>2, <2>3, <2>4 DEF p
  <1> QED BY <1>1, <1>2

\* .. and neither executes anything nor touches the streams in service.
LEMMA ResumeKeeps ==
    ASSUME NetworkIInv, NEW c \in Calls, NEW conn \in Conns, call' = Resume(c, conn), dial[c].pc # "none",
           UNCHANGED <<inc, listening, seen, clock, dispatched, slots>>
    PROVE  Executed' /\ InService' /\ SlotsBounded'
  <1>1. call[c].pc \in {"dial", "deadline"} /\ c \notin slots
    BY DEF NetworkIInv, Dialed, InService
  <1>2. CASE call'[c] = call[c]
    <2>1. Executed'
      BY <1>2, Resumed, ExecutedKept DEF NetworkIInv, Executed
    <2>2. InService' /\ SlotsBounded'
      BY <1>1, Resumed, ServiceKept
    <2> QED BY <2>1, <2>2
  <1>3. CASE call[c].pc = "dial" /\ call'[c].conn = conn /\ call'[c].pc = IF conn = NoConn THEN "unreachable" ELSE "open"
    <2>1. dispatched[c] = 0
      BY <1>3 DEF NetworkIInv, Executed, Unsent
    <2>2. Executed'
      BY <1>3, <2>1, Resumed, ExecutedKept
    <2>3. InService' /\ SlotsBounded'
      BY <1>1, Resumed, ServiceKept
    <2> QED BY <2>2, <2>3
  <1> QED BY <1>2, <1>3, Resumed

\* A pooled connection is used, or a dial task started.
LEMMA PooledConnectionIInv ==
    ASSUME NetworkIInv, NEW c \in Calls, PooledConnection(c)
    PROVE  NetworkIInv'
  <1> DEFINE l == Lane(c)
  <1>0. /\ UNCHANGED <<inc, listening, authenticated, seen, served, slots, dispatched, clock, digest, known, dials,
                       closed, gossip, nextConn, failed, scenario>>
        /\ call[c].pc = "pool"
    BY DEF PooledConnection, server
  <1>1. \/ call' = [call EXCEPT ![c].pc = "open", ![c].conn = pool[l]] /\ pool' = pool /\ dial' = dial
        \/ /\ call' = [call EXCEPT ![c].pc = "dial"] /\ pool' = [pool EXCEPT ![l] = NoConn]
           /\ dial' = [dial EXCEPT ![c].pc = "wait"]
    BY DEF PooledConnection
  <1>a. dispatched[c] = 0 /\ dial[c].pc = "none" /\ c \notin slots /\ c \in DOMAIN scenario.lane
    BY <1>0 DEF NetworkIInv, Executed, Dialed, InService, Unsent
  <1>b. l \in Lanes
    BY <1>a, LaneIsOne DEF NetworkIInv
  <1> HIDE DEF l
  <1>c. /\ "open" \in Steps /\ "dial" \in Steps /\ pool[l] \in Conns /\ NoConn \in Conns
        /\ call \in [Calls -> CallRecords]
    BY <1>b, NoConnIsDead DEF NetworkIInv, NetworkTypeOK, Steps, CallRecords
  <1>2. NetworkTypeOK'
    <2>1. call' \in [Calls -> CallRecords]
      BY <1>1, <1>c, CallMoves, CallConnected DEF NetworkIInv
    <2>2. dial' \in [Calls -> DialRecords]
      BY <1>1, DialMoves DEF NetworkIInv, NetworkTypeOK, DialRecords
    <2>3. pool' \in [Lanes -> Conns]
      BY <1>1, <1>c DEF NetworkIInv, NetworkTypeOK
    <2> QED BY <1>0, <2>1, <2>2, <2>3 DEF NetworkIInv, NetworkTypeOK, CallRecords, DialRecords, Conns
  <1>d. call'[c].pc \in {"open", "dial"} /\ call'[c].sent = call[c].sent /\ \A d \in Calls : d # c => call'[d] = call[d]
    BY <1>1, <1>c DEF CallRecords
  <1>3. Executed'
    BY <1>0, <1>a, <1>d, ExecutedKept
  <1>4. InService' /\ SlotsBounded'
    BY <1>0, <1>a, <1>d, ServiceKept
  <1>5. LaneRecovers'
    <2>1. \A m \in Lanes : pool'[m] \in {pool[m], NoConn}
      BY <1>1 DEF NetworkIInv, NetworkTypeOK
    <2> QED BY <1>0, <2>1, LanesKept
  <1>6. Dialed'
    <2>1. CASE dial' = dial
      BY <1>0, <1>a, <1>d, <2>1, DialedKept
    <2>2. CASE dial' = [dial EXCEPT ![c].pc = "wait"] /\ call' = [call EXCEPT ![c].pc = "dial"]
      <3>1. /\ dial'[c].pc = "wait" /\ call'[c].pc = "dial" /\ \A d \in Calls : d # c => dial'[d] = dial[d]
        BY <1>c, <2>2 DEF NetworkIInv, NetworkTypeOK, CallRecords
      <3>2. \A d \in Calls, m \in Lanes : Dialing(d, m)' <=> Dialing(d, m)
        BY <1>0, <1>a, <3>1 DEF Dialing, Lane
      <3> QED BY <1>0, <1>a, <1>d, <3>1, <3>2 DEF NetworkIInv, Dialed
    <2> QED BY <1>1, <2>1, <2>2
  <1> QED BY <1>2, <1>3, <1>4, <1>5, <1>6 DEF NetworkIInv

\* A task that holds a lane's dial lock is the only one to dial.
LEMMA TheDialer ==
    ASSUME NetworkIInv, NEW c \in Calls, dial[c].pc \in {"connect", "insert"}
    PROVE  /\ c \in DOMAIN scenario.lane /\ Lane(c) \in Lanes /\ dials[Lane(c)] = "locked"
           /\ \A d \in Calls : Dialing(d, Lane(c)) => d = c
  <1>1. c \in DOMAIN scenario.lane
    BY DEF NetworkIInv, Dialed
  <1>2. Lane(c) \in Lanes
    BY <1>1, LaneIsOne DEF NetworkIInv
  <1>3. Dialing(c, Lane(c))
    BY <1>1 DEF Dialing
  <1>4. dials[Lane(c)] = "locked"
    BY <1>2, <1>3 DEF NetworkIInv, NetworkTypeOK, Dialed
  <1> QED BY <1>1, <1>2, <1>3, <1>4 DEF NetworkIInv, Dialed

\* The task ends and frees the lock.
LEMMA EndDialDialed ==
    ASSUME NetworkIInv, NEW c \in Calls, dial[c].pc \in {"connect", "insert"}, NEW conn \in Conns, EndDial(c, conn),
           UNCHANGED scenario
    PROVE  /\ Dialed' /\ dial' \in [Calls -> DialRecords] /\ dials' \in [Lanes -> {"free", "locked"}]
           /\ call' \in [Calls -> CallRecords]
  <1> DEFINE l == Lane(c)
  <1>0. dial' = [dial EXCEPT ![c] = NoDial] /\ dials' = [dials EXCEPT ![l] = "free"] /\ call' = Resume(c, conn)
    BY DEF EndDial
  <1>1. c \in DOMAIN scenario.lane /\ l \in Lanes /\ \A d \in Calls : Dialing(d, l) => d = c
    BY TheDialer
  <1> HIDE DEF l
  <1>2. dial' \in [Calls -> DialRecords]
    BY <1>0, NoConnIsDead, DialReplaced DEF NetworkIInv
  <1>3. /\ dials' \in [Lanes -> {"free", "locked"}] /\ dials'[l] = "free" /\ \A m \in Lanes : m # l => dials'[m] = dials[m]
    BY <1>0, <1>1 DEF NetworkIInv, NetworkTypeOK
  <1>4. dial'[c].pc = "none" /\ \A d \in Calls : d # c => dial'[d] = dial[d]
    BY <1>0 DEF NetworkIInv, NetworkTypeOK, NoDial
  <1>5. \A d \in Calls, m \in Lanes : Dialing(d, m)' <=> Dialing(d, m) /\ m # l
    <2> TAKE d \in Calls, m \in Lanes
    <2>1. CASE d = c
      BY <1>4, <2>1 DEF Dialing, Lane, l
    <2>2. CASE d # c
      <3>1. Dialing(d, m)' <=> Dialing(d, m)
        BY <1>4, <2>2 DEF Dialing, Lane
      <3> QED BY <1>1, <2>2, <3>1
    <2> QED BY <2>1, <2>2
  <1>6. /\ \A d \in Calls : d # c => call'[d] = call[d]
        /\ call'[c] = call[c] \/ call[c].pc = "dial"
    BY <1>0, Resumed
  <1>7. \A d \in Calls : call'[d].pc # "new" => d \in DOMAIN scenario.lane
    BY <1>1, <1>6 DEF NetworkIInv, Dialed
  <1>8. \A d \in Calls : dial'[d].pc # "none" => call'[d].pc \in {"dial", "deadline"}
    BY <1>4, <1>6 DEF NetworkIInv, Dialed
  <1>9. \A m \in Lanes : dials'[m] = "free" => \A d \in Calls : ~Dialing(d, m)'
    BY <1>3, <1>5 DEF NetworkIInv, Dialed
  <1>10. \A m \in Lanes : dials'[m] = "locked" => \E e \in Calls : Dialing(e, m)' /\ \A d \in Calls : Dialing(d, m)' => d = e
    BY <1>3, <1>5 DEF NetworkIInv, Dialed
  <1>11. Dialed'
    BY <1>7, <1>8, <1>9, <1>10 DEF Dialed
  <1>12. call' \in [Calls -> CallRecords]
    BY <1>0, Resumed
  <1> QED BY <1>2, <1>3, <1>11, <1>12

\* A dial task takes the lane's lock.
LEMMA DialLockedIInv ==
    ASSUME NetworkIInv, NEW c \in Calls, DialLocked(c)
    PROVE  NetworkIInv'
  <1> DEFINE l == Lane(c)
  <1>0. /\ UNCHANGED <<inc, listening, authenticated, seen, served, slots, dispatched, clock, digest, known,
                       closed, gossip, nextConn, failed, scenario>>
        /\ dial[c].pc = "wait" /\ dials[l] = "free"
    BY DEF DialLocked, server
  <1>1. \/ dial' = [dial EXCEPT ![c] = NoDial] /\ call' = Resume(c, pool[l]) /\ pool' = pool /\ dials' = dials
        \/ /\ pool' = [pool EXCEPT ![l] = NoConn] /\ dials' = [dials EXCEPT ![l] = "locked"]
           /\ dial' = [dial EXCEPT ![c].pc = "connect"] /\ call' = call
    BY DEF DialLocked
  <1>a. c \in DOMAIN scenario.lane /\ call[c].pc \in {"dial", "deadline"}
    BY <1>0 DEF NetworkIInv, Dialed
  <1>b. l \in Lanes
    BY <1>a, LaneIsOne DEF NetworkIInv
  <1>l. \A d \in Calls : ~Dialing(d, l)
    BY <1>0, <1>b DEF NetworkIInv, Dialed
  <1>m. c \in DOMAIN scenario.lane /\ Lane(c) = l
    BY <1>a
  <1> HIDE DEF l
  <1>c. /\ pool[l] \in Conns /\ NoConn \in Conns /\ NoDial \in DialRecords /\ dial \in [Calls -> DialRecords]
        /\ call \in [Calls -> CallRecords] /\ pool \in [Lanes -> Conns] /\ dials \in [Lanes -> {"free", "locked"}]
    BY <1>b, NoConnIsDead DEF NetworkIInv, NetworkTypeOK, CallRecords, DialRecords
  <1>2. CASE dial' = [dial EXCEPT ![c] = NoDial] /\ call' = Resume(c, pool[l]) /\ pool' = pool /\ dials' = dials
    <2>1. NetworkTypeOK'
      <3>1. call' \in [Calls -> CallRecords]
        BY <1>2, <1>c, Resumed
      <3>2. dial' \in [Calls -> DialRecords]
        BY <1>2, <1>c, DialReplaced DEF NetworkIInv
      <3> QED BY <1>0, <1>2, <3>1, <3>2 DEF NetworkIInv, NetworkTypeOK, CallRecords, DialRecords, Conns
    <2>2. Executed' /\ InService' /\ SlotsBounded'
      BY <1>0, <1>2, <1>c, ResumeKeeps
    <2>3. LaneRecovers'
      BY <1>0, <1>2, LanesKept
    <2>4. Dialed'
      <3>1. dial'[c].pc = "none" /\ \A d \in Calls : d # c => dial'[d] = dial[d]
        BY <1>2, <1>c DEF NoDial
      <3>2. \A d \in Calls, m \in Lanes : Dialing(d, m)' <=> Dialing(d, m)
        BY <1>0, <3>1 DEF Dialing, Lane
      <3>3. \A d \in Calls : d # c => call'[d] = call[d]
        BY <1>2, <1>c, Resumed
      <3> QED BY <1>0, <1>2, <1>a, <3>1, <3>2, <3>3 DEF NetworkIInv, Dialed
    <2> QED BY <2>1, <2>2, <2>3, <2>4 DEF NetworkIInv
  <1>3. CASE /\ pool' = [pool EXCEPT ![l] = NoConn] /\ dials' = [dials EXCEPT ![l] = "locked"]
             /\ dial' = [dial EXCEPT ![c].pc = "connect"] /\ call' = call
    <2>1. NetworkTypeOK'
      <3>1. dial' \in [Calls -> DialRecords]
        BY <1>3, DialMoves DEF NetworkIInv
      <3>2. pool' \in [Lanes -> Conns] /\ dials' \in [Lanes -> {"free", "locked"}]
        BY <1>3, <1>c
      <3> QED BY <1>0, <1>3, <3>1, <3>2 DEF NetworkIInv, NetworkTypeOK, DialRecords, Conns
    <2>2. Executed' /\ InService' /\ SlotsBounded'
      BY <1>0, <1>3 DEF NetworkIInv, Executed, InService, SlotsBounded, Alive, Fresh
    <2>3. LaneRecovers'
      <3>1. \A m \in Lanes : pool'[m] \in {pool[m], NoConn}
        BY <1>3, <1>c
      <3> QED BY <1>0, <3>1, LanesKept
    <2>4. Dialed'
      <3>1. /\ dial'[c].pc = "connect" /\ \A d \in Calls : d # c => dial'[d] = dial[d]
            /\ dials'[l] = "locked" /\ \A m \in Lanes : m # l => dials'[m] = dials[m]
        BY <1>3, <1>b, <1>c DEF DialRecords
      <3>2. \A d \in Calls, m \in Lanes : Dialing(d, m)' <=> Dialing(d, m) \/ (d = c /\ m = l)
        BY <1>0, <1>m, <3>1 DEF Dialing, Lane
      <3>3. \A d \in Calls : call'[d].pc # "new" => d \in DOMAIN scenario.lane
        BY <1>3 DEF NetworkIInv, Dialed
      <3>4. \A d \in Calls : dial'[d].pc # "none" => call'[d].pc \in {"dial", "deadline"}
        BY <1>3, <1>a, <3>1 DEF NetworkIInv, Dialed
      <3>5. \A m \in Lanes : dials'[m] = "free" => \A d \in Calls : ~Dialing(d, m)'
        BY <3>1, <3>2 DEF NetworkIInv, Dialed
      <3>6. \A m \in Lanes : dials'[m] = "locked" => \E e \in Calls : Dialing(e, m)' /\ \A d \in Calls : Dialing(d, m)' => d = e
        <4> TAKE m \in Lanes
        <4>1. CASE m = l
          BY <1>l, <3>2, <4>1
        <4>2. CASE m # l
          BY <3>1, <3>2, <4>2 DEF NetworkIInv, Dialed
        <4> QED BY <4>1, <4>2
      <3> QED BY <1>0, <3>3, <3>4, <3>5, <3>6 DEF Dialed
    <2> QED BY <2>1, <2>2, <2>3, <2>4 DEF NetworkIInv
  <1> QED BY <1>1, <1>2, <1>3

\* A dial that fails.
LEMMA DialFailsIInv ==
    ASSUME NetworkIInv, NEW c \in Calls, DialFails(c)
    PROVE  NetworkIInv'
  <1>0. /\ UNCHANGED <<inc, listening, authenticated, seen, served, slots, dispatched, clock, digest, known, pool,
                       closed, gossip, nextConn, failed, scenario>>
        /\ dial[c].pc = "connect" /\ EndDial(c, NoConn)
    BY DEF DialFails, server
  <1>a. NoConn \in Conns
    BY NoConnIsDead DEF NetworkIInv
  <1>1. /\ Dialed' /\ dial' \in [Calls -> DialRecords] /\ dials' \in [Lanes -> {"free", "locked"}]
        /\ call' \in [Calls -> CallRecords]
    BY <1>0, <1>a, EndDialDialed
  <1>2. NetworkTypeOK'
    BY <1>0, <1>1 DEF NetworkIInv, NetworkTypeOK, CallRecords, DialRecords, Conns
  <1>3. Executed' /\ InService' /\ SlotsBounded'
    BY <1>0, <1>a, ResumeKeeps DEF EndDial
  <1>4. LaneRecovers'
    BY <1>0, LanesKept
  <1> QED BY <1>1, <1>2, <1>3, <1>4 DEF NetworkIInv

\* A handshake gives the task a connection to the peer as it is now.
LEMMA DialHandshakeIInv ==
    ASSUME NetworkIInv, NEW c \in Calls, DialHandshake(c)
    PROVE  NetworkIInv'
  <1> DEFINE r == [pc |-> "insert", conn |-> [id |-> nextConn, inc |-> inc]]
  <1>0. /\ UNCHANGED <<inc, listening, seen, served, slots, dispatched, clock, pool, dials, call, closed, gossip, failed,
                       scenario>>
        /\ dial[c].pc = "connect" /\ nextConn' = nextConn + 1 /\ authenticated' = authenticated \cup {nextConn}
        /\ digest' = inc /\ known' = TRUE /\ dial' = [dial EXCEPT ![c] = r]
    BY DEF DialHandshake
  <1>1. nextConn \in Nat \ {0} /\ inc \in Nat \ {0} /\ nextConn' \in Nat \ {0} /\ digest' \in 0 .. inc
    BY <1>0 DEF NetworkIInv, NetworkTypeOK
  <1>2. r \in DialRecords
    BY <1>1 DEF DialRecords, Conns
  <1>3. r.pc = "insert"
    OBVIOUS
  <1> HIDE DEF r
  <1>4. NetworkTypeOK'
    <2>1. dial' \in [Calls -> DialRecords]
      BY <1>0, <1>2, DialReplaced DEF NetworkIInv
    <2>2. authenticated' \subseteq Nat
      BY <1>0, <1>1 DEF NetworkIInv, NetworkTypeOK
    <2> QED BY <1>0, <1>1, <2>1, <2>2 DEF NetworkIInv, NetworkTypeOK, DialRecords, Conns
  <1>5. Executed' /\ InService' /\ SlotsBounded' /\ LaneRecovers'
    BY <1>0 DEF NetworkIInv, Executed, InService, SlotsBounded, LaneRecovers, Alive, Fresh
  <1>6. Dialed'
    <2>1. dial'[c].pc = "insert" /\ \A d \in Calls : d # c => dial'[d] = dial[d]
      BY <1>0, <1>3 DEF NetworkIInv, NetworkTypeOK
    <2>2. \A d \in Calls, m \in Lanes : Dialing(d, m)' <=> Dialing(d, m)
      BY <1>0, <2>1 DEF Dialing, Lane
    <2>3. \A d \in Calls : dial'[d].pc # "none" => call[d].pc \in {"dial", "deadline"}
      BY <1>0, <2>1 DEF NetworkIInv, Dialed
    <2> QED BY <1>0, <2>2, <2>3 DEF NetworkIInv, Dialed
  <1> QED BY <1>4, <1>5, <1>6 DEF NetworkIInv

\* What recording a descriptor leaves in the pool.
LEMMA RetainedPool ==
    ASSUME NetworkTypeOK, NEW h, NEW i
    PROVE  Retained(h, i) \in [Lanes -> Conns] /\ \A l \in Lanes : Retained(h, i)[l] \in {pool[l], NoConn}
  <1>1. NoConn \in Conns /\ pool \in [Lanes -> Conns]
    BY NoConnIsDead DEF NetworkTypeOK
  <1> QED BY <1>1 DEF Retained

\* The new connection enters the pool; one from before a restart ends the
\* lane's recovery.
LEMMA DialInsertIInv ==
    ASSUME NetworkIInv, NEW c \in Calls, DialInsert(c)
    PROVE  NetworkIInv'
  <1> DEFINE l == Lane(c)
             kept == Retained(Handle[l], dial[c].conn.inc)
             conn == IF IsCurrent(kept[l]) THEN kept[l] ELSE dial[c].conn
  <1>0. /\ UNCHANGED <<inc, listening, authenticated, seen, served, slots, dispatched, clock, digest, known,
                       closed, gossip, nextConn, scenario>>
        /\ dial[c].pc = "insert" /\ pool' = [kept EXCEPT ![l] = conn] /\ EndDial(c, conn)
        /\ failed' = [failed EXCEPT ![l] = failed[l] /\ conn.inc = inc]
    BY DEF DialInsert, server
  <1>a. l \in Lanes
    BY <1>0, TheDialer
  <1>b. kept \in [Lanes -> Conns] /\ \A m \in Lanes : kept[m] \in {pool[m], NoConn}
    BY RetainedPool DEF NetworkIInv
  <1> HIDE DEF l, kept
  <1>c. conn \in Conns
    BY <1>a, <1>b, CallParts DEF NetworkIInv
  <1> HIDE DEF conn
  <1>1. /\ Dialed' /\ dial' \in [Calls -> DialRecords] /\ dials' \in [Lanes -> {"free", "locked"}]
        /\ call' \in [Calls -> CallRecords]
    BY <1>0, <1>c, EndDialDialed
  <1>2. pool' \in [Lanes -> Conns] /\ pool'[l] = conn /\ \A m \in Lanes : m # l => pool'[m] = kept[m]
    BY <1>0, <1>a, <1>b, <1>c
  <1>3. /\ failed' \in [Lanes -> BOOLEAN] /\ (failed'[l] => conn.inc = inc)
        /\ \A m \in Lanes : m # l => failed'[m] = failed[m]
    BY <1>0, <1>a DEF NetworkIInv, NetworkTypeOK
  <1>4. NetworkTypeOK'
    BY <1>0, <1>1, <1>2, <1>3 DEF NetworkIInv, NetworkTypeOK, CallRecords, DialRecords, Conns
  <1>5. Executed' /\ InService' /\ SlotsBounded'
    BY <1>0, <1>c, ResumeKeeps DEF EndDial
  <1>6. LaneRecovers'
    <2>1. \A m \in Lanes : listening /\ failed'[m] => pool'[m].inc \in {0, inc}
      BY <1>2, <1>3, <1>b DEF NetworkIInv, LaneRecovers, NoConn
    <2> QED BY <1>0, <2>1 DEF LaneRecovers
  <1> QED BY <1>1, <1>4, <1>5, <1>6 DEF NetworkIInv

\* A stream opens and the request is sent.
LEMMA OpenStreamIInv ==
    ASSUME NetworkIInv, NEW c \in Calls, OpenStream(c)
    PROVE  NetworkIInv'
  <1>0. /\ UNCHANGED <<inc, listening, authenticated, seen, served, slots, dispatched, clock, digest, known, pool, dials, dial,
                       closed, gossip, nextConn, failed, scenario>>
        /\ call[c].pc = "open" /\ call' = [call EXCEPT ![c].pc = "sent", ![c].sent = clock]
    BY DEF OpenStream, server
  <1>1. call' \in [Calls -> CallRecords]
    <2>1. "sent" \in Steps /\ clock \in Nat
      BY DEF NetworkIInv, NetworkTypeOK, Steps
    <2> QED BY <1>0, <2>1, CallSent DEF NetworkIInv
  <1>2. NetworkTypeOK'
    BY <1>0, <1>1 DEF NetworkIInv, NetworkTypeOK, CallRecords, Conns
  <1>a. call'[c].pc = "sent" /\ call'[c].sent = clock /\ \A d \in Calls : d # c => call'[d] = call[d]
    BY <1>0 DEF NetworkIInv, NetworkTypeOK
  <1>b. dispatched[c] = 0 /\ dial[c].pc = "none" /\ c \notin slots /\ c \in DOMAIN scenario.lane
    BY <1>0 DEF NetworkIInv, Executed, Dialed, InService, Unsent
  <1>3. Executed'
    BY <1>0, <1>a, <1>b, ExecutedKept DEF Unsent
  <1>4. Dialed'
    BY <1>0, <1>a, <1>b, DialedKept
  <1>5. InService' /\ SlotsBounded'
    BY <1>0, <1>a, <1>b, ServiceKept
  <1>6. LaneRecovers'
    BY <1>0, LanesKept
  <1> QED BY <1>2, <1>3, <1>4, <1>5, <1>6 DEF NetworkIInv

\* A closed connection leaves the pool and the call tries again, or ends.
LEMMA OpenFailsIInv ==
    ASSUME NetworkIInv, NEW c \in Calls, OpenFails(c)
    PROVE  NetworkIInv'
  <1> DEFINE l == Lane(c)
             p == Reopened(c)
             kept == IF pool[l].id = call[c].conn.id THEN NoConn ELSE pool[l]
  <1>0. /\ UNCHANGED <<inc, listening, authenticated, seen, served, slots, dispatched, clock, digest, known, dials, dial,
                       closed, gossip, nextConn, failed, scenario>>
        /\ call[c].pc = "open" /\ pool' = [pool EXCEPT ![l] = kept]
        /\ call' = [call EXCEPT ![c].pc = p, ![c].tries = 2]
    BY DEF OpenFails, server
  <1>a. dispatched[c] = 0 /\ dial[c].pc = "none" /\ c \notin slots /\ c \in DOMAIN scenario.lane
    BY <1>0 DEF NetworkIInv, Executed, Dialed, InService, Unsent
  <1>b. l \in Lanes
    BY <1>a, LaneIsOne DEF NetworkIInv
  <1>c. p \in {"pool", "deadline"} /\ p \in Steps /\ 2 \in 0 .. 2
    BY DEF Reopened, Steps, Ended
  <1>d. kept \in {pool[l], NoConn}
    OBVIOUS
  <1> HIDE DEF l, p, kept
  <1>1. call' \in [Calls -> CallRecords]
    BY <1>0, <1>c, CallTried DEF NetworkIInv
  <1>2. pool' \in [Lanes -> Conns] /\ \A m \in Lanes : pool'[m] \in {pool[m], NoConn}
    BY <1>0, <1>b, <1>d, NoConnIsDead DEF NetworkIInv, NetworkTypeOK
  <1>3. NetworkTypeOK'
    BY <1>0, <1>1, <1>2 DEF NetworkIInv, NetworkTypeOK, CallRecords, Conns
  <1>e. call'[c].pc = p /\ call'[c].sent = call[c].sent /\ \A d \in Calls : d # c => call'[d] = call[d]
    BY <1>0 DEF NetworkIInv, NetworkTypeOK
  <1>4. Executed'
    BY <1>0, <1>a, <1>c, <1>e, ExecutedKept
  <1>5. Dialed'
    BY <1>0, <1>a, <1>e, DialedKept
  <1>6. InService' /\ SlotsBounded'
    BY <1>0, <1>a, <1>e, ServiceKept
  <1>7. LaneRecovers'
    BY <1>0, <1>2, LanesKept
  <1> QED BY <1>3, <1>4, <1>5, <1>6, <1>7 DEF NetworkIInv

\* A call that times out takes the lane's entry with it.
LEMMA TimeoutIInv ==
    ASSUME NetworkIInv, NEW c \in Calls, Timeout(c)
    PROVE  NetworkIInv'
  <1> DEFINE l == Lane(c)
             k == IF call[c].pc \in {"sent", "served"} THEN call[c].conn ELSE NoConn
  <1>0. /\ UNCHANGED <<inc, listening, authenticated, seen, served, dispatched, clock, digest, known, dials, dial,
                       closed, gossip, nextConn, scenario>>
        /\ call[c].pc \in {"pool", "dial", "open", "sent", "served"}
        /\ failed' = [failed EXCEPT ![l] = failed[l] \/ (Lost(c) /\ listening)]
        /\ pool' = [pool EXCEPT ![l] = NoConn]
        /\ call' = [call EXCEPT ![c].pc = "deadline", ![c].conn = k]
        /\ slots' = slots \ {c}
    BY DEF Timeout, Removed
  <1>a. c \in DOMAIN scenario.lane
    BY <1>0 DEF NetworkIInv, Dialed
  <1>b. l \in Lanes
    BY <1>a, LaneIsOne DEF NetworkIInv
  <1>c. k \in Conns /\ (k = call[c].conn \/ dispatched[c] = 0) /\ NoConn \in Conns
    BY <1>0, NoConnIsDead, CallParts DEF NetworkIInv, Executed, Unsent
  <1> HIDE DEF l, k
  <1>1. call' \in [Calls -> CallRecords]
    <2>1. "deadline" \in Steps
      BY DEF Steps, Ended
    <2> QED BY <1>0, <1>c, <2>1, CallConnected DEF NetworkIInv
  <1>2. pool' \in [Lanes -> Conns] /\ pool'[l] = NoConn /\ \A m \in Lanes : m # l => pool'[m] = pool[m]
    BY <1>0, <1>b, <1>c DEF NetworkIInv, NetworkTypeOK
  <1>3. failed' \in [Lanes -> BOOLEAN] /\ \A m \in Lanes : m # l => failed'[m] = failed[m]
    <2>1. (failed[l] \/ (Lost(c) /\ listening)) \in BOOLEAN
      BY <1>b DEF NetworkIInv, NetworkTypeOK, Lost
    <2> QED BY <1>0, <1>b, <2>1 DEF NetworkIInv, NetworkTypeOK
  <1>4. NetworkTypeOK'
    <2>1. slots' \subseteq Calls
      BY <1>0 DEF NetworkIInv, NetworkTypeOK
    <2> QED BY <1>0, <1>1, <1>2, <1>3, <2>1 DEF NetworkIInv, NetworkTypeOK, CallRecords, Conns
  <1>d. /\ call'[c].pc = "deadline" /\ call'[c].conn = k /\ call'[c].sent = call[c].sent
        /\ \A d \in Calls : d # c => call'[d] = call[d]
    BY <1>0 DEF NetworkIInv, NetworkTypeOK
  <1>5. Executed'
    BY <1>0, <1>c, <1>d, ExecutedKept DEF Unsent
  <1>6. Dialed'
    BY <1>0, <1>a, <1>d, DialedKept
  <1>7. InService' /\ SlotsBounded'
    BY <1>0, <1>d, ServiceKept
  <1>8. LaneRecovers'
    BY <1>0, <1>2, <1>3, LanesKept
  <1> QED BY <1>4, <1>5, <1>6, <1>7, <1>8 DEF NetworkIInv

\* An answer arrives, or is lost with the peer.
LEMMA AnswerIInv ==
    ASSUME NetworkIInv, NEW c \in Calls, Answer(c) \/ Unanswered(c)
    PROVE  NetworkIInv'
  <1> DEFINE p == IF Alive(call[c].conn) THEN "ok" ELSE "sent"
  <1>0. /\ UNCHANGED <<inc, listening, authenticated, seen, served, dispatched, clock, digest, known, pool, dials, dial,
                       closed, gossip, nextConn, failed, scenario>>
        /\ call[c].pc = "served" /\ call' = [call EXCEPT ![c].pc = p]
        /\ slots' = slots \ {c} \/ (slots' = slots /\ ~Alive(call[c].conn))
    BY DEF Answer, Unanswered, server
  <1>a. dispatched[c] = 1 /\ dial[c].pc = "none" /\ c \in DOMAIN scenario.lane /\ (~Alive(call[c].conn) => c \notin slots)
    BY <1>0 DEF NetworkIInv, Executed, Dialed, InService
  <1>b. p \in {"ok", "sent"} /\ p \in Steps
    BY DEF Steps, Ended
  <1> HIDE DEF p
  <1>1. call' \in [Calls -> CallRecords]
    BY <1>0, <1>b, CallMoves DEF NetworkIInv
  <1>2. slots' \subseteq Calls /\ (slots' = slots \ {c} \/ (slots' = slots /\ c \notin slots))
    BY <1>0, <1>a DEF NetworkIInv, NetworkTypeOK
  <1>3. NetworkTypeOK'
    BY <1>0, <1>1, <1>2 DEF NetworkIInv, NetworkTypeOK, CallRecords, Conns
  <1>c. /\ call'[c].pc = p /\ call'[c].conn = call[c].conn /\ call'[c].sent = call[c].sent
        /\ \A d \in Calls : d # c => call'[d] = call[d]
    BY <1>0 DEF NetworkIInv, NetworkTypeOK
  <1>4. Executed'
    BY <1>0, <1>a, <1>b, <1>c, ExecutedKept DEF Unsent
  <1>5. Dialed'
    BY <1>0, <1>a, <1>c, DialedKept
  <1>6. InService' /\ SlotsBounded'
    BY <1>0, <1>2, <1>c, ServiceKept
  <1>7. LaneRecovers'
    BY <1>0, LanesKept
  <1> QED BY <1>3, <1>4, <1>5, <1>6, <1>7 DEF NetworkIInv

\* What the peer's clean-up of its replay window forgets is too old to arrive.
LEMMA ReplayKept ==
    ASSUME NetworkIInv, NEW d \in Calls, NEW e \in seen, e.at >= call[d].sent, Fresh(d)
    PROVE  e \in Remembered(seen)
  <1>1. e.at \in Nat /\ clock \in Nat /\ call[d].sent \in Nat
    BY CallParts DEF NetworkIInv, NetworkTypeOK
  <1> QED BY <1>1 DEF Fresh, Remembered, Window

\* A valid request was not executed before.
LEMMA ValidIsNew ==
    ASSUME NetworkIInv, NEW c \in Calls, Alive(call[c].conn), Valid(c, call[c].conn)
    PROVE  dispatched[c] = 0
  <1> SUFFICES ASSUME dispatched[c] # 0 PROVE FALSE
    OBVIOUS
  <1>1. PICK e \in seen : e.call = c /\ e.at >= call[c].sent
    BY DEF NetworkIInv, Executed, Valid
  <1>2. e \in Remembered(seen)
    BY <1>1, ReplayKept DEF Valid
  <1> QED BY <1>1, <1>2 DEF Valid, Admits

\* A request arrives, for the first time or again.
LEMMA ReceiveIInv ==
    ASSUME NetworkIInv, NEW c \in Calls, NEW duplicate \in BOOLEAN, Receive(c, duplicate)
    PROVE  NetworkIInv'
  <1> DEFINE conn == call[c].conn
             valid == Valid(c, conn)
             entry == [call |-> c, at |-> clock]
  <1>0. /\ UNCHANGED <<inc, listening, authenticated, clock, digest, known, pool, dials, dial, closed, gossip, nextConn, failed,
                       scenario>>
        /\ Alive(conn)
        /\ IF duplicate THEN call[c].pc \in {"served"} \cup Ended /\ conn.id # 0
           ELSE call[c].pc = "sent" /\ Cardinality({d \in slots : call[d].conn = conn}) < Slots
        /\ served' \in {served, served + 1}
        /\ dispatched' = [dispatched EXCEPT ![c] = IF valid THEN dispatched[c] + 1 ELSE dispatched[c]]
        /\ call' = IF duplicate THEN call ELSE [call EXCEPT ![c].pc = IF valid THEN "served" ELSE "refused"]
        /\ slots' = IF duplicate \/ ~valid THEN slots ELSE slots \cup {c}
    BY DEF Receive
  <1>1. /\ seen' \in {seen, Remembered(seen), Remembered(seen) \cup {entry}}
        /\ valid => seen' = Remembered(seen) \cup {entry}
    BY DEF Receive, Valid
  <1>2. valid => dispatched[c] = 0
    BY <1>0, ValidIsNew
  <1>3. call[c].pc # "unreachable" /\ call[c].pc \notin {"new", "pool", "dial", "open"}
    <2>1. call[c].pc = "unreachable" => conn.id = 0
      BY NoConnIsDead DEF NetworkIInv, Executed
    <2> QED BY <1>0, <2>1 DEF Ended
  <1>4. call \in [Calls -> CallRecords] /\ dispatched \in [Calls -> Nat] /\ clock \in Nat /\ call[c].sent <= clock
    BY DEF NetworkIInv, NetworkTypeOK, CallRecords, Executed
  <1>5. /\ call' \in [Calls -> CallRecords] /\ \A d \in Calls : d # c => call'[d] = call[d]
        /\ call'[c].conn = conn /\ call'[c].sent = call[c].sent
        /\ call'[c].pc = IF duplicate THEN call[c].pc ELSE IF valid THEN "served" ELSE "refused"
    <2>1. CASE duplicate
      BY <1>0, <1>4, <2>1
    <2>2. CASE ~duplicate
      <3> DEFINE p == IF valid THEN "served" ELSE "refused"
      <3>1. p \in Steps /\ call' = [call EXCEPT ![c].pc = p]
        BY <1>0, <2>2 DEF Steps, Ended
      <3> HIDE DEF p
      <3>2. call' \in [Calls -> CallRecords]
        BY <3>1, CallMoves DEF NetworkIInv
      <3>3. /\ call'[c].pc = p /\ call'[c].conn = conn /\ call'[c].sent = call[c].sent
            /\ \A d \in Calls : d # c => call'[d] = call[d]
        BY <1>4, <3>1 DEF CallRecords
      <3> QED BY <2>2, <3>2, <3>3 DEF p
    <2> QED BY <2>1, <2>2
  <1>6. /\ dispatched' \in [Calls -> Nat] /\ \A d \in Calls : d # c => dispatched'[d] = dispatched[d]
        /\ dispatched'[c] = IF valid THEN 1 ELSE dispatched[c]
    <2>1. CASE valid
      BY <1>0, <1>2, <1>4, <2>1
    <2>2. CASE ~valid
      BY <1>0, <1>4, <2>2
    <2> QED BY <2>1, <2>2
  <1> HIDE DEF valid, entry
  <1>7. NetworkTypeOK'
    <2>1. seen' \subseteq [call : Calls, at : Nat]
      BY <1>1, <1>4 DEF NetworkIInv, NetworkTypeOK, Remembered, entry
    <2>2. served' \in Nat /\ slots' \subseteq Calls
      BY <1>0 DEF NetworkIInv, NetworkTypeOK
    <2> QED BY <1>0, <1>5, <1>6, <2>1, <2>2 DEF NetworkIInv, NetworkTypeOK, CallRecords, Conns
  <1>8. Executed'
    <2>1. ASSUME NEW d \in Calls, dispatched'[d] # 0, Alive(call[d].conn), Fresh(d)
          PROVE  \E e \in seen' : e.call = d /\ e.at >= call[d].sent
      <3>1. CASE d = c /\ valid
        <4>1. entry \in seen' /\ entry.call = c /\ entry.at = clock
          BY <1>1, <3>1 DEF entry
        <4>2. clock >= call[c].sent
          BY <1>4, CallParts DEF NetworkIInv
        <4> QED BY <3>1, <4>1, <4>2
      <3>2. CASE ~(d = c /\ valid)
        <4>1. dispatched[d] # 0
          BY <1>6, <2>1, <3>2
        <4>2. PICK e \in seen : e.call = d /\ e.at >= call[d].sent
          BY <2>1, <4>1 DEF NetworkIInv, Executed
        <4>3. e \in Remembered(seen)
          BY <2>1, <4>2, ReplayKept
        <4>4. Remembered(seen) \subseteq seen'
          BY <1>1 DEF Remembered
        <4> QED BY <4>2, <4>3, <4>4
      <3> QED BY <3>1, <3>2
    <2>2. \A d \in Calls : call'[d].conn = call[d].conn /\ call'[d].sent = call[d].sent
      BY <1>5
    <2>3. \A d \in Calls : (Alive(call[d].conn)' <=> Alive(call[d].conn)) /\ (Fresh(d)' <=> Fresh(d))
      BY <1>0, <2>2 DEF Alive, Fresh
    <2>4. \A d \in Calls : dispatched'[d] # 0 /\ Alive(call[d].conn)' =>
              ~Fresh(d)' \/ \E e \in seen' : e.call = d /\ e.at >= call'[d].sent
      BY <2>1, <2>2, <2>3
    <2>5. \A d \in Calls : /\ dispatched'[d] <= 1 /\ call'[d].sent <= clock'
                           /\ call'[d].pc \in Unsent => dispatched'[d] = 0
                           /\ call'[d].pc \in {"served", "ok"} => dispatched'[d] = 1
                           /\ call'[d].pc = "unreachable" => call'[d].conn = NoConn
      <3> TAKE d \in Calls
      <3>1. CASE d # c
        BY <1>0, <1>5, <1>6, <3>1 DEF NetworkIInv, Executed
      <3>2. CASE d = c
        <4>1. dispatched'[c] <= 1
          BY <1>6 DEF NetworkIInv, Executed
        <4>2. call'[c].pc \notin Unsent
          BY <1>3, <1>5 DEF Unsent
        <4>3. call'[c].pc \in {"served", "ok"} => dispatched'[c] = 1
          BY <1>0, <1>5, <1>6 DEF NetworkIInv, Executed
        <4>4. call'[c].pc # "unreachable"
          BY <4>2 DEF Unsent
        <4> QED BY <1>0, <1>4, <1>5, <3>2, <4>1, <4>2, <4>3, <4>4
      <3> QED BY <3>1, <3>2
    <2> QED BY <2>4, <2>5 DEF Executed
  <1>9. Dialed'
    <2>1. c \in DOMAIN scenario.lane
      BY <1>3 DEF NetworkIInv, Dialed
    <2>2. dial[c].pc # "none" => call'[c].pc \in {"dial", "deadline"}
      BY <1>0, <1>5 DEF NetworkIInv, Dialed
    <2> QED BY <1>0, <1>5, <2>1, <2>2, DialedKept
  <1>10. LaneRecovers'
    BY <1>0, LanesKept
  <1>11. InService' /\ SlotsBounded'
    <2>1. CASE duplicate
      BY <1>0, <2>1 DEF NetworkIInv, InService, SlotsBounded, Alive
    <2>2. CASE ~duplicate /\ ~valid
      <3>1. c \notin slots
        BY <1>0, <2>2 DEF NetworkIInv, InService
      <3> QED BY <1>0, <1>5, <2>2, <3>1, ServiceKept
    <2>3. CASE ~duplicate /\ valid
      <3>0. slots' = slots \cup {c} /\ call'[c].pc = "served" /\ Cardinality({d \in slots : call[d].conn = conn}) < Slots
        BY <1>0, <1>5, <2>3
      <3>1. slots \subseteq Calls /\ IsFiniteSet(Calls) /\ Slots \in Nat /\ IsFiniteSet(slots)
        BY NetworkAssumption, FS_Subset DEF NetworkIInv, NetworkTypeOK
      <3>2. InService'
        BY <1>0, <1>5, <3>0, <3>1 DEF NetworkIInv, InService, Alive
      <3>3. \A d \in slots' : call'[d].conn = call[d].conn
        BY <1>5, <3>0, <3>1
      <3>4. ASSUME NEW d \in slots' PROVE Cardinality({e \in slots' : call'[e].conn = call'[d].conn}) <= Slots
        <4> DEFINE before == {e \in slots : call[e].conn = call[d].conn}
                   after == {e \in slots' : call'[e].conn = call'[d].conn}
        <4>1. IsFiniteSet(before) /\ Cardinality(before) \in Nat
          BY <3>1, FS_Subset, FS_CardinalityType
        <4>2. CASE call[d].conn = conn
          <5>1. Cardinality(before) < Slots
            BY <3>0, <4>2
          <5>2. after = before \cup {c}
            BY <3>0, <3>3, <4>2
          <5> HIDE DEF before, after
          <5>3. Cardinality(after) \in {Cardinality(before), Cardinality(before) + 1}
            BY <4>1, <5>2, FS_AddElement
          <5>4. Cardinality(after) <= Slots
            BY <3>1, <4>1, <5>1, <5>3
          <5> QED BY <5>4 DEF after
        <4>3. CASE call[d].conn # conn
          <5>1. d \in slots
            BY <3>0, <4>3
          <5>2. after = before
            BY <3>0, <3>3, <4>3
          <5> QED BY <5>1, <5>2 DEF NetworkIInv, SlotsBounded
        <4> QED BY <4>2, <4>3
      <3>5. SlotsBounded'
        BY <3>4 DEF SlotsBounded
      <3> QED BY <3>2, <3>5
    <2> QED BY <2>1, <2>2, <2>3
  <1> QED BY <1>7, <1>8, <1>9, <1>10, <1>11 DEF NetworkIInv

\* QUIC notices a dead connection; a descriptor is signed.
LEMMA NoticeIInv ==
    ASSUME NetworkIInv, Describe \/ \E c \in Calls : Notice(c)
    PROVE  NetworkIInv'
  <1>0. /\ UNCHANGED <<inc, listening, authenticated, seen, served, slots, dispatched, clock, digest, known, pool, dials, dial,
                       call, nextConn, failed, scenario>>
        /\ \/ closed' = closed /\ gossip' = gossip \cup {inc}
           \/ gossip' = gossip /\ \E c \in Calls : closed' = closed \cup {call[c].conn.id}
    BY DEF Describe, Notice, server
  <1>1. closed' \subseteq Nat /\ gossip' \subseteq 0 .. inc
    <2>1. \A c \in Calls : call[c].conn.id \in Nat
      BY CallParts DEF NetworkIInv
    <2>2. closed \subseteq Nat /\ gossip \subseteq 0 .. inc /\ inc \in 0 .. inc
      BY DEF NetworkIInv, NetworkTypeOK
    <2> QED BY <1>0, <2>1, <2>2
  <1>2. NetworkTypeOK'
    BY <1>0, <1>1 DEF NetworkIInv, NetworkTypeOK, Conns
  <1>3. Executed' /\ Dialed'
    BY <1>0 DEF NetworkIInv, Executed, Dialed, Dialing, Lane, Alive, Fresh
  <1>4. InService' /\ SlotsBounded' /\ LaneRecovers'
    BY <1>0 DEF NetworkIInv, InService, SlotsBounded, LaneRecovers, Alive
  <1> QED BY <1>2, <1>3, <1>4 DEF NetworkIInv

\* A descriptor is recorded, an old one too.
LEMMA RecordDescriptorIInv ==
    ASSUME NetworkIInv, NEW g \in gossip, RecordDescriptor(g)
    PROVE  NetworkIInv'
  <1>0. /\ UNCHANGED <<inc, listening, authenticated, seen, served, slots, dispatched, clock, dials, dial,
                       call, closed, nextConn, failed, scenario>>
        /\ digest' = g /\ known' = TRUE /\ pool' = Retained("main", g) /\ gossip' = gossip \ {g}
    BY DEF RecordDescriptor, server
  <1>1. pool' \in [Lanes -> Conns] /\ \A l \in Lanes : pool'[l] \in {pool[l], NoConn}
    BY <1>0, RetainedPool DEF NetworkIInv
  <1>2. NetworkTypeOK'
    <2>1. digest' \in 0 .. inc /\ gossip' \subseteq 0 .. inc
      BY <1>0 DEF NetworkIInv, NetworkTypeOK
    <2> QED BY <1>0, <1>1, <2>1 DEF NetworkIInv, NetworkTypeOK, Conns
  <1>3. Executed' /\ Dialed'
    BY <1>0 DEF NetworkIInv, Executed, Dialed, Dialing, Lane, Alive, Fresh
  <1>4. InService' /\ SlotsBounded'
    BY <1>0 DEF NetworkIInv, InService, SlotsBounded, Alive
  <1>5. LaneRecovers'
    BY <1>0, <1>1, LanesKept
  <1> QED BY <1>2, <1>3, <1>4, <1>5 DEF NetworkIInv

\* The peer crashes: its connections are dead.
LEMMA CrashIInv ==
    ASSUME NetworkIInv, Crash
    PROVE  NetworkIInv'
  <1>0. /\ UNCHANGED <<inc, dispatched, clock, digest, known, pool, dials, dial, call, closed, gossip, nextConn, failed, scenario>>
        /\ listening' = FALSE /\ authenticated' = {} /\ seen' = {} /\ served' = 0 /\ slots' = {}
    BY DEF Crash, client
  <1>1. NetworkTypeOK'
    BY <1>0 DEF NetworkIInv, NetworkTypeOK, Conns
  <1>2. Executed' /\ Dialed'
    BY <1>0 DEF NetworkIInv, Executed, Dialed, Dialing, Lane, Alive
  <1>3. InService' /\ SlotsBounded' /\ LaneRecovers'
    BY <1>0 DEF InService, SlotsBounded, LaneRecovers
  <1> QED BY <1>1, <1>2, <1>3 DEF NetworkIInv

\* It comes back as another incarnation, to which no connection belongs yet.
LEMMA RestartIInv ==
    ASSUME NetworkIInv, Restart
    PROVE  NetworkIInv'
  <1>0. /\ UNCHANGED <<authenticated, seen, served, slots, dispatched, clock, digest, known, pool, dials, dial, call, closed,
                       gossip, nextConn, scenario>>
        /\ ~listening /\ listening' = TRUE /\ inc' = inc + 1 /\ failed' = [l \in Lanes |-> FALSE]
    BY DEF Restart
  <1>1. inc \in Nat \ {0} /\ inc' \in Nat \ {0} /\ 0 .. inc \subseteq 0 .. inc'
    BY <1>0 DEF NetworkIInv, NetworkTypeOK
  <1>2. Conns \subseteq Conns'
    BY <1>1 DEF Conns
  <1>3. NetworkTypeOK'
    <2>1. pool' \in [Lanes -> Conns'] /\ failed' \in [Lanes -> BOOLEAN]
      BY <1>0, <1>2 DEF NetworkIInv, NetworkTypeOK
    <2>2. dial' \in [Calls -> [pc : {"none", "wait", "connect", "insert"}, conn : Conns']]
      <3> DEFINE P == {"none", "wait", "connect", "insert"}
      <3>1. dial \in [Calls -> [pc : P, conn : Conns]]
        BY DEF NetworkIInv, NetworkTypeOK
      <3> HIDE DEF P
      <3>2. dial \in [Calls -> [pc : P, conn : Conns']]
        BY <1>2, <3>1
      <3> QED BY <1>0, <3>2 DEF P
    <2>3. call' \in [Calls -> [pc : Steps, conn : Conns', tries : 0 .. 2, sent : Nat]]
      <3> DEFINE T == 0 .. 2
                 S == Nat
      <3>1. call \in [Calls -> [pc : Steps, conn : Conns, tries : T, sent : S]]
        BY DEF NetworkIInv, NetworkTypeOK
      <3> HIDE DEF T, S
      <3>2. call \in [Calls -> [pc : Steps, conn : Conns', tries : T, sent : S]]
        BY <1>2, <3>1
      <3> QED BY <1>0, <3>2 DEF T, S
    <2>4. digest' \in 0 .. inc' /\ gossip' \subseteq 0 .. inc'
      BY <1>0, <1>1 DEF NetworkIInv, NetworkTypeOK
    <2> QED BY <1>0, <1>1, <2>1, <2>2, <2>3, <2>4 DEF NetworkIInv, NetworkTypeOK
  <1>4. \A c \in Calls : ~Alive(call[c].conn)'
    <2>1. \A c \in Calls : call[c].conn.inc \in 0 .. inc
      BY CallParts DEF NetworkIInv
    <2> QED BY <1>0, <1>1, <2>1 DEF Alive
  <1>5. Executed'
    BY <1>0, <1>4 DEF NetworkIInv, Executed
  <1>6. Dialed'
    BY <1>0 DEF NetworkIInv, Dialed, Dialing, Lane
  <1>7. InService' /\ SlotsBounded' /\ LaneRecovers'
    <2>1. slots = {}
      BY <1>0 DEF NetworkIInv, InService, Alive
    <2> QED BY <1>0, <2>1 DEF InService, SlotsBounded, LaneRecovers
  <1> QED BY <1>3, <1>5, <1>6, <1>7 DEF NetworkIInv

\* Time passes: a request only gets older.
LEMMA TickIInv ==
    ASSUME NetworkIInv, Tick
    PROVE  NetworkIInv'
  <1>0. /\ UNCHANGED <<inc, listening, authenticated, seen, slots, dispatched, digest, known, pool, dials, dial, call, closed,
                       gossip, nextConn, failed, scenario>>
        /\ clock' = clock + 1 /\ served' = 0 /\ clock \in Nat
    BY DEF Tick, client, NetworkIInv, NetworkTypeOK
  <1>1. NetworkTypeOK'
    BY <1>0 DEF NetworkIInv, NetworkTypeOK, Conns
  <1>2. Executed'
    <2>1. \A c \in Calls : call[c].sent \in Nat
      BY CallParts DEF NetworkIInv
    <2>2. \A c \in Calls : (Fresh(c)' => Fresh(c)) /\ (Alive(call[c].conn)' <=> Alive(call[c].conn))
                           /\ (call[c].sent <= clock => call[c].sent <= clock')
      BY <1>0, <2>1 DEF Fresh, Alive, Window
    <2> QED BY <1>0, <2>2 DEF NetworkIInv, Executed
  <1>3. Dialed' /\ InService' /\ SlotsBounded' /\ LaneRecovers'
    BY <1>0 DEF NetworkIInv, Dialed, Dialing, Lane, InService, SlotsBounded, LaneRecovers, Alive
  <1> QED BY <1>1, <1>2, <1>3 DEF NetworkIInv

\* A step that leaves the network alone.
LEMMA StutterNetworkIInv ==
    ASSUME NetworkIInv, UNCHANGED networkVars
    PROVE  NetworkIInv'
  <1>0. UNCHANGED <<inc, listening, authenticated, seen, served, slots, dispatched, clock, digest, known, pool, dials, dial, call,
                    closed, gossip, nextConn, failed, scenario>>
    BY DEF networkVars, client, server
  <1>1. NetworkTypeOK'
    BY <1>0 DEF NetworkIInv, NetworkTypeOK, Conns
  <1>2. Executed' /\ Dialed'
    BY <1>0 DEF NetworkIInv, Executed, Dialed, Dialing, Lane, Alive, Fresh
  <1>3. InService' /\ SlotsBounded' /\ LaneRecovers'
    BY <1>0 DEF NetworkIInv, InService, SlotsBounded, LaneRecovers, Alive
  <1> QED BY <1>1, <1>2, <1>3 DEF NetworkIInv

-----------------------------------------------------------------------------
(* Every state the two nodes reach satisfies the inductive invariant.      *)
THEOREM NetworkInvariant == NetworkSpec => []NetworkIInv
  <1>1. NetworkInit => NetworkIInv
    BY InitNetworkIInv
  <1>2. NetworkIInv /\ [NetworkNext]_networkVars => NetworkIInv'
    <2> SUFFICES ASSUME NetworkIInv, [NetworkNext]_networkVars PROVE NetworkIInv'
      OBVIOUS
    <2>1. CASE \E c \in Calls : Start(c) \/ PooledConnection(c) \/ OpenStream(c) \/ OpenFails(c) \/ Timeout(c)
      BY <2>1, StartIInv, PooledConnectionIInv, OpenStreamIInv, OpenFailsIInv, TimeoutIInv
    <2>2. CASE \E c \in Calls : DialLocked(c) \/ DialFails(c) \/ DialHandshake(c) \/ DialInsert(c)
      BY <2>2, DialLockedIInv, DialFailsIInv, DialHandshakeIInv, DialInsertIInv
    <2>3. CASE \E c \in Calls : Answer(c) \/ Unanswered(c) \/ Notice(c)
      BY <2>3, AnswerIInv, NoticeIInv
    <2>4. CASE \E c \in Calls : \E duplicate \in BOOLEAN : Receive(c, duplicate)
      BY <2>4, ReceiveIInv
    <2>5. CASE \E g \in gossip : RecordDescriptor(g)
      BY <2>5, RecordDescriptorIInv
    <2>6. CASE Crash \/ Restart \/ Describe \/ Tick
      BY <2>6, CrashIInv, RestartIInv, NoticeIInv, TickIInv
    <2>7. CASE UNCHANGED networkVars
      BY <2>7, StutterNetworkIInv
    <2> QED BY <2>1, <2>2, <2>3, <2>4, <2>5, <2>6, <2>7 DEF NetworkNext
  <1> QED BY <1>1, <1>2, PTL DEF NetworkSpec

(* The client's and the peer's state keep their types: no connection is to *)
(* an incarnation the peer has not had.                                    *)
THEOREM NetworkTypeCorrect == NetworkSpec => []NetworkTypeOK
  <1>1. NetworkIInv => NetworkTypeOK
    BY DEF NetworkIInv
  <1> QED BY <1>1, NetworkInvariant, PTL

\* The unique holder of a dial lock, counted.
LEMMA DialsCounted ==
    ASSUME NetworkIInv
    PROVE  OneDial
  <1> SUFFICES ASSUME NEW l \in Lanes
               PROVE  Cardinality({c \in Calls \cap DOMAIN scenario.lane : Lane(c) = l /\ dial[c].pc \in {"connect", "insert"}})
                        = IF dials[l] = "free" THEN 0 ELSE 1
    BY DEF OneDial
  <1> DEFINE dialing == {c \in Calls \cap DOMAIN scenario.lane : Lane(c) = l /\ dial[c].pc \in {"connect", "insert"}}
  <1>1. \A c \in Calls : c \in dialing <=> Dialing(c, l)
    BY DEF Dialing
  <1>2. CASE dials[l] = "free"
    <2>1. dialing = {}
      BY <1>1, <1>2 DEF NetworkIInv, Dialed
    <2> QED BY <1>2, <2>1, FS_EmptySet
  <1>3. CASE dials[l] = "locked"
    <2>1. PICK c \in Calls : Dialing(c, l) /\ \A d \in Calls : Dialing(d, l) => d = c
      BY <1>3 DEF NetworkIInv, Dialed
    <2>2. dialing = {c}
      BY <1>1, <2>1
    <2> QED BY <1>3, <2>2, FS_Singleton
  <1> QED BY <1>2, <1>3 DEF NetworkIInv, NetworkTypeOK

(* With any number of calls, restarts, duplicates and cancelled calls: a   *)
(* request is executed at most once, an answered one once and an           *)
(* unreachable one never; a lane that lost a call is rid of the dead       *)
(* connection; a lane dials once at a time; and the streams in service of  *)
(* a connection are bounded.                                               *)
THEOREM NetworkIsSound == NetworkSpec => []NetworkSound
  <1>1. NetworkIInv => NetworkSound
    BY DialsCounted DEF NetworkIInv, NetworkSound, AtMostOnce, Executed, Unsent
  <1> QED BY <1>1, NetworkInvariant, PTL
=============================================================================
