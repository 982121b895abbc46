----------------------- MODULE ConsumerGroups_proofs -----------------------
(***************************************************************************)
(* Proofs about the consumer-group coordinator for any number of clients,  *)
(* partitions, generations, members, commits and restarts.                 *)
(***************************************************************************)
EXTENDS ConsumerGroups, FiniteSetTheorems, NaturalsInduction, WellFoundedInduction, TLAPS

\* The sessions a client has, or will have once its request is answered.
Told(c) == {session[c]} \cup (IF Idle(c) THEN {} ELSE {request[c].session})

Taking(k) == k.stage # "out"

\* A session's partitions are its share of what the members it was told of divide among themselves.
WellFormed(k) ==
    Taking(k) => /\ k.id \in k.view
                 /\ k.stage = "stable" => k.owned = Assign(k.view, k.generation)[k.id]

\* The state s is not older than the session k, and of one generation only if they have the same members.
Knows(s, k) ==
    /\ k.generation <= s.generation /\ k.id <= s.next
    /\ Taking(k) /\ k.generation = s.generation => k.view = Members(s)

\* Sessions of one generation are of the same members; an id is one client's.
Agree(k, l) == Taking(k) /\ Taking(l) /\ k.generation = l.generation => k.view = l.view
SessionsSound ==
    /\ \A c \in Clients : \A k \in Told(c) : WellFormed(k) /\ Knows(shard, k)
    /\ \A c \in Clients : Knows(shardFile, session[c])
    /\ \A c, d \in Clients : \A k \in Told(c), l \in Told(d) :
         Agree(k, l) /\ (c # d /\ k.id = l.id => k.id = 0)

\* The file is behind the memory, and ahead of what clients were given.
FileBehind == shardFile.generation <= shard.generation /\ shardFile.next <= shard.next
HandedBehind == \A p \in Subscribed : handed[p] <= shardFile.generation

Divided(s) ==
    s.phase = "Stable" => /\ Members(s) # {}
                          /\ \A m \in Members(s) : s.assignment[m] = Assign(Members(s), s.generation)[m]
AssignmentsSound == Divided(shard) /\ Divided(shardFile)

\* The state s has the partition's commit v or a later one, or that was forgotten.
Keeps(s, p, v) == IF s.offsets[p].value = 0 THEN v <= forgotten[p] ELSE v <= s.offsets[p].value
Dated(s, p) == s.offsets[p].value <= commits /\ (s.offsets[p].expires => s.offsets[p].value # 0)
OffsetsSound ==
    /\ \A p \in Subscribed : /\ Keeps(shard, p, acked[p]) /\ Keeps(shardFile, p, acked[p])
                             /\ acked[p] <= commits /\ Dated(shard, p) /\ Dated(shardFile, p)
    /\ \A c \in Clients : request[c].kind = "commit" =>
         Keeps(shard, request[c].partition, request[c].value) /\ request[c].value <= commits

GroupsInv == GroupsTypeOK /\ SessionsSound /\ FileBehind /\ HandedBehind /\ AssignmentsSound /\ OffsetsSound

-----------------------------------------------------------------------------
(* How the members share the partitions.                                   *)

LEMMA LeastNatural ==
    ASSUME NEW T \in SUBSET Nat, T # {}
    PROVE  \E m \in T : \A n \in T : m <= n
  <1>1. PICK m \in T : \A n \in T : ~(<<n, m>> \in OpToRel(<, Nat))
    BY NatLessThanWellFounded, WFMin
  <1>2. \A n \in T : ~(n < m)
    BY <1>1 DEF OpToRel
  <1> QED BY <1>2

\* The first member of a group is one of its members.
LEMMA MinIsOne ==
    ASSUME NEW T \in SUBSET Nat, T # {}
    PROVE  Min(T) \in T
  <1>1. \E m \in T : \A n \in T : m <= n
    BY LeastNatural
  <1> QED BY <1>1 DEF Min

Rank(V, m) == Cardinality({k \in V : k < m})

\* Members of different rank: the ranks of a group's members are 0 .. Cardinality - 1.
LEMMA RanksDiffer ==
    ASSUME NEW V \in SUBSET Nat, IsFiniteSet(V)
    PROVE  /\ \A m \in V : Rank(V, m) \in 0 .. Cardinality(V) - 1
           /\ \A m, n \in V : m < n => Rank(V, m) < Rank(V, n)
  <1> DEFINE Below(m) == {k \in V : k < m}
  <1>1. \A m \in V : IsFiniteSet(Below(m)) /\ Cardinality(Below(m)) \in Nat /\ Cardinality(Below(m)) <= Cardinality(V)
    BY FS_Subset, FS_CardinalityType
  <1>2. Cardinality(V) \in Nat
    BY FS_CardinalityType
  <1>3. ASSUME NEW m \in V
        PROVE  Cardinality(Below(m)) # Cardinality(V)
    <2>1. m \notin Below(m) /\ Below(m) \in SUBSET V
      OBVIOUS
    <2> QED BY <2>1, FS_Subset
  <1>4. ASSUME NEW m \in V, NEW n \in V, m < n
        PROVE  Cardinality(Below(m)) < Cardinality(Below(n))
    <2>0. \A k \in V : k \in Nat /\ (k < m => k < n)
      BY <1>4
    <2>1a. Below(m) \subseteq Below(n)
      BY <2>0
    <2>1b. m \in Below(n)
      BY <1>4
    <2>1c. m \notin Below(m)
      BY <2>0
    <2>1. Below(m) \in SUBSET Below(n) /\ Below(m) # Below(n)
      BY <2>1a, <2>1b, <2>1c
    <2>2. Cardinality(Below(m)) <= Cardinality(Below(n)) /\ Cardinality(Below(m)) # Cardinality(Below(n))
      BY <2>1, <1>1, FS_Subset
    <2> QED BY <2>2, <1>1
  <1> HIDE DEF Below
  <1>5. \A m \in V : Cardinality(Below(m)) \in 0 .. Cardinality(V) - 1
    BY <1>1, <1>2, <1>3
  <1> QED BY <1>4, <1>5 DEF Rank, Below

\* Every rank is some member's.
LEMMA RanksCover ==
    ASSUME NEW V \in SUBSET Nat, IsFiniteSet(V), V # {}, NEW r \in 0 .. Cardinality(V) - 1
    PROVE  \E m \in V : Rank(V, m) = r
  <1> DEFINE T == 0 .. Cardinality(V) - 1
             f == [m \in V |-> Rank(V, m)]
  <1>1. Cardinality(V) \in Nat /\ Cardinality(V) # 0
    BY FS_CardinalityType, FS_EmptySet
  <1>2. IsFiniteSet(T) /\ Cardinality(T) = Cardinality(V)
    BY <1>1, FS_Interval
  <1>3. f \in [V -> T]
    BY RanksDiffer
  <1>4. \A m, n \in V : m # n => f[m] # f[n]
    <2>1. \A m, n \in V : m < n => f[m] < f[n]
      BY RanksDiffer
    <2>2. \A m \in V : f[m] \in Nat
      BY <1>3, <1>1
    <2> HIDE DEF f
    <2> QED BY <2>1, <2>2
  <1>5. f \in Injection(V, T)
    BY <1>3, <1>4 DEF Injection, IsInjective
  <1>6. f \in Surjection(V, T)
    BY <1>2, <1>5, FS_Injection
  <1>7. PICK m \in V : f[m] = r
    BY <1>6 DEF Surjection
  <1> QED BY <1>7

\* The assignor gives each partition to one of the members it was told of.
LEMMA AssignPartitions ==
    ASSUME NEW V \in SUBSET Ids, V # {}, NEW g \in Nat
    PROVE  /\ \A m \in Ids : Assign(V, g)[m] \in SUBSET Subscribed
           /\ \A m, n \in V : m # n => Assign(V, g)[m] \cap Assign(V, g)[n] = {}
           /\ \A p \in Subscribed : \E m \in V : p \in Assign(V, g)[m]
  <1>1. V \in SUBSET Nat /\ IsFiniteSet(V)
    <2>1. IsFiniteSet(Ids) /\ Ids \subseteq Nat
      BY GroupsAssumption, FS_Interval DEF Ids
    <2> QED BY <2>1, FS_Subset
  <1>2. Cardinality(V) \in Nat /\ Cardinality(V) # 0
    BY <1>1, FS_CardinalityType, FS_EmptySet
  <1>3. \A m \in Ids : Assign(V, g)[m] = {p \in Subscribed : m \in V /\ Rank(V, m) = (p + g) % Cardinality(V)}
    BY DEF Assign, Rank
  <1>4. \A m, n \in V : m # n => Rank(V, m) # Rank(V, n)
    <2>1. \A m, n \in V : m < n => Rank(V, m) < Rank(V, n)
      BY <1>1, RanksDiffer
    <2>2. \A m \in V : Rank(V, m) \in Nat
      BY <1>1, <1>2, RanksDiffer
    <2> QED BY <2>1, <2>2, <1>1
  <1>5. ASSUME NEW p \in Subscribed
        PROVE  \E m \in V : p \in Assign(V, g)[m]
    <2>1. p \in Nat
      BY GroupsAssumption
    <2>2. (p + g) % Cardinality(V) \in 0 .. Cardinality(V) - 1
      BY <2>1, <1>2
    <2>3. PICK m \in V : Rank(V, m) = (p + g) % Cardinality(V)
      BY <2>2, <1>1, RanksCover
    <2> QED BY <2>3, <1>3
  <1> QED BY <1>3, <1>4, <1>5

-----------------------------------------------------------------------------
(* The operations of the machine on a shard's state.                       *)

Sheds(s) == \A m \in Ids \ Members(s) : s.assignment[m] = {}

LEMMA ShardParts ==
    ASSUME NEW s \in Shard
    PROVE  /\ s.next \in 0 .. MaxMembers /\ s.generation \in Generations /\ s.leader \in 0 .. MaxMembers
           /\ s.protocol \in Protocols \cup {NoProtocol}
           /\ s.members \in [Ids -> SUBSET Protocols] /\ s.assignment \in [Ids -> SUBSET Subscribed]
           /\ s.offsets \in [Subscribed -> Offset]
           /\ s.next \in Nat /\ s.generation \in Nat
           /\ Members(s) \in SUBSET Ids /\ Members(s) \in SUBSET Nat
           /\ \A p \in Subscribed : s.offsets[p].value \in Nat /\ s.offsets[p].value <= MaxCommits
  <1>1. /\ s.next \in 0 .. MaxMembers /\ s.generation \in Generations /\ s.leader \in 0 .. MaxMembers
        /\ s.protocol \in Protocols \cup {NoProtocol}
        /\ s.members \in [Ids -> SUBSET Protocols] /\ s.assignment \in [Ids -> SUBSET Subscribed]
        /\ s.offsets \in [Subscribed -> Offset]
    BY DEF Shard
  <1>2. s.next \in Nat /\ s.generation \in Nat
    BY <1>1, GroupsAssumption DEF Generations
  <1>3. Members(s) \in SUBSET Ids /\ Ids \subseteq Nat
    BY GroupsAssumption DEF Members, Ids
  <1>4. \A p \in Subscribed : s.offsets[p].value \in Nat /\ s.offsets[p].value <= MaxCommits
    BY <1>1, GroupsAssumption DEF Offset
  <1> QED BY <1>1, <1>2, <1>3, <1>4

\* Replacing the fields of a state.
LEMMA ShardOf ==
    ASSUME NEW n \in 0 .. MaxMembers, NEW g \in Generations, NEW l \in 0 .. MaxMembers,
           NEW r \in Protocols \cup {NoProtocol}, NEW f \in {"Empty", "PreparingRebalance", "Stable"},
           NEW ms \in [Ids -> SUBSET Protocols], NEW as \in [Ids -> SUBSET Subscribed], NEW os \in [Subscribed -> Offset]
    PROVE  [next |-> n, generation |-> g, leader |-> l, protocol |-> r, phase |-> f, members |-> ms,
            assignment |-> as, offsets |-> os] \in Shard
  BY DEF Shard

LEMMA Inserted ==
    ASSUME NEW s \in Shard, Sheds(s), NEW m \in Ids, NEW offered \in SUBSET Protocols, offered # {},
           s.generation < MaxGeneration
    PROVE  LET r == InsertMember(s, m, offered) IN
           /\ r \in Shard /\ Sheds(r)
           /\ r.next = s.next /\ r.protocol = s.protocol /\ r.offsets = s.offsets /\ r.phase = "PreparingRebalance"
           /\ r.generation \in {s.generation, s.generation + 1}
           /\ Members(r) = Members(s) \cup {m}
           /\ r.generation = s.generation => m \in Members(s)
  <1> DEFINE r == InsertMember(s, m, offered)
             g == IF m \in Members(s) /\ s.phase = "PreparingRebalance" THEN s.generation ELSE s.generation + 1
             l == Min(Members(s) \cup {m})
             ms == [s.members EXCEPT ![m] = offered]
             as == [s.assignment EXCEPT ![m] = {}]
  <1>0. r = [s EXCEPT !.members = ms, !.assignment = as, !.generation = g, !.leader = l, !.phase = "PreparingRebalance"]
    BY DEF InsertMember
  <1>1. r = [next |-> s.next, generation |-> g, leader |-> l, protocol |-> s.protocol, phase |-> "PreparingRebalance",
             members |-> ms, assignment |-> as, offsets |-> s.offsets]
    <2> HIDE DEF g, l, ms, as, r
    <2> QED BY <1>0 DEF Shard
  <1>2. g \in Generations /\ g \in {s.generation, s.generation + 1} /\ (g = s.generation => m \in Members(s))
    BY ShardParts, GroupsAssumption DEF Generations
  <1>3. l \in 0 .. MaxMembers
    <2>1. Members(s) \cup {m} \in SUBSET Nat /\ Members(s) \cup {m} \in SUBSET Ids
      BY ShardParts, GroupsAssumption DEF Ids
    <2>2. l \in Ids
      BY <2>1, MinIsOne
    <2> QED BY <2>2, GroupsAssumption DEF Ids
  <1>4. ms \in [Ids -> SUBSET Protocols] /\ as \in [Ids -> SUBSET Subscribed]
    BY ShardParts
  <1>5. {k \in Ids : ms[k] # {}} = Members(s) \cup {m}
    BY ShardParts DEF Members
  <1>6. \A k \in Ids \ (Members(s) \cup {m}) : as[k] = {}
    BY ShardParts DEF Sheds
  <1> HIDE DEF g, l, ms, as, r
  <1>7. r \in Shard
    BY <1>1, <1>2, <1>3, <1>4, ShardOf, ShardParts
  <1>8. Members(r) = Members(s) \cup {m}
    BY <1>1, <1>5 DEF Members
  <1>9. Sheds(r)
    BY <1>1, <1>6, <1>8 DEF Sheds
  <1>10. /\ r.next = s.next /\ r.protocol = s.protocol /\ r.offsets = s.offsets /\ r.phase = "PreparingRebalance"
         /\ r.generation = g
    BY <1>1
  <1> QED BY <1>2, <1>7, <1>8, <1>9, <1>10 DEF r

LEMMA Removed ==
    ASSUME NEW s \in Shard, Sheds(s), NEW gone \in SUBSET Members(s), gone # {}, s.generation < MaxGeneration
    PROVE  LET r == RemoveMembers(s, gone) IN
           /\ r \in Shard /\ Sheds(r)
           /\ r.next = s.next /\ r.offsets = s.offsets /\ r.phase # "Stable"
           /\ r.generation = s.generation + 1
  <1> DEFINE r == RemoveMembers(s, gone)
             l == LeaderOf(Members(s) \ gone)
             f == IF Members(s) \subseteq gone THEN "Empty" ELSE "PreparingRebalance"
             ms == [k \in Ids |-> IF k \in gone THEN {} ELSE s.members[k]]
             as == [k \in Ids |-> IF k \in gone THEN {} ELSE s.assignment[k]]
  <1>0. r = [s EXCEPT !.members = ms, !.assignment = as, !.generation = s.generation + 1, !.leader = l, !.phase = f]
    BY DEF RemoveMembers
  <1>1. r = [next |-> s.next, generation |-> s.generation + 1, leader |-> l, protocol |-> s.protocol, phase |-> f,
             members |-> ms, assignment |-> as, offsets |-> s.offsets]
    <2> HIDE DEF l, f, ms, as, r
    <2> QED BY <1>0 DEF Shard
  <1>2. s.generation + 1 \in Generations
    BY ShardParts, GroupsAssumption DEF Generations
  <1>3. l \in 0 .. MaxMembers
    <2>1. CASE Members(s) \ gone = {}
      BY <2>1, GroupsAssumption DEF LeaderOf
    <2>2. CASE Members(s) \ gone # {}
      <3>1. Members(s) \ gone \in SUBSET Nat /\ Members(s) \ gone \in SUBSET Ids
        BY ShardParts
      <3>2. l \in Ids
        BY <2>2, <3>1, MinIsOne DEF LeaderOf
      <3> QED BY <3>2, GroupsAssumption DEF Ids
    <2> QED BY <2>1, <2>2
  <1>4. ms \in [Ids -> SUBSET Protocols] /\ as \in [Ids -> SUBSET Subscribed]
    BY ShardParts
  <1>5. {k \in Ids : ms[k] # {}} = Members(s) \ gone
    BY ShardParts DEF Members
  <1>6. \A k \in Ids \ (Members(s) \ gone) : as[k] = {}
    BY ShardParts DEF Sheds
  <1>7. f \in {"Empty", "PreparingRebalance", "Stable"} /\ f # "Stable"
    OBVIOUS
  <1> HIDE DEF l, f, ms, as, r
  <1>8. r \in Shard
    BY <1>1, <1>2, <1>3, <1>4, <1>7, ShardOf, ShardParts
  <1>9. Members(r) = Members(s) \ gone
    BY <1>1, <1>5 DEF Members
  <1>10. Sheds(r)
    BY <1>1, <1>6, <1>9 DEF Sheds
  <1>11. r.next = s.next /\ r.offsets = s.offsets /\ r.phase = f /\ r.generation = s.generation + 1
    BY <1>1
  <1> QED BY <1>7, <1>8, <1>10, <1>11 DEF r

-----------------------------------------------------------------------------
(* What a step does to the sessions.                                       *)

LEMMA SessionParts ==
    ASSUME NEW k \in Session
    PROVE  /\ k.id \in Nat /\ k.generation \in Nat /\ k.generation \in Generations
           /\ k.view \in SUBSET Ids /\ k.owned \in SUBSET Subscribed
           /\ k.stage \in {"out", "joined", "stable"}
  BY GroupsAssumption DEF Session, Generations

LEMMA ToldTyped ==
    ASSUME GroupsTypeOK, NEW c \in Clients, NEW k \in Told(c)
    PROVE  k \in Session
  <1>1. CASE k = session[c]
    BY <1>1 DEF GroupsTypeOK
  <1>2. CASE ~Idle(c) /\ k = request[c].session
    <2>1. request[c] \in Request
      BY <1>2 DEF GroupsTypeOK, Idle
    <2> QED BY <1>2, <2>1 DEF Request
  <1> QED BY <1>1, <1>2 DEF Told

\* The state moves on, and one client is told of a session of its newest generation.
LEMMA SessionsStep ==
    ASSUME GroupsTypeOK, SessionsSound, shard' \in Shard, NEW c \in Clients, NEW n \in Session,
           \A d \in Clients : Told(d)' \subseteq (Told(d) \cup (IF d = c THEN {n} ELSE {})),
           shard'.generation >= shard.generation, shard'.next >= shard.next,
           shard'.generation = shard.generation => Members(shard') = Members(shard),
           WellFormed(n), Knows(shard', n), Taking(n) => n.generation = shard'.generation,
           n.id \in {0, session[c].id} \/ n.id > shard.next,
           \A d \in Clients : Knows(shardFile', session'[d])
    PROVE  SessionsSound'
  <1>0. /\ shard.generation \in Nat /\ shard.next \in Nat /\ shard'.generation \in Nat /\ shard'.next \in Nat
        /\ n.id \in Nat /\ n.generation \in Nat
    BY ShardParts, SessionParts DEF GroupsTypeOK
  <1>1. \A d \in Clients : \A k \in Told(d) : k.id \in Nat /\ k.generation \in Nat
    BY ToldTyped, SessionParts
  <1>2. \A d \in Clients : \A k \in Told(d) : WellFormed(k) /\ Knows(shard', k)
    <2> SUFFICES ASSUME NEW d \in Clients, NEW k \in Told(d)
                 PROVE  WellFormed(k) /\ Knows(shard', k)
      OBVIOUS
    <2>1. WellFormed(k) /\ Knows(shard, k) /\ k.id \in Nat /\ k.generation \in Nat
      BY <1>1 DEF SessionsSound
    <2> QED BY <2>1, <1>0 DEF Knows
  <1>3. \A d \in Clients : \A k \in Told(d) : Agree(k, n) /\ Agree(n, k)
    <2> SUFFICES ASSUME NEW d \in Clients, NEW k \in Told(d), Taking(k), Taking(n), k.generation = n.generation
                 PROVE  k.view = n.view
      BY DEF Agree
    <2>1. k.generation = shard'.generation
      OBVIOUS
    <2> QED BY <2>1, <1>2 DEF Knows
  <1>4. \A d \in Clients : \A k \in Told(d) : c # d /\ k.id = n.id => k.id = 0
    <2> SUFFICES ASSUME NEW d \in Clients, NEW k \in Told(d), c # d, k.id = n.id
                 PROVE  k.id = 0
      OBVIOUS
    <2>1. k.id <= shard.next /\ k.id \in Nat
      BY <1>1 DEF SessionsSound, Knows
    <2>2. session[c] \in Told(c)
      BY DEF Told
    <2>3. k.id = session[c].id => k.id = 0
      BY <2>2 DEF SessionsSound
    <2> QED BY <2>1, <2>3, <1>0
  <1>5. Agree(n, n)
    BY DEF Agree
  <1>6. \A d, e \in Clients : \A k \in Told(d), l \in Told(e) : Agree(k, l) /\ (d # e /\ k.id = l.id => k.id = 0)
    BY DEF SessionsSound
  <1>7. \A d \in Clients : \A k \in Told(d)' : k \in Told(d) \/ (d = c /\ k = n)
    OBVIOUS
  <1>8. \A d \in Clients : \A k \in Told(d)' : WellFormed(k) /\ Knows(shard', k)
    BY <1>2, <1>7
  <1>9. \A d, e \in Clients : \A k \in Told(d)', l \in Told(e)' : Agree(k, l) /\ (d # e /\ k.id = l.id => k.id = 0)
    BY <1>3, <1>4, <1>5, <1>6, <1>7
  <1> QED BY <1>8, <1>9 DEF SessionsSound

\* The state of a client that is not in the group.
LEMMA OutIsOut ==
    ASSUME NEW s \in Shard
    PROVE  /\ Out \in Session /\ ~Taking(Out) /\ Out.id = 0 /\ Out.generation = 0
           /\ WellFormed(Out) /\ Knows(s, Out) /\ Out.owned = {}
  <1>1. s.generation \in Nat /\ s.next \in Nat
    BY ShardParts
  <1>2. Out \in Session /\ Out.stage = "out" /\ Out.id = 0 /\ Out.generation = 0 /\ Out.owned = {}
    BY GroupsAssumption DEF Out, Session, Generations
  <1> QED BY <1>1, <1>2 DEF Taking, WellFormed, Knows

\* The sessions after a step that tells nobody anything new.
LEMMA SessionsKept ==
    ASSUME GroupsTypeOK, SessionsSound, shard' \in Shard,
           \A d \in Clients : Told(d)' \subseteq Told(d),
           shard'.generation >= shard.generation, shard'.next >= shard.next,
           shard'.generation = shard.generation => Members(shard') = Members(shard),
           \A d \in Clients : Knows(shardFile', session'[d])
    PROVE  SessionsSound'
  <1>1. Out \in Session /\ ~Taking(Out) /\ Out.id = 0 /\ WellFormed(Out) /\ Knows(shard', Out)
    BY OutIsOut
  <1>2. ASSUME NEW c \in Clients
        PROVE  SessionsSound'
    <2>1. \A d \in Clients : Told(d)' \subseteq (Told(d) \cup (IF d = c THEN {Out} ELSE {}))
      OBVIOUS
    <2> QED BY <1>1, <2>1, SessionsStep
  <1>3. CASE Clients = {}
    BY <1>3 DEF SessionsSound
  <1> QED BY <1>2, <1>3

-----------------------------------------------------------------------------
(* What a step does to the offsets.                                        *)

\* The state and what clients wait for are as before, or the request was not a commit.
LEMMA OffsetsKept ==
    ASSUME GroupsTypeOK, OffsetsSound, UNCHANGED <<shardFile, acked, forgotten, commits>>,
           shard'.offsets = shard.offsets,
           \A d \in Clients : request'[d] = request[d] \/ request'[d].kind # "commit"
    PROVE  OffsetsSound'
  <1>1. \A p \in Subscribed : /\ Keeps(shard, p, acked[p])' /\ Keeps(shardFile, p, acked[p])'
                              /\ (acked[p] <= commits)' /\ Dated(shard, p)' /\ Dated(shardFile, p)'
    BY DEF OffsetsSound, Keeps, Dated
  <1>2. ASSUME NEW d \in Clients, (request[d].kind = "commit")'
        PROVE  (Keeps(shard, request[d].partition, request[d].value) /\ request[d].value <= commits)'
    <2>1. request'[d] = request[d]
      BY <1>2
    <2>2. Keeps(shard, request[d].partition, request[d].value) /\ request[d].value <= commits
      BY <1>2, <2>1 DEF OffsetsSound
    <2> QED BY <2>1, <2>2 DEF Keeps
  <1> QED BY <1>1, <1>2 DEF OffsetsSound

\* A request that was applied waits for its answer.
LEMMA AppliedStep ==
    ASSUME GroupsInv, NEW c \in Clients, NEW n \in Session, Applied(c, n),
           shard' \in Shard, Sheds(shard'), Divided(shard'), shard'.offsets = shard.offsets,
           shard'.generation >= shard.generation, shard'.next >= shard.next,
           shard'.generation = shard.generation => Members(shard') = Members(shard),
           WellFormed(n), Knows(shard', n), Taking(n) => n.generation = shard'.generation,
           n.id \in {0, session[c].id} \/ n.id > shard.next
    PROVE  GroupsInv'
  <1> DEFINE r == [kind |-> "session", session |-> n]
  <1>0. /\ request' = [request EXCEPT ![c] = r]
        /\ UNCHANGED <<shardFile, session, flushing, acked, forgotten, handed, commits, restarts>>
    BY DEF Applied, ghosts
  <1>1. r \in Request /\ r # NoRequest /\ r.session = n /\ r.kind # "commit"
    BY DEF Request, NoRequest
  <1>2. request \in [Clients -> Request \cup {NoRequest}]
    BY DEF GroupsInv, GroupsTypeOK
  <1> HIDE DEF r
  <1>3. request' \in [Clients -> Request \cup {NoRequest}] /\ request'[c] = r /\ \A d \in Clients : d # c => request'[d] = request[d]
    BY <1>0, <1>1, <1>2
  <1>4. GroupsTypeOK'
    BY <1>0, <1>3 DEF GroupsInv, GroupsTypeOK, Sheds
  <1>5. \A d \in Clients : Told(d)' \subseteq (Told(d) \cup (IF d = c THEN {n} ELSE {}))
    BY <1>0, <1>1, <1>3 DEF Told, Idle
  <1>6. SessionsSound'
    <2>1. \A d \in Clients : Knows(shardFile', session'[d])
      BY <1>0 DEF GroupsInv, SessionsSound
    <2> QED BY <1>5, <2>1, SessionsStep DEF GroupsInv
  <1>7. FileBehind' /\ HandedBehind' /\ AssignmentsSound'
    <2>1. /\ shard.generation \in Nat /\ shard.next \in Nat /\ shard'.generation \in Nat /\ shard'.next \in Nat
          /\ shardFile.generation \in Nat /\ shardFile.next \in Nat
      BY ShardParts DEF GroupsInv, GroupsTypeOK
    <2>2. FileBehind'
      BY <2>1, <1>0 DEF GroupsInv, FileBehind
    <2>3. HandedBehind'
      BY <1>0 DEF GroupsInv, HandedBehind
    <2>4. AssignmentsSound'
      BY <1>0 DEF GroupsInv, AssignmentsSound
    <2> QED BY <2>2, <2>3, <2>4
  <1>8. OffsetsSound'
    BY <1>0, <1>1, <1>3, OffsetsKept DEF GroupsInv
  <1> QED BY <1>4, <1>6, <1>7, <1>8 DEF GroupsInv

\* A request that was refused: the client is no longer in the group.
LEMMA RefusedStep ==
    ASSUME GroupsInv, NEW c \in Clients, NEW n \in Session, Refused(c, n),
           n.stage = "out", n.generation = 0, n.id \in {0, session[c].id}
    PROVE  GroupsInv'
  <1>0. /\ session' = [session EXCEPT ![c] = n]
        /\ UNCHANGED <<shard, shardFile, flushing, request, acked, forgotten, handed, commits, restarts>>
    BY DEF Refused, ghosts, coordinator
  <1>1. session \in [Clients -> Session]
    BY DEF GroupsInv, GroupsTypeOK
  <1>2. session' \in [Clients -> Session] /\ session'[c] = n /\ \A d \in Clients : d # c => session'[d] = session[d]
    BY <1>0, <1>1
  <1>3. GroupsTypeOK'
    BY <1>0, <1>2 DEF GroupsInv, GroupsTypeOK, Sheds, Members
  <1>4. \A d \in Clients : Told(d)' \subseteq (Told(d) \cup (IF d = c THEN {n} ELSE {}))
    BY <1>0, <1>2 DEF Told, Idle
  <1>5. /\ shard.generation \in Nat /\ shard.next \in Nat /\ shardFile.generation \in Nat /\ shardFile.next \in Nat
        /\ session[c].id \in Nat /\ shard' \in Shard
    BY <1>0, ShardParts, SessionParts, <1>1 DEF GroupsInv, GroupsTypeOK
  <1>6. session[c].id <= shard.next /\ session[c].id <= shardFile.next
    BY DEF GroupsInv, SessionsSound, Knows, Told
  <1>7. WellFormed(n) /\ Knows(shard', n) /\ Knows(shardFile', n) /\ ~Taking(n)
    BY <1>0, <1>5, <1>6 DEF WellFormed, Knows, Taking
  <1>8. SessionsSound'
    <2>1. \A d \in Clients : Knows(shardFile', session'[d])
      BY <1>0, <1>2, <1>7 DEF GroupsInv, SessionsSound
    <2>2. shard'.generation >= shard.generation /\ shard'.next >= shard.next /\ Members(shard') = Members(shard)
      BY <1>0, <1>5
    <2> QED BY <1>4, <1>5, <1>7, <2>1, <2>2, SessionsStep DEF GroupsInv
  <1>9. FileBehind' /\ HandedBehind' /\ AssignmentsSound'
    BY <1>0 DEF GroupsInv, FileBehind, HandedBehind, AssignmentsSound, Divided, Members
  <1>10. OffsetsSound'
    BY <1>0, OffsetsKept DEF GroupsInv
  <1> QED BY <1>3, <1>8, <1>9, <1>10 DEF GroupsInv

-----------------------------------------------------------------------------
(* The requests of a client.                                               *)

LEMMA JoinKeeps ==
    ASSUME GroupsInv, NEW c \in Clients, Join(c)
    PROVE  GroupsInv'
  <1> DEFINE id == IF session[c].id = 0 THEN shard.next + 1 ELSE session[c].id
             joined == InsertMember(shard, id, Supports[c])
             x == IF session[c].id = 0 THEN id ELSE shard.next
             q == Selected(shard, Supports[c])
             n == [id |-> id, generation |-> joined.generation, view |-> Members(joined),
                   stage |-> "joined", owned |-> {}]
  <1>0. shard \in Shard /\ Sheds(shard) /\ session[c] \in Session /\ session[c].id \in 0 .. MaxMembers
    BY DEF GroupsInv, GroupsTypeOK, Session, Sheds
  <1>1. /\ shard.next \in Nat /\ shard.generation \in Nat /\ session[c].id \in Nat /\ shard.next \in 0 .. MaxMembers
        /\ session[c].id <= shard.next
    <2>1. session[c] \in Told(c)
      BY DEF Told
    <2> QED BY <1>0, <2>1, ShardParts, SessionParts DEF GroupsInv, SessionsSound, Knows
  <1>2. id \in Ids /\ x \in 0 .. MaxMembers /\ x >= shard.next /\ id <= x
        /\ (id = session[c].id \/ id > shard.next)
    BY <1>0, <1>1, GroupsAssumption DEF Join, Ids
  <1>3. Supports[c] \in SUBSET Protocols /\ Supports[c] # {} /\ q \in Protocols
    BY DEF Join, Protocols
  <1>4. shard.generation < MaxGeneration
    BY DEF Join
  <1> HIDE DEF id, x, q
  <1>5. /\ joined \in Shard /\ Sheds(joined) /\ joined.next = shard.next /\ joined.offsets = shard.offsets
        /\ joined.phase = "PreparingRebalance" /\ joined.generation \in {shard.generation, shard.generation + 1}
        /\ Members(joined) = Members(shard) \cup {id}
        /\ joined.generation = shard.generation => id \in Members(shard)
    BY <1>0, <1>2, <1>3, <1>4, Inserted
  <1>6. shard' = [joined EXCEPT !.next = x, !.protocol = q] /\ Applied(c, n)
    BY <1>5 DEF Join, id, x, q
  <1> HIDE DEF joined
  <1>7. /\ shard' \in Shard /\ shard'.next = x /\ shard'.generation = joined.generation /\ shard'.phase = "PreparingRebalance"
        /\ shard'.members = joined.members /\ shard'.assignment = joined.assignment /\ shard'.offsets = shard.offsets
    <2>1. shard' \in Shard
      BY <1>2, <1>3, <1>5, <1>6 DEF Shard
    <2> QED BY <2>1, <1>5, <1>6 DEF Shard
  <1>8. Members(shard') = Members(joined) /\ Sheds(shard') /\ Divided(shard')
    BY <1>5, <1>7 DEF Members, Sheds, Divided
  <1>9. n \in Session /\ n.id = id /\ n.generation = joined.generation /\ n.view = Members(joined) /\ n.stage = "joined"
    <2>1. id \in 0 .. MaxMembers /\ joined.generation \in Generations /\ Members(joined) \in SUBSET Ids
      BY <1>2, <1>5, ShardParts, GroupsAssumption DEF Ids
    <2> QED BY <2>1 DEF Session
  <1> HIDE DEF n
  <1>10. WellFormed(n)
    BY <1>5, <1>9 DEF WellFormed
  <1>11. Knows(shard', n)
    <2>1. joined.generation \in Nat
      BY <1>5, ShardParts
    <2> QED BY <1>2, <1>7, <1>8, <1>9, <2>1 DEF Knows
  <1>12. shard'.generation >= shard.generation /\ (shard'.generation = shard.generation => Members(shard') = Members(shard))
    BY <1>1, <1>5, <1>7, <1>8
  <1> QED BY <1>2, <1>6, <1>7, <1>8, <1>9, <1>10, <1>11, <1>12, AppliedStep

\* A client whose generation and member id the group has was told of the group's members.
LEMMA ValidMemberKnows ==
    ASSUME GroupsInv, NEW c \in Clients, ValidMember(c), Taking(session[c])
    PROVE  /\ session[c] \in Session /\ session[c].view = Members(shard) /\ session[c].id \in Members(shard)
           /\ session[c].generation = shard.generation /\ WellFormed(session[c]) /\ Knows(shard, session[c])
  <1>1. session[c] \in Told(c)
    BY DEF Told
  <1>2. WellFormed(session[c]) /\ Knows(shard, session[c]) /\ session[c] \in Session
    BY <1>1 DEF GroupsInv, GroupsTypeOK, SessionsSound
  <1>3. session[c].generation = shard.generation /\ session[c].id \in Members(shard)
    BY DEF ValidMember
  <1> QED BY <1>2, <1>3 DEF Knows

LEMMA SyncAsLeaderKeeps ==
    ASSUME GroupsInv, NEW c \in Clients, SyncAsLeader(c)
    PROVE  GroupsInv'
  <1> DEFINE V == session[c].view
             g == session[c].generation
             as == [m \in Ids |-> IF m \in Members(shard) THEN Assign(V, g)[m] ELSE {}]
             n == [session[c] EXCEPT !.stage = "stable", !.owned = Assign(V, g)[session[c].id]]
  <1>0. shard \in Shard /\ Sheds(shard) /\ shard.generation \in Nat /\ shard.next \in Nat /\ Members(shard) \in SUBSET Ids
    BY ShardParts DEF GroupsInv, GroupsTypeOK, Sheds
  <1>1. Taking(session[c]) /\ ValidMember(c) /\ session[c].stage = "joined"
    BY DEF SyncAsLeader, Taking
  <1>2. /\ session[c] \in Session /\ V = Members(shard) /\ session[c].id \in Members(shard)
        /\ g = shard.generation /\ Knows(shard, session[c])
    BY <1>1, ValidMemberKnows
  <1>3. \A m \in Ids : Assign(V, g)[m] \in SUBSET Subscribed
    BY <1>0, <1>2, AssignPartitions
  <1>4. shard' = [shard EXCEPT !.phase = "Stable", !.assignment = as] /\ Applied(c, n)
    BY DEF SyncAsLeader
  <1>5. as \in [Ids -> SUBSET Subscribed] /\ \A m \in Ids : as[m] = IF m \in Members(shard) THEN Assign(V, g)[m] ELSE {}
    BY <1>3
  <1> HIDE DEF as
  <1>6. /\ shard' \in Shard /\ shard'.next = shard.next /\ shard'.generation = shard.generation
        /\ shard'.members = shard.members /\ shard'.assignment = as /\ shard'.offsets = shard.offsets
    BY <1>0, <1>4, <1>5 DEF Shard
  <1>7. Members(shard') = Members(shard)
    BY <1>6 DEF Members
  <1>8. Sheds(shard') /\ Divided(shard')
    <2>1. \A m \in Members(shard) : as[m] = Assign(Members(shard), shard.generation)[m]
      BY <1>0, <1>2, <1>5
    <2>2. Divided(shard')
      BY <1>2, <1>6, <1>7, <2>1 DEF Divided
    <2>3. Sheds(shard')
      BY <1>5, <1>6, <1>7 DEF Sheds
    <2> QED BY <2>2, <2>3
  <1>9. /\ n \in Session /\ n.id = session[c].id /\ n.generation = g /\ n.view = V
        /\ n.owned = Assign(V, g)[session[c].id]
    <2>1. Assign(V, g)[session[c].id] \in SUBSET Subscribed
      BY <1>0, <1>2, <1>3
    <2> QED BY <1>2, <2>1 DEF Session
  <1>10. WellFormed(n) /\ Knows(shard', n)
    BY <1>2, <1>6, <1>7, <1>9 DEF WellFormed, Knows
  <1> HIDE DEF n
  <1>11. shard'.generation >= shard.generation /\ shard'.next >= shard.next
    BY <1>0, <1>6
  <1> QED BY <1>2, <1>4, <1>6, <1>7, <1>8, <1>9, <1>10, <1>11, AppliedStep

\* An applied request that leaves the state alone.
LEMMA UntouchedStep ==
    ASSUME GroupsInv, NEW c \in Clients, NEW n \in Session, Applied(c, n), UNCHANGED shard,
           WellFormed(n), Knows(shard, n), Taking(n) => n.generation = shard.generation, n.id = session[c].id
    PROVE  GroupsInv'
  <1>1. shard \in Shard /\ Sheds(shard) /\ Divided(shard) /\ shard.generation \in Nat /\ shard.next \in Nat
    BY ShardParts DEF GroupsInv, GroupsTypeOK, Sheds, AssignmentsSound
  <1>2. shard'.generation >= shard.generation /\ shard'.next >= shard.next /\ shard' = shard
    BY <1>1
  <1> QED BY <1>1, <1>2, AppliedStep

LEMMA SyncAsFollowerKeeps ==
    ASSUME GroupsInv, NEW c \in Clients, SyncAsFollower(c)
    PROVE  GroupsInv'
  <1> DEFINE n == [session[c] EXCEPT !.stage = "stable", !.owned = shard.assignment[session[c].id]]
  <1>0. shard \in Shard /\ Members(shard) \in SUBSET Ids /\ shard.assignment \in [Ids -> SUBSET Subscribed]
    BY ShardParts DEF GroupsInv, GroupsTypeOK
  <1>1. Taking(session[c]) /\ ValidMember(c) /\ shard.phase = "Stable" /\ UNCHANGED shard /\ Applied(c, n)
    BY DEF SyncAsFollower, Taking
  <1>2. /\ session[c] \in Session /\ session[c].view = Members(shard) /\ session[c].id \in Members(shard)
        /\ session[c].generation = shard.generation /\ Knows(shard, session[c])
    BY <1>1, ValidMemberKnows
  <1>3. shard.assignment[session[c].id] = Assign(Members(shard), shard.generation)[session[c].id]
    BY <1>1, <1>2 DEF GroupsInv, AssignmentsSound, Divided
  <1>4. /\ n \in Session /\ n.id = session[c].id /\ n.generation = session[c].generation /\ n.view = session[c].view
        /\ n.owned = shard.assignment[session[c].id]
    <2>1. shard.assignment[session[c].id] \in SUBSET Subscribed
      BY <1>0, <1>2
    <2> QED BY <1>2, <2>1 DEF Session
  <1>5. WellFormed(n) /\ Knows(shard, n)
    BY <1>2, <1>3, <1>4 DEF WellFormed, Knows
  <1> HIDE DEF n
  <1> QED BY <1>1, <1>2, <1>4, <1>5, UntouchedStep

LEMMA HeartbeatKeeps ==
    ASSUME GroupsInv, NEW c \in Clients, Heartbeat(c)
    PROVE  GroupsInv'
  <1>1. Taking(session[c]) /\ ValidMember(c) /\ UNCHANGED shard /\ Applied(c, session[c])
    BY DEF Heartbeat, Taking
  <1> QED BY <1>1, ValidMemberKnows, UntouchedStep

LEMMA LeaveKeeps ==
    ASSUME GroupsInv, NEW c \in Clients, Leave(c)
    PROVE  GroupsInv'
  <1> DEFINE gone == {session[c].id}
  <1>0. shard \in Shard /\ Sheds(shard) /\ shard.generation \in Nat /\ shard.next \in Nat
    BY ShardParts DEF GroupsInv, GroupsTypeOK, Sheds
  <1>1. gone \in SUBSET Members(shard) /\ gone # {} /\ shard.generation < MaxGeneration
        /\ shard' = RemoveMembers(shard, gone) /\ Applied(c, Out)
    BY DEF Leave
  <1> HIDE DEF gone
  <1>2. /\ shard' \in Shard /\ Sheds(shard') /\ shard'.next = shard.next /\ shard'.offsets = shard.offsets
        /\ shard'.phase # "Stable" /\ shard'.generation = shard.generation + 1
    BY <1>0, <1>1, Removed
  <1>3. Divided(shard') /\ shard'.generation >= shard.generation /\ shard'.next >= shard.next
        /\ shard'.generation # shard.generation
    BY <1>0, <1>2 DEF Divided
  <1>4. Out \in Session /\ ~Taking(Out) /\ Out.id = 0 /\ WellFormed(Out) /\ Knows(shard', Out)
    BY <1>2, OutIsOut
  <1> QED BY <1>1, <1>2, <1>3, <1>4, AppliedStep

\* The refusals.
LEMMA RefusalsKeep ==
    ASSUME GroupsInv, NEW c \in Clients,
           JoinInconsistent(c) \/ SyncRefused(c) \/ HeartbeatRefused(c) \/ CommitRefused(c)
    PROVE  GroupsInv'
  <1>1. session[c] \in Session /\ session[c].id \in 0 .. MaxMembers
    BY DEF GroupsInv, GroupsTypeOK, Session
  <1>2. Out \in Session /\ Out.stage = "out" /\ Out.generation = 0 /\ Out.id = 0
    BY GroupsAssumption DEF Out, Session, Generations
  <1>3. /\ Rejoining(c) \in Session /\ Rejoining(c).stage = "out" /\ Rejoining(c).generation = 0
        /\ Rejoining(c).id \in {0, session[c].id}
    <2> DEFINE i == IF shard.generation = session[c].generation /\ session[c].id \notin Members(shard)
                    THEN 0 ELSE session[c].id
    <2>1. i \in 0 .. MaxMembers /\ i \in {0, session[c].id} /\ Rejoining(c) = [Out EXCEPT !.id = i]
      BY <1>1, GroupsAssumption DEF Rejoining
    <2> HIDE DEF i
    <2> QED BY <1>2, <2>1 DEF Session
  <1>4. Refused(c, Out) \/ Refused(c, Rejoining(c))
    BY DEF JoinInconsistent, SyncRefused, HeartbeatRefused, CommitRefused
  <1> QED BY <1>2, <1>3, <1>4, RefusedStep

-----------------------------------------------------------------------------
(* Offset commits.                                                         *)

LEMMA CommitOffsetsKeeps ==
    ASSUME GroupsInv, NEW c \in Clients, NEW p \in Subscribed, CommitOffsets(c, p)
    PROVE  GroupsInv'
  <1> DEFINE v == commits + 1
             r == [kind |-> "commit", session |-> session[c], partition |-> p, value |-> v]
  <1>0. shard \in Shard /\ Sheds(shard) /\ shard.generation \in Nat /\ shard.next \in Nat
    BY ShardParts DEF GroupsInv, GroupsTypeOK, Sheds
  <1>1. Taking(session[c]) /\ ValidMember(c)
    BY DEF CommitOffsets, CommitAccepted, Taking
  <1>2. /\ session[c] \in Session /\ session[c].generation = shard.generation
        /\ WellFormed(session[c]) /\ Knows(shard, session[c])
    BY <1>1, ValidMemberKnows
  <1>3. commits \in Nat /\ v \in 1 .. MaxCommits /\ commits' = v /\ commits' \in 0 .. MaxCommits
    BY GroupsAssumption DEF GroupsInv, GroupsTypeOK, CommitOffsets
  <1>4. PICK retention \in BOOLEAN : shard' = [shard EXCEPT !.offsets[p] =
                    [value |-> v, generation |-> session[c].generation, expires |-> retention]]
    BY DEF CommitOffsets
  <1>5. request' = [request EXCEPT ![c] = r] /\ UNCHANGED <<shardFile, session, flushing, acked, forgotten, handed, restarts>>
    BY DEF CommitOffsets
  <1> DEFINE o == [value |-> v, generation |-> session[c].generation, expires |-> retention]
  <1>6. o \in Offset /\ o.value = v
    <2>1. v \in 0 .. MaxCommits /\ session[c].generation \in Generations
      BY <1>2, <1>3, SessionParts
    <2> QED BY <2>1 DEF Offset
  <1>7. shard.offsets \in [Subscribed -> Offset]
    BY <1>0, ShardParts
  <1>8. /\ shard' \in Shard /\ shard'.next = shard.next /\ shard'.generation = shard.generation
        /\ shard'.phase = shard.phase /\ shard'.members = shard.members /\ shard'.assignment = shard.assignment
        /\ shard'.offsets = [shard.offsets EXCEPT ![p] = o]
    <2> DEFINE os == [shard.offsets EXCEPT ![p] = o]
    <2> HIDE DEF o, v
    <2>1. os \in [Subscribed -> Offset]
      BY <1>6, <1>7
    <2>2. shard' = [shard EXCEPT !.offsets = os]
      BY <1>4 DEF o
    <2> HIDE DEF os
    <2>3. shard' \in Shard
      BY <1>0, <2>1, <2>2 DEF Shard
    <2>4. /\ shard'.next = shard.next /\ shard'.generation = shard.generation
          /\ shard'.phase = shard.phase /\ shard'.members = shard.members /\ shard'.assignment = shard.assignment
          /\ shard'.offsets = os
      BY <1>0, <2>2 DEF Shard
    <2> QED BY <2>3, <2>4 DEF os
  <1>9. /\ r \in Request /\ r # NoRequest /\ r.session = session[c] /\ r.kind = "commit" /\ r.partition = p /\ r.value = v
    BY <1>2, <1>3 DEF Request, NoRequest
  <1> HIDE DEF r, o, v
  <1>10. /\ request' \in [Clients -> Request \cup {NoRequest}] /\ request'[c] = r
         /\ \A d \in Clients : d # c => request'[d] = request[d]
    BY <1>5, <1>9 DEF GroupsInv, GroupsTypeOK
  <1>11. Members(shard') = Members(shard)
    BY <1>8 DEF Members
  <1>12. GroupsTypeOK'
    <2>1. \A s \in {shard', shardFile'} : \A m \in Ids \ Members(s) : s.assignment[m] = {}
      BY <1>5, <1>8, <1>11 DEF GroupsInv, GroupsTypeOK
    <2> QED BY <1>3, <1>5, <1>8, <1>10, <2>1 DEF GroupsInv, GroupsTypeOK
  <1>13. SessionsSound'
    <2>1. \A d \in Clients : Told(d)' \subseteq Told(d)
      BY <1>5, <1>9, <1>10 DEF Told, Idle
    <2>2. \A d \in Clients : Knows(shardFile', session'[d])
      BY <1>5 DEF GroupsInv, SessionsSound
    <2>3. shard'.generation >= shard.generation /\ shard'.next >= shard.next
      BY <1>0, <1>8
    <2> QED BY <1>8, <1>11, <2>1, <2>2, <2>3, SessionsKept DEF GroupsInv
  <1>14. FileBehind' /\ HandedBehind'
    BY <1>5, <1>8 DEF GroupsInv, FileBehind, HandedBehind
  <1>15. AssignmentsSound'
    BY <1>5, <1>8, <1>11 DEF GroupsInv, AssignmentsSound, Divided
  <1>16. OffsetsSound'
    <2>0. /\ \A q \in Subscribed : acked[q] \in Nat /\ shardFile.offsets[q].value \in Nat /\ shard.offsets[q].value \in Nat
          /\ v \in Nat /\ v = commits + 1 /\ v # 0
      BY <1>3, ShardParts, GroupsAssumption DEF GroupsInv, GroupsTypeOK, v
    <2>1. /\ shard'.offsets[p] = o /\ \A q \in Subscribed : q # p => shard'.offsets[q] = shard.offsets[q]
      BY <1>7, <1>8
    <2>2. ASSUME NEW q \in Subscribed, NEW w \in Nat, Keeps(shard, q, w), w <= commits
          PROVE  Keeps(shard, q, w)'
      BY <1>3, <1>5, <1>6, <2>0, <2>1, <2>2 DEF Keeps
    <2>3. ASSUME NEW q \in Subscribed
          PROVE  (/\ Keeps(shard, q, acked[q]) /\ Keeps(shardFile, q, acked[q])
                  /\ acked[q] <= commits /\ Dated(shard, q) /\ Dated(shardFile, q))'
      <3>1. /\ Keeps(shard, q, acked[q]) /\ Keeps(shardFile, q, acked[q])
            /\ acked[q] <= commits /\ Dated(shard, q) /\ Dated(shardFile, q)
        BY DEF GroupsInv, OffsetsSound
      <3>2. Keeps(shard, q, acked[q])'
        BY <3>1, <2>0, <2>2, <1>5 DEF Keeps
      <3>3. Keeps(shardFile, q, acked[q])'
        BY <3>1, <1>5 DEF Keeps
      <3>4. (acked[q] <= commits /\ Dated(shardFile, q))'
        BY <3>1, <1>3, <1>5, <2>0 DEF Dated
      <3>5. Dated(shard, q)'
        BY <3>1, <1>3, <1>6, <2>0, <2>1 DEF Dated
      <3> QED BY <3>2, <3>3, <3>4, <3>5
    <2>4. ASSUME NEW d \in Clients, (request[d].kind = "commit")'
          PROVE  (Keeps(shard, request[d].partition, request[d].value) /\ request[d].value <= commits)'
      <3>1. CASE d = c
        BY <3>1, <1>3, <1>6, <1>9, <1>10, <2>0, <2>1 DEF Keeps
      <3>2. CASE d # c
        <4>1. request'[d] = request[d] /\ request[d].kind = "commit"
          BY <3>2, <2>4, <1>10
        <4>2. request[d].partition \in Subscribed /\ request[d].value \in Nat
          BY <4>1 DEF GroupsInv, GroupsTypeOK, Request, NoRequest
        <4>3. Keeps(shard, request[d].partition, request[d].value) /\ request[d].value <= commits
          BY <4>1 DEF GroupsInv, OffsetsSound
        <4>4. Keeps(shard, request[d].partition, request[d].value)'
          BY <4>1, <4>2, <4>3, <2>2 DEF Keeps
        <4> QED BY <4>1, <4>2, <4>3, <4>4, <1>3, <2>0
      <3> QED BY <3>1, <3>2
    <2> QED BY <2>3, <2>4 DEF OffsetsSound
  <1> QED BY <1>12, <1>13, <1>14, <1>15, <1>16 DEF GroupsInv

-----------------------------------------------------------------------------
(* The coordinator.                                                        *)

\* The memory is as it was; the file is too, or was written; clients know no more.
LEMMA FileStep ==
    ASSUME GroupsInv, UNCHANGED <<shard, session, forgotten, acked, handed, commits>>, shardFile' \in {shard, shardFile},
           request' \in [Clients -> Request \cup {NoRequest}],
           \A d \in Clients : request'[d] \in {request[d], NoRequest},
           flushing' \in BOOLEAN, restarts' \in 0 .. MaxRestarts
    PROVE  GroupsInv'
  <1>0. shard \in Shard /\ shard.generation \in Nat /\ shard.next \in Nat
    BY ShardParts DEF GroupsInv, GroupsTypeOK
  <1>1. GroupsTypeOK'
    BY DEF GroupsInv, GroupsTypeOK
  <1>2. SessionsSound'
    <2>1. \A d \in Clients : Told(d)' \subseteq Told(d)
      BY DEF Told, Idle
    <2>2. \A d \in Clients : Knows(shard, session[d]) /\ Knows(shardFile, session[d])
      BY DEF GroupsInv, SessionsSound, Told
    <2>3. \A d \in Clients : Knows(shardFile', session'[d])
      BY <2>2
    <2>4. shard'.generation >= shard.generation /\ shard'.next >= shard.next /\ shard' \in Shard
          /\ Members(shard') = Members(shard)
      BY <1>0
    <2> QED BY <2>1, <2>3, <2>4, SessionsKept DEF GroupsInv
  <1>3. FileBehind' /\ HandedBehind'
    <2>1. \A p \in Subscribed : handed[p] \in Nat
      BY GroupsAssumption DEF GroupsInv, GroupsTypeOK, Generations
    <2>2. shardFile.generation \in Nat
      BY ShardParts DEF GroupsInv, GroupsTypeOK
    <2> QED BY <1>0, <2>1, <2>2 DEF GroupsInv, FileBehind, HandedBehind
  <1>4. AssignmentsSound'
    BY DEF GroupsInv, AssignmentsSound, Divided, Members
  <1>5. OffsetsSound'
    <2>1. \A p \in Subscribed : /\ Keeps(shard, p, acked[p])' /\ Keeps(shardFile, p, acked[p])'
                                /\ (acked[p] <= commits)' /\ Dated(shard, p)' /\ Dated(shardFile, p)'
      BY DEF GroupsInv, OffsetsSound, Keeps, Dated
    <2>2. ASSUME NEW d \in Clients, (request[d].kind = "commit")'
          PROVE  (Keeps(shard, request[d].partition, request[d].value) /\ request[d].value <= commits)'
      <3>1. request'[d] = request[d]
        BY <2>2 DEF NoRequest
      <3> QED BY <3>1, <2>2 DEF GroupsInv, OffsetsSound, Keeps
    <2> QED BY <2>1, <2>2 DEF OffsetsSound
  <1> QED BY <1>1, <1>2, <1>3, <1>4, <1>5 DEF GroupsInv

LEMMA LostAnswersKeep ==
    ASSUME GroupsInv, NEW c \in Clients, AnswerLost(c), shardFile' \in {shard, shardFile},
           UNCHANGED <<shard, flushing, forgotten, commits, restarts>>
    PROVE  GroupsInv'
  <1>1. request' = [request EXCEPT ![c] = NoRequest] /\ UNCHANGED <<session, acked, handed>>
    BY DEF AnswerLost
  <1>2. request' \in [Clients -> Request \cup {NoRequest}] /\ \A d \in Clients : request'[d] \in {request[d], NoRequest}
    BY <1>1 DEF GroupsInv, GroupsTypeOK
  <1>3. flushing' \in BOOLEAN /\ restarts' \in 0 .. MaxRestarts
    BY DEF GroupsInv, GroupsTypeOK
  <1> QED BY <1>1, <1>2, <1>3, FileStep

\* The client learns of its session after the state that knows the session was written.
LEMMA AnswerKeeps ==
    ASSUME GroupsInv, NEW c \in Clients, ~Idle(c), Answer(c), shardFile' = shard,
           UNCHANGED <<shard, flushing, forgotten, commits, restarts>>
    PROVE  GroupsInv'
  <1> DEFINE r == request[c]
             n == request[c].session
  <1>0. shard \in Shard /\ shard.generation \in Nat /\ shard.next \in Nat /\ shard.generation \in Generations
    BY ShardParts DEF GroupsInv, GroupsTypeOK
  <1>1. r \in Request /\ n \in Session /\ n \in Told(c) /\ n.generation \in Nat
    <2>1. n \in Told(c)
      BY DEF Told
    <2> QED BY <2>1, ToldTyped, SessionParts DEF GroupsInv, GroupsTypeOK, Idle
  <1>2. WellFormed(n) /\ Knows(shard, n)
    BY <1>1 DEF GroupsInv, SessionsSound
  <1>3. session' = [session EXCEPT ![c] = n] /\ request' = [request EXCEPT ![c] = NoRequest]
    BY DEF Answer
  <1>4. /\ session' \in [Clients -> Session] /\ session'[c] = n /\ \A d \in Clients : d # c => session'[d] = session[d]
        /\ request' \in [Clients -> Request \cup {NoRequest}] /\ request'[c] = NoRequest
        /\ \A d \in Clients : d # c => request'[d] = request[d]
    BY <1>1, <1>3 DEF GroupsInv, GroupsTypeOK
  <1>5. /\ handed \in [Subscribed -> Generations] /\ \A p \in Subscribed : handed[p] \in Nat
    <2>1. handed \in [Subscribed -> Generations]
      BY DEF GroupsInv, GroupsTypeOK
    <2>2. Generations \subseteq Nat
      BY GroupsAssumption DEF Generations
    <2> QED BY <2>1, <2>2
  <1>6. /\ handed' \in [Subscribed -> Generations]
        /\ \A p \in Subscribed : handed'[p] \in {handed[p], n.generation}
    <2>1. n.generation \in Generations
      BY <1>1, SessionParts
    <2> QED BY <1>5, <2>1 DEF Answer
  <1>7. /\ acked' \in [Subscribed -> 0 .. MaxCommits] /\ acked \in [Subscribed -> 0 .. MaxCommits]
        /\ \A p \in Subscribed : acked'[p] = acked[p] \/ (r.kind = "commit" /\ r.partition = p /\ acked'[p] = r.value)
    <2>1. acked \in [Subscribed -> 0 .. MaxCommits]
      BY DEF GroupsInv, GroupsTypeOK
    <2>2. r.kind = "commit" => r.partition \in Subscribed /\ r.value \in 0 .. MaxCommits
      BY <1>1, GroupsAssumption DEF Request
    <2> QED BY <2>1, <2>2 DEF Answer
  <1>8. GroupsTypeOK'
    BY <1>4, <1>6, <1>7 DEF GroupsInv, GroupsTypeOK
  <1>9. SessionsSound'
    <2>1. \A d \in Clients : Told(d)' \subseteq Told(d)
      BY <1>1, <1>4 DEF Told, Idle
    <2>2. \A d \in Clients : Knows(shard, session[d])
      BY DEF GroupsInv, SessionsSound, Told
    <2>3. \A d \in Clients : Knows(shardFile', session'[d])
      BY <1>2, <1>4, <2>2
    <2>4. shard'.generation >= shard.generation /\ shard'.next >= shard.next /\ shard' \in Shard
          /\ Members(shard') = Members(shard)
      BY <1>0
    <2> QED BY <2>1, <2>3, <2>4, SessionsKept DEF GroupsInv
  <1>10. FileBehind'
    BY <1>0 DEF FileBehind
  <1>11. HandedBehind'
    <2>1. shardFile.generation \in Nat
      BY ShardParts DEF GroupsInv, GroupsTypeOK
    <2>2. n.generation <= shard.generation
      BY <1>2 DEF Knows
    <2>3. \A p \in Subscribed : handed[p] <= shard.generation
      BY <1>0, <1>5, <2>1 DEF GroupsInv, FileBehind, HandedBehind
    <2> QED BY <1>6, <2>2, <2>3 DEF HandedBehind
  <1>12. AssignmentsSound'
    BY DEF GroupsInv, AssignmentsSound, Divided, Members
  <1>13. OffsetsSound'
    <2>1. r.kind = "commit" => Keeps(shard, r.partition, r.value) /\ r.value <= commits
      BY DEF GroupsInv, OffsetsSound
    <2>2. ASSUME NEW p \in Subscribed
          PROVE  (/\ Keeps(shard, p, acked[p]) /\ Keeps(shardFile, p, acked[p])
                  /\ acked[p] <= commits /\ Dated(shard, p) /\ Dated(shardFile, p))'
      <3>1. Keeps(shard, p, acked[p]) /\ acked[p] <= commits /\ Dated(shard, p)
        BY DEF GroupsInv, OffsetsSound
      <3>2. Keeps(shard, p, acked'[p]) /\ acked'[p] <= commits
        BY <3>1, <2>1, <1>7
      <3> QED BY <3>1, <3>2 DEF Keeps, Dated
    <2>3. ASSUME NEW d \in Clients, (request[d].kind = "commit")'
          PROVE  (Keeps(shard, request[d].partition, request[d].value) /\ request[d].value <= commits)'
      <3>1. request'[d] = request[d]
        BY <2>3, <1>4 DEF NoRequest
      <3> QED BY <3>1, <2>3 DEF GroupsInv, OffsetsSound, Keeps
    <2> QED BY <2>2, <2>3 DEF OffsetsSound
  <1> QED BY <1>8, <1>9, <1>10, <1>11, <1>12, <1>13 DEF GroupsInv

LEMMA PersistKeeps ==
    ASSUME GroupsInv, NEW c \in Clients, PersistAndAnswer(c) \/ PersistFails(c)
    PROVE  GroupsInv'
  <1>1. CASE PersistAndAnswer(c) /\ Answer(c)
    BY <1>1, AnswerKeeps DEF PersistAndAnswer
  <1>2. CASE PersistAndAnswer(c) /\ AnswerLost(c)
    BY <1>2, LostAnswersKeep DEF PersistAndAnswer
  <1>3. CASE PersistFails(c)
    BY <1>3, LostAnswersKeep DEF PersistFails, coordinator
  <1> QED BY <1>1, <1>2, <1>3 DEF PersistAndAnswer

LEMMA PersistExpiredKeeps ==
    ASSUME GroupsInv, PersistExpired
    PROVE  GroupsInv'
  <1>1. UNCHANGED <<shard, session, forgotten, acked, handed, commits, request, restarts>> /\ shardFile' \in {shard, shardFile}
        /\ flushing' \in BOOLEAN
    BY DEF PersistExpired, ghosts
  <1>2. request' \in [Clients -> Request \cup {NoRequest}] /\ restarts' \in 0 .. MaxRestarts
    BY <1>1 DEF GroupsInv, GroupsTypeOK
  <1> QED BY <1>1, <1>2, FileStep

LEMMA ExpireKeeps ==
    ASSUME GroupsInv, Expire
    PROVE  GroupsInv'
  <1>0. shard \in Shard /\ Sheds(shard) /\ Divided(shard) /\ shard.generation \in Nat /\ shard.next \in Nat
        /\ shard.generation < MaxGeneration
    BY ShardParts DEF GroupsInv, GroupsTypeOK, Sheds, AssignmentsSound, Expire
  <1>1. PICK gone \in SUBSET Members(shard), due \in SUBSET Subscribed :
            LET left == IF gone = {} THEN shard ELSE RemoveMembers(shard, gone)
                expired == ExpiredOffsets(left, due)
            IN /\ shard' = [left EXCEPT !.offsets = [p \in Subscribed |-> IF p \in expired THEN NoOffset ELSE @[p]]]
               /\ forgotten' = [p \in Subscribed |-> IF p \in expired THEN shard.offsets[p].value ELSE forgotten[p]]
    BY DEF Expire
  <1> DEFINE left == IF gone = {} THEN shard ELSE RemoveMembers(shard, gone)
             expired == ExpiredOffsets(left, due)
             os == [p \in Subscribed |-> IF p \in expired THEN NoOffset ELSE shard.offsets[p]]
  <1>2. UNCHANGED <<shardFile, session, request, acked, handed, commits, restarts>> /\ flushing' \in BOOLEAN
    BY DEF Expire
  <1>3. /\ left \in Shard /\ Sheds(left) /\ Divided(left) /\ left.next = shard.next /\ left.offsets = shard.offsets
        /\ left.generation >= shard.generation /\ (left.generation = shard.generation => left = shard)
    <2>1. CASE gone = {}
      BY <2>1, <1>0
    <2>2. CASE gone # {}
      <3>1. /\ left \in Shard /\ Sheds(left) /\ left.next = shard.next /\ left.offsets = shard.offsets
            /\ left.phase # "Stable" /\ left.generation = shard.generation + 1
        BY <2>2, <1>0, Removed
      <3> QED BY <3>1, <1>0 DEF Divided
    <2> QED BY <2>1, <2>2
  <1>4. \A p \in expired : p \in Subscribed /\ shard.offsets[p].expires
    <2> HIDE DEF left
    <2> QED BY <1>3 DEF ExpiredOffsets
  <1>5. shard.offsets \in [Subscribed -> Offset] /\ NoOffset \in Offset /\ NoOffset.value = 0 /\ ~NoOffset.expires
    BY <1>0, ShardParts, GroupsAssumption DEF NoOffset, Offset, Generations
  <1>6. shard' = [left EXCEPT !.offsets = os]
    BY <1>1, <1>3
  <1>7. os \in [Subscribed -> Offset] /\ \A p \in Subscribed : os[p] = IF p \in expired THEN NoOffset ELSE shard.offsets[p]
    BY <1>5
  <1>8. \A p \in Subscribed : forgotten'[p] = IF p \in expired THEN shard.offsets[p].value ELSE forgotten[p]
    BY <1>1
  <1>9. forgotten' \in [Subscribed -> 0 .. MaxCommits]
    <2>1. \A p \in Subscribed : shard.offsets[p].value \in 0 .. MaxCommits /\ forgotten[p] \in 0 .. MaxCommits
      BY <1>5 DEF Offset, GroupsInv, GroupsTypeOK
    <2> QED BY <1>1, <2>1
  <1> HIDE DEF left, expired, os
  <1>10. /\ shard' \in Shard /\ shard'.next = left.next /\ shard'.generation = left.generation /\ shard'.phase = left.phase
         /\ shard'.members = left.members /\ shard'.assignment = left.assignment /\ shard'.offsets = os
    <2>1. shard' \in Shard
      BY <1>3, <1>6, <1>7 DEF Shard
    <2> QED BY <2>1, <1>3, <1>6 DEF Shard
  <1>11. Members(shard') = Members(left)
    BY <1>10 DEF Members
  <1>12. Sheds(shard') /\ Divided(shard')
    BY <1>3, <1>10, <1>11 DEF Sheds, Divided
  <1>13. GroupsTypeOK'
    <2>1. \A s \in {shard', shardFile'} : \A m \in Ids \ Members(s) : s.assignment[m] = {}
      BY <1>2, <1>12 DEF GroupsInv, GroupsTypeOK, Sheds
    <2> QED BY <1>2, <1>9, <1>10, <2>1 DEF GroupsInv, GroupsTypeOK
  <1>14. SessionsSound'
    <2>1. \A d \in Clients : Told(d)' \subseteq Told(d)
      BY <1>2 DEF Told, Idle
    <2>2. \A d \in Clients : Knows(shardFile', session'[d])
      BY <1>2 DEF GroupsInv, SessionsSound
    <2>3. /\ shard'.generation >= shard.generation /\ shard'.next >= shard.next
          /\ (shard'.generation = shard.generation => Members(shard') = Members(shard))
      BY <1>0, <1>3, <1>10, <1>11
    <2> QED BY <1>10, <2>1, <2>2, <2>3, SessionsKept DEF GroupsInv
  <1>15. FileBehind' /\ HandedBehind'
    <2>1. shardFile.generation \in Nat /\ shardFile.next \in Nat /\ left.generation \in Nat
      BY <1>3, ShardParts DEF GroupsInv, GroupsTypeOK
    <2>2. FileBehind'
      BY <1>0, <1>2, <1>3, <1>10, <2>1 DEF GroupsInv, FileBehind
    <2>3. HandedBehind'
      BY <1>2 DEF GroupsInv, HandedBehind
    <2> QED BY <2>2, <2>3
  <1>16. AssignmentsSound'
    BY <1>2, <1>12 DEF GroupsInv, AssignmentsSound
  <1>17. OffsetsSound'
    <2>0. \A p \in Subscribed : acked[p] \in Nat /\ shard.offsets[p].value \in Nat
      BY <1>0, ShardParts, GroupsAssumption DEF GroupsInv, GroupsTypeOK
    <2>1. \A p \in Subscribed : shard'.offsets[p] = IF p \in expired THEN NoOffset ELSE shard.offsets[p]
      BY <1>7, <1>10
    <2>2. \A p \in expired : p \in Subscribed /\ shard.offsets[p].value # 0
      BY <1>4 DEF GroupsInv, OffsetsSound, Dated
    <2>3. ASSUME NEW p \in Subscribed, NEW w \in Nat, Keeps(shard, p, w)
          PROVE  Keeps(shard, p, w)'
      BY <2>1, <2>2, <2>3, <1>5, <1>8 DEF Keeps
    <2>4. ASSUME NEW p \in Subscribed
          PROVE  (/\ Keeps(shard, p, acked[p]) /\ Keeps(shardFile, p, acked[p])
                  /\ acked[p] <= commits /\ Dated(shard, p) /\ Dated(shardFile, p))'
      <3>1. /\ Keeps(shard, p, acked[p]) /\ Keeps(shardFile, p, acked[p])
            /\ acked[p] <= commits /\ Dated(shard, p) /\ Dated(shardFile, p)
        BY DEF GroupsInv, OffsetsSound
      <3>2. Keeps(shard, p, acked[p])'
        BY <3>1, <2>0, <2>3, <1>2 DEF Keeps
      <3>3. Keeps(shardFile, p, acked[p])'
        BY <3>1, <2>2, <1>2, <1>8 DEF Keeps
      <3>4. (acked[p] <= commits /\ Dated(shardFile, p))'
        BY <3>1, <1>2 DEF Dated
      <3>5. commits \in Nat
        BY GroupsAssumption DEF GroupsInv, GroupsTypeOK
      <3>6. Dated(shard, p)'
        BY <3>1, <3>5, <1>2, <1>5, <2>1 DEF Dated
      <3> QED BY <3>2, <3>3, <3>4, <3>6
    <2>5. ASSUME NEW d \in Clients, (request[d].kind = "commit")'
          PROVE  (Keeps(shard, request[d].partition, request[d].value) /\ request[d].value <= commits)'
      <3>1. request'[d] = request[d] /\ request[d].kind = "commit"
        BY <2>5, <1>2
      <3>2. request[d].partition \in Subscribed /\ request[d].value \in Nat
        BY <3>1 DEF GroupsInv, GroupsTypeOK, Request, NoRequest
      <3>3. Keeps(shard, request[d].partition, request[d].value) /\ request[d].value <= commits
        BY <3>1 DEF GroupsInv, OffsetsSound
      <3>4. Keeps(shard, request[d].partition, request[d].value)'
        BY <3>1, <3>2, <3>3, <2>3 DEF Keeps
      <3> QED BY <3>1, <3>3, <3>4, <1>2
    <2> QED BY <2>4, <2>5 DEF OffsetsSound
  <1> QED BY <1>13, <1>14, <1>15, <1>16, <1>17 DEF GroupsInv

\* What clients were told survives the process: the file knows it.
LEMMA RestartKeeps ==
    ASSUME GroupsInv, Restart
    PROVE  GroupsInv'
  <1>1. /\ shard' = shardFile /\ request' = [c \in Clients |-> NoRequest] /\ flushing' = FALSE
        /\ UNCHANGED <<shardFile, session, acked, forgotten, handed, commits>>
    BY DEF Restart, ghosts
  <1>2. restarts' \in 0 .. MaxRestarts
    BY GroupsAssumption DEF Restart, GroupsInv, GroupsTypeOK
  <1>3. GroupsTypeOK'
    BY <1>1, <1>2 DEF GroupsInv, GroupsTypeOK
  <1>4. \A c \in Clients : Told(c)' = {session[c]} /\ session[c] \in Told(c)
    BY <1>1 DEF Told, Idle
  <1>5. SessionsSound'
    <2>1. \A c \in Clients : \A k \in Told(c)' : k = session[c]
      BY <1>4
    <2>2. \A c \in Clients : WellFormed(session[c]) /\ Knows(shardFile, session[c])
      BY <1>4 DEF GroupsInv, SessionsSound
    <2>3. \A c, d \in Clients : Agree(session[c], session[d]) /\ (c # d /\ session[c].id = session[d].id => session[c].id = 0)
      BY <1>4 DEF GroupsInv, SessionsSound
    <2>4. \A c \in Clients : \A k \in Told(c)' : WellFormed(k) /\ Knows(shard', k)
      BY <1>1, <2>1, <2>2
    <2>5. \A c \in Clients : Knows(shardFile', session'[c])
      BY <1>1, <2>2
    <2>6. \A c, d \in Clients : \A k \in Told(c)', l \in Told(d)' : Agree(k, l) /\ (c # d /\ k.id = l.id => k.id = 0)
      BY <2>1, <2>3
    <2> QED BY <2>4, <2>5, <2>6 DEF SessionsSound
  <1>6. FileBehind'
    <2>1. shardFile.generation \in Nat /\ shardFile.next \in Nat
      BY ShardParts DEF GroupsInv, GroupsTypeOK
    <2> QED BY <1>1, <2>1 DEF FileBehind
  <1>7. HandedBehind' /\ AssignmentsSound'
    BY <1>1 DEF GroupsInv, HandedBehind, AssignmentsSound, Divided, Members
  <1>8. OffsetsSound'
    <2>1. \A p \in Subscribed : /\ Keeps(shard, p, acked[p])' /\ Keeps(shardFile, p, acked[p])'
                                /\ (acked[p] <= commits)' /\ Dated(shard, p)' /\ Dated(shardFile, p)'
      BY <1>1 DEF GroupsInv, OffsetsSound, Keeps, Dated
    <2>2. \A d \in Clients : request'[d].kind # "commit"
      BY <1>1 DEF NoRequest
    <2> QED BY <2>1, <2>2 DEF OffsetsSound
  <1> QED BY <1>3, <1>5, <1>6, <1>7, <1>8 DEF GroupsInv

-----------------------------------------------------------------------------
LEMMA InitSound ==
    ASSUME GroupsInit
    PROVE  GroupsInv
  <1>1. NewShard \in Shard /\ NewShard.generation = 0 /\ NewShard.next = 0 /\ NewShard.phase = "Empty"
        /\ NewShard.assignment = [m \in Ids |-> {}] /\ NewShard.offsets = [p \in Subscribed |-> NoOffset]
    <2>1. NoOffset \in Offset
      BY GroupsAssumption DEF NoOffset, Offset, Generations
    <2>2. [m \in Ids |-> {}] \in [Ids -> SUBSET Protocols] /\ [m \in Ids |-> {}] \in [Ids -> SUBSET Subscribed]
          /\ [p \in Subscribed |-> NoOffset] \in [Subscribed -> Offset]
      BY <2>1
    <2>3. 0 \in 0 .. MaxMembers /\ 0 \in Generations /\ NoProtocol \in Protocols \cup {NoProtocol}
      BY GroupsAssumption DEF Generations
    <2> QED BY <2>2, <2>3 DEF NewShard, Shard
  <1>2. Out \in Session /\ ~Taking(Out) /\ Out.id = 0 /\ WellFormed(Out) /\ Knows(NewShard, Out)
    BY <1>1, OutIsOut
  <1>3. /\ shard = NewShard /\ shardFile = NewShard /\ session = [c \in Clients |-> Out]
        /\ request = [c \in Clients |-> NoRequest]
    BY DEF GroupsInit
  <1>4. GroupsTypeOK
    <2>1. \A s \in {shard, shardFile} : \A m \in Ids \ Members(s) : s.assignment[m] = {}
      BY <1>1, <1>3
    <2>2. acked \in [Subscribed -> 0 .. MaxCommits] /\ forgotten \in [Subscribed -> 0 .. MaxCommits]
          /\ handed \in [Subscribed -> Generations] /\ commits \in 0 .. MaxCommits /\ restarts \in 0 .. MaxRestarts
      BY GroupsAssumption DEF GroupsInit, Generations
    <2>3. session \in [Clients -> Session] /\ request \in [Clients -> Request \cup {NoRequest}] /\ flushing \in BOOLEAN
      BY <1>2, <1>3 DEF GroupsInit
    <2> QED BY <1>1, <1>3, <2>1, <2>2, <2>3 DEF GroupsTypeOK
  <1>5. SessionsSound
    <2>1. \A c \in Clients : session[c] = Out /\ Told(c) = {Out}
      BY <1>3 DEF Told, Idle
    <2>2. Agree(Out, Out)
      BY DEF Agree
    <2> QED BY <1>2, <1>3, <2>1, <2>2 DEF SessionsSound
  <1>6. FileBehind /\ HandedBehind /\ AssignmentsSound
    BY <1>1, <1>3 DEF GroupsInit, FileBehind, HandedBehind, AssignmentsSound, Divided
  <1>7. OffsetsSound
    <2>1. \A p \in Subscribed : acked[p] = 0 /\ forgotten[p] = 0 /\ commits = 0
          /\ shard.offsets[p] = NoOffset /\ shardFile.offsets[p] = NoOffset
      BY <1>1, <1>3 DEF GroupsInit
    <2>2. NoOffset.value = 0 /\ ~NoOffset.expires
      BY DEF NoOffset
    <2>3. \A c \in Clients : request[c].kind # "commit"
      BY <1>3 DEF NoRequest
    <2> QED BY <2>1, <2>2, <2>3 DEF OffsetsSound, Keeps, Dated
  <1> QED BY <1>4, <1>5, <1>6, <1>7 DEF GroupsInv

LEMMA NextKeeps ==
    ASSUME GroupsInv, [GroupsNext]_groupsVars
    PROVE  GroupsInv'
  <1>1. ASSUME NEW c \in Clients, ClientStep(c)
        PROVE  GroupsInv'
    BY <1>1, JoinKeeps, SyncAsLeaderKeeps, SyncAsFollowerKeeps, HeartbeatKeeps, LeaveKeeps, RefusalsKeep,
       CommitOffsetsKeeps DEF ClientStep
  <1>2. CASE UNCHANGED groupsVars
    <2>1. UNCHANGED <<shard, shardFile, session, request, flushing, acked, forgotten, handed, commits, restarts>>
      BY <1>2 DEF groupsVars, ghosts
    <2>2. request' \in [Clients -> Request \cup {NoRequest}] /\ flushing' \in BOOLEAN /\ restarts' \in 0 .. MaxRestarts
      BY <2>1 DEF GroupsInv, GroupsTypeOK
    <2> QED BY <2>1, <2>2, FileStep
  <1> QED BY <1>1, <1>2, PersistKeeps, ExpireKeeps, PersistExpiredKeeps, RestartKeeps DEF GroupsNext

\* The coordinator's state, its file and what the clients were told agree at
\* every step, through lost answers, failed writes and restarts.
THEOREM GroupsInvariant == GroupsSpec => []GroupsInv
  <1>1. GroupsInit => GroupsInv
    BY InitSound
  <1>2. GroupsInv /\ [GroupsNext]_groupsVars => GroupsInv'
    BY NextKeeps
  <1> QED BY <1>1, <1>2, PTL DEF GroupsSpec

\* The state of GroupCoordinator and its shard file keep their types, and a
\* member that is gone has no assignment.
THEOREM GroupsTypeCorrect == GroupsSpec => []GroupsTypeOK
  <1>1. GroupsInv => GroupsTypeOK
    BY DEF GroupsInv
  <1> QED BY <1>1, GroupsInvariant, PTL

\* In every generation of GroupMachine a partition has one owner, a stable
\* group covers every partition, and GroupCoordinator::apply answers a commit
\* only once it is durable.
THEOREM GroupsAreSound == GroupsSpec => []GroupsSound
  <1>1. ASSUME GroupsInv
        PROVE  OneOwnerPerGeneration
    <2> SUFFICES ASSUME NEW c \in Clients, NEW d \in Clients, c # d, session[c].stage = "stable", session[d].stage = "stable",
                        session[c].generation = session[d].generation
                 PROVE  session[c].owned \cap session[d].owned = {}
      BY DEF OneOwnerPerGeneration
    <2>1. session[c] \in Told(c) /\ session[d] \in Told(d)
      BY DEF Told
    <2>2. session[c] \in Session /\ session[d] \in Session
      BY <1>1 DEF GroupsInv, GroupsTypeOK
    <2>3. WellFormed(session[c]) /\ WellFormed(session[d]) /\ Agree(session[c], session[d])
          /\ (session[c].id = session[d].id => session[c].id = 0)
      BY <1>1, <2>1 DEF GroupsInv, SessionsSound
    <2>4. session[c].view = session[d].view /\ session[c].id \in session[c].view /\ session[d].id \in session[c].view
          /\ session[c].owned = Assign(session[c].view, session[c].generation)[session[c].id]
          /\ session[d].owned = Assign(session[c].view, session[c].generation)[session[d].id]
      BY <2>3 DEF WellFormed, Agree, Taking
    <2>5. session[c].view \in SUBSET Ids /\ session[c].view # {} /\ session[c].generation \in Nat /\ session[c].id # 0
      BY <2>2, <2>4, SessionParts, GroupsAssumption DEF Ids
    <2> DEFINE V == session[c].view
               g == session[c].generation
    <2>6. \A m, n \in V : m # n => Assign(V, g)[m] \cap Assign(V, g)[n] = {}
      BY <2>5, AssignPartitions
    <2> QED BY <2>3, <2>4, <2>5, <2>6
  <1>2. ASSUME GroupsInv, NEW s \in {shard, shardFile}, s.phase = "Stable", NEW p \in Subscribed
        PROVE  Cardinality({m \in Members(s) : p \in s.assignment[m]}) = 1
    <2>1. s \in Shard /\ Members(s) \in SUBSET Ids /\ s.generation \in Nat
      BY <1>2, ShardParts DEF GroupsInv, GroupsTypeOK
    <2>2. Members(s) # {} /\ \A m \in Members(s) : s.assignment[m] = Assign(Members(s), s.generation)[m]
      BY <1>2 DEF GroupsInv, AssignmentsSound, Divided
    <2>3. PICK m \in Members(s) : p \in Assign(Members(s), s.generation)[m]
      BY <2>1, <2>2, AssignPartitions
    <2>4. \A k \in Members(s) : k # m => Assign(Members(s), s.generation)[m] \cap Assign(Members(s), s.generation)[k] = {}
      BY <2>1, <2>2, AssignPartitions
    <2>5. {k \in Members(s) : p \in s.assignment[k]} = {m}
      BY <2>2, <2>3, <2>4
    <2> QED BY <2>5, FS_Singleton
  <1>3. ASSUME GroupsInv
        PROVE  AckedCommitDurable
    <2> SUFFICES ASSUME NEW p \in Subscribed, acked[p] > forgotten[p]
                 PROVE  shardFile.offsets[p].value >= acked[p]
      BY DEF AckedCommitDurable
    <2>1. Keeps(shardFile, p, acked[p])
      BY <1>3 DEF GroupsInv, OffsetsSound
    <2>2. acked[p] \in Nat /\ forgotten[p] \in Nat /\ shardFile.offsets[p].value \in Nat
      BY <1>3, ShardParts, GroupsAssumption DEF GroupsInv, GroupsTypeOK
    <2> QED BY <2>1, <2>2 DEF Keeps
  <1>4. GroupsInv => GroupsSound
    BY <1>1, <1>2, <1>3 DEF GroupsSound, StableCovers
  <1> QED BY <1>4, GroupsInvariant, PTL

\* validate_member() fences: a commit is accepted only of the newest
\* generation, which no client was given a partition after.
THEOREM GroupsFenceFormerOwners == GroupsSpec => FormerOwnerFenced
  <1>1. ASSUME GroupsInv, [GroupsNext]_groupsVars
        PROVE  FencedStep
    <2> SUFFICES ASSUME commits' > commits, NEW p \in Subscribed, shard'.offsets[p] # shard.offsets[p]
                 PROVE  shard'.offsets[p].generation >= handed[p]
      BY DEF FencedStep
    <2>1. commits \in Nat
      BY <1>1, GroupsAssumption DEF GroupsInv, GroupsTypeOK
    <2>a. ASSUME NEW c \in Clients, ClientStep(c)
          PROVE  \E q \in Subscribed : CommitOffsets(c, q)
      <3>1. CASE Join(c) \/ SyncAsLeader(c) \/ SyncAsFollower(c) \/ Heartbeat(c) \/ Leave(c)
        BY <3>1, <2>1 DEF Join, SyncAsLeader, SyncAsFollower, Heartbeat, Leave, Applied, ghosts
      <3>2. CASE JoinInconsistent(c) \/ SyncRefused(c) \/ HeartbeatRefused(c) \/ CommitRefused(c)
        BY <3>2, <2>1 DEF JoinInconsistent, SyncRefused, HeartbeatRefused, CommitRefused, Refused, ghosts
      <3> QED BY <2>a, <3>1, <3>2 DEF ClientStep
    <2>b. \A c \in Clients : ~PersistAndAnswer(c) /\ ~PersistFails(c)
      BY <2>1 DEF PersistAndAnswer, PersistFails
    <2>c. ~Expire /\ ~PersistExpired /\ ~Restart
      BY <2>1 DEF Expire, PersistExpired, Restart, ghosts
    <2>d. ~UNCHANGED groupsVars
      BY <2>1 DEF groupsVars, ghosts
    <2>2. PICK c \in Clients, q \in Subscribed : CommitOffsets(c, q)
      BY <1>1, <2>a, <2>b, <2>c, <2>d DEF GroupsNext
    <2>3. shard.offsets \in [Subscribed -> Offset] /\ shard \in Shard /\ shard.generation \in Nat
      BY <1>1, ShardParts DEF GroupsInv, GroupsTypeOK
    <2>4. PICK retention \in BOOLEAN : shard' = [shard EXCEPT !.offsets[q] =
                    [value |-> commits + 1, generation |-> session[c].generation, expires |-> retention]]
      BY <2>2 DEF CommitOffsets
    <2>5. shard'.offsets = [shard.offsets EXCEPT ![q] =
                    [value |-> commits + 1, generation |-> session[c].generation, expires |-> retention]]
      BY <2>3, <2>4 DEF Shard
    <2>6. shard'.offsets[p].generation = session[c].generation
      BY <2>3, <2>5
    <2>7. session[c].generation = shard.generation
      BY <2>2 DEF CommitOffsets, CommitAccepted, ValidMember
    <2>8. handed[p] <= shardFile.generation /\ shardFile.generation <= shard.generation
      BY <1>1 DEF GroupsInv, HandedBehind, FileBehind
    <2>9. shardFile.generation \in Nat /\ handed[p] \in Nat
      <3>1. handed[p] \in Generations /\ Generations \subseteq Nat
        BY <1>1, GroupsAssumption DEF GroupsInv, GroupsTypeOK, Generations
      <3> QED BY <1>1, <3>1, ShardParts DEF GroupsInv, GroupsTypeOK
    <2> QED BY <2>3, <2>6, <2>7, <2>8, <2>9
  <1> QED BY <1>1, GroupsInvariant, PTL DEF GroupsSpec, FormerOwnerFenced

=============================================================================
