--------------------------- MODULE ConsumerGroups ---------------------------
(***************************************************************************)
(* The consumer-group coordinator of pepper-kafka for one group: the       *)
(* deterministic GroupMachine, GroupCoordinator::apply (the command is     *)
(* applied in memory, the whole shard is written to a file under a lock,   *)
(* then the client is answered), the expiry task and a restart from the    *)
(* file.                                                                   *)
(*                                                                         *)
(* The consumers are external: each joins, syncs, commits and leaves as a  *)
(* Kafka client does, retries when an answer is lost, and computes the     *)
(* assignment from the member list of the generation it leads.  Times are  *)
(* abstract: a session or a retention may have run out whenever the expiry *)
(* task looks.  Member ids are numbers in the order of the ids.            *)
(***************************************************************************)
EXTENDS Naturals, FiniteSets, FiniteSetsExt

CONSTANTS
    Clients,            \* consumer processes
    Subscribed,         \* a set of naturals: the subscribed partitions
    Supports,           \* per client, the protocols (naturals, by name order) it offers
    MaxGeneration,      \* bound on rebalances
    MaxMembers,         \* bound on the member ids handed out
    MaxCommits,         \* bound on offset commits
    MaxRestarts         \* bound on coordinator restarts

ASSUME GroupsAssumption ==
    /\ Subscribed \subseteq Nat
    /\ Supports \in [Clients -> SUBSET (Nat \ {0})]
    /\ MaxGeneration \in Nat /\ MaxMembers \in Nat /\ MaxCommits \in Nat /\ MaxRestarts \in Nat

VARIABLES
    shard,      \* the shard's state in memory (GroupState, one group)
    shardFile,  \* shard-N.json
    session,    \* what each client believes
    request,    \* the session a client has once its applied request is answered
    flushing,   \* the expiry task is about to persist
    acked,      \* newest commit answered without error, per partition
    forgotten,  \* newest commit whose retention ran out, per partition
    handed,     \* newest generation in which a client was given the partition
    commits,    \* commits so far; a commit's number is its offset
    restarts

coordinator == <<shard, shardFile, flushing>>
ghosts == <<acked, forgotten, handed, commits>>
groupsVars == <<shard, shardFile, session, request, flushing, ghosts, restarts>>

Ids == 1 .. MaxMembers
Generations == 0 .. MaxGeneration
NoProtocol == 0
NoOffset == [value |-> 0, generation |-> 0, expires |-> FALSE]
Offset == [value : 0 .. MaxCommits, generation : Generations, expires : BOOLEAN]

Protocols == UNION {Supports[c] : c \in Clients}

Shard == [next : 0 .. MaxMembers, generation : Generations, leader : 0 .. MaxMembers,
          protocol : Protocols \cup {NoProtocol},
          phase : {"Empty", "PreparingRebalance", "Stable"},
          members : [Ids -> SUBSET Protocols],          \* {}: not a member
          assignment : [Ids -> SUBSET Subscribed],
          offsets : [Subscribed -> Offset]]

Session == [id : 0 .. MaxMembers, generation : Generations, view : SUBSET Ids,
            stage : {"out", "joined", "stable"}, owned : SUBSET Subscribed]

NoRequest == [kind |-> "none"]
Request == [kind : {"session"}, session : Session]
             \cup [kind : {"commit"}, session : Session, partition : Subscribed, value : 1 .. MaxCommits]

Members(s) == {m \in Ids : s.members[m] # {}}

GroupsTypeOK ==
    /\ shard \in Shard /\ shardFile \in Shard
    /\ \A s \in {shard, shardFile} : \A m \in Ids \ Members(s) : s.assignment[m] = {}
    /\ session \in [Clients -> Session]
    /\ request \in [Clients -> Request \cup {NoRequest}]
    /\ flushing \in BOOLEAN
    /\ acked \in [Subscribed -> 0 .. MaxCommits] /\ forgotten \in [Subscribed -> 0 .. MaxCommits]
    /\ handed \in [Subscribed -> Generations]
    /\ commits \in 0 .. MaxCommits /\ restarts \in 0 .. MaxRestarts

Out == [id |-> 0, generation |-> 0, view |-> {}, stage |-> "out", owned |-> {}]

\* GroupState::default(): no group yet.
NewShard == [next |-> 0, generation |-> 0, leader |-> 0, protocol |-> NoProtocol, phase |-> "Empty",
             members |-> [m \in Ids |-> {}], assignment |-> [m \in Ids |-> {}],
             offsets |-> [p \in Subscribed |-> NoOffset]]

GroupsInit ==
    /\ shard = NewShard /\ shardFile = NewShard /\ flushing = FALSE
    /\ session = [c \in Clients |-> Out]
    /\ request = [c \in Clients |-> NoRequest]
    /\ acked = [p \in Subscribed |-> 0] /\ forgotten = [p \in Subscribed |-> 0]
    /\ handed = [p \in Subscribed |-> 0]
    /\ commits = 0 /\ restarts = 0

-----------------------------------------------------------------------------
(* GroupMachine::apply *)

LeaderOf(members) == IF members = {} THEN 0 ELSE Min(members)

StaleAssignments(s, gone) ==        \* the assignment outlives the member
    [s EXCEPT !.members = [m \in Ids |-> IF m \in gone THEN {} ELSE @[m]],
              !.generation = @ + 1,
              !.leader = LeaderOf(Members(s) \ gone),
              !.phase = IF Members(s) \subseteq gone THEN "Empty" ELSE "PreparingRebalance"]

\* Leave and Expire: the members go, the generation rises, the rest rebalance.
RemoveMembers(s, gone) ==
    [s EXCEPT !.members = [m \in Ids |-> IF m \in gone THEN {} ELSE @[m]],
              !.assignment = [m \in Ids |-> IF m \in gone THEN {} ELSE @[m]],
              !.generation = @ + 1,
              !.leader = LeaderOf(Members(s) \ gone),
              !.phase = IF Members(s) \subseteq gone THEN "Empty" ELSE "PreparingRebalance"]

QuietRejoin(s, m, offered) ==       \* a known member's join does not begin a rebalance
    [s EXCEPT !.members[m] = offered, !.assignment[m] = {},
              !.generation = IF m \in Members(s) THEN @ ELSE @ + 1,
              !.leader = Min(Members(s) \cup {m}),
              !.phase = IF m \in Members(s) THEN @ ELSE "PreparingRebalance"]

\* The member is (re)inserted without an assignment.
InsertMember(s, m, offered) ==
    [s EXCEPT !.members[m] = offered, !.assignment[m] = {},
              !.generation = IF m \in Members(s) /\ s.phase = "PreparingRebalance" THEN @ ELSE @ + 1,
              !.leader = Min(Members(s) \cup {m}),
              !.phase = "PreparingRebalance"]

\* The protocol is chosen when the group is created and kept for ever.
Selected(s, offered) == IF s.protocol = NoProtocol THEN Min(offered) ELSE s.protocol

\* validate_member()
ValidMember(c) ==
    /\ shard.generation = session[c].generation
    /\ session[c].id \in Members(shard)

-----------------------------------------------------------------------------
(* Requests: applied in memory at once; the answer waits for persist().     *)

Idle(c) == request[c] = NoRequest

\* The request was applied; its answer makes the client's session `s`.
Applied(c, s) ==
    /\ request' = [request EXCEPT ![c] = [kind |-> "session", session |-> s]]
    /\ UNCHANGED <<shardFile, session, flushing, ghosts, restarts>>

\* Refused by the machine: nothing changed, the client is told.
Refused(c, s) ==
    /\ session' = [session EXCEPT ![c] = s]
    /\ UNCHANGED <<coordinator, request, ghosts, restarts>>

\* Join, under the client's id or as a new member; an unknown id is accepted.
Join(c) ==
    /\ Idle(c) /\ shard.generation < MaxGeneration
    /\ session[c].id = 0 => shard.next < MaxMembers
    /\ Selected(shard, Supports[c]) \in Supports[c]
    /\ LET id == IF session[c].id = 0 THEN shard.next + 1 ELSE session[c].id
           joined == InsertMember(shard, id, Supports[c])
       IN /\ shard' = [joined EXCEPT !.next = IF session[c].id = 0 THEN id ELSE @,
                                     !.protocol = Selected(shard, Supports[c])]
          /\ Applied(c, [id |-> id, generation |-> joined.generation, view |-> Members(joined),
                         stage |-> "joined", owned |-> {}])

\* InconsistentProtocol: the group's protocol is not one the client offers.
JoinInconsistent(c) ==
    /\ Idle(c) /\ session[c].stage = "out"
    /\ Selected(shard, Supports[c]) \notin Supports[c]
    /\ Refused(c, Out)

\* What the leader of a generation sends (external: the client's assignor):
\* each partition to one of the members it was told of, rotating.
Assign(members, generation) ==
    [m \in Ids |-> {p \in Subscribed : m \in members /\
        Cardinality({k \in members : k < m}) = (p + generation) % Cardinality(members)}]

\* Sync of a client that leads: every member's assignment is set.
SyncAsLeader(c) ==
    /\ Idle(c) /\ session[c].stage = "joined"
    /\ ValidMember(c) /\ session[c].id = Min(session[c].view)
    /\ shard.leader = session[c].id /\ session[c].view \subseteq Members(shard)
    /\ LET assignment == Assign(session[c].view, session[c].generation)
       IN /\ shard' = [shard EXCEPT !.phase = "Stable", !.assignment =
                        [m \in Ids |-> IF m \in Members(shard) THEN assignment[m] ELSE {}]]
          /\ Applied(c, [session[c] EXCEPT !.stage = "stable", !.owned = assignment[session[c].id]])

\* Sync of a follower, once the group is stable.
SyncAsFollower(c) ==
    /\ Idle(c) /\ session[c].stage = "joined"
    /\ ValidMember(c) /\ session[c].id # Min(session[c].view)
    /\ shard.phase = "Stable"
    /\ UNCHANGED shard
    /\ Applied(c, [session[c] EXCEPT !.stage = "stable", !.owned = shard.assignment[session[c].id]])

\* RebalanceInProgress, IllegalGeneration or UnknownMember from Sync: rejoin,
\* without the id when the member is unknown.
Rejoining(c) == [Out EXCEPT !.id = IF shard.generation = session[c].generation /\ session[c].id \notin Members(shard)
                                   THEN 0 ELSE session[c].id]

SyncRefused(c) ==
    /\ Idle(c) /\ session[c].stage = "joined"
    /\ \/ ~ValidMember(c)
       \/ session[c].id # Min(session[c].view) /\ shard.phase # "Stable"
    /\ Refused(c, Rejoining(c))

\* Heartbeat: accepted only by a stable group; it touches only the session's clock.
Heartbeat(c) ==
    /\ Idle(c) /\ session[c].stage = "stable"
    /\ ValidMember(c) /\ shard.phase = "Stable"
    /\ UNCHANGED shard
    /\ Applied(c, session[c])

HeartbeatRefused(c) ==
    /\ Idle(c) /\ session[c].stage = "stable"
    /\ ~ValidMember(c) \/ shard.phase # "Stable"
    /\ Refused(c, Rejoining(c))

Leave(c) ==
    /\ Idle(c) /\ session[c].id \in Members(shard) /\ shard.generation < MaxGeneration
    /\ shard' = RemoveMembers(shard, {session[c].id})
    /\ Applied(c, Out)

UnfencedCommit(c) == session[c].id \in Members(shard)     \* the generation is not compared

\* CommitOffsets: generation and membership are checked, the phase is not.
CommitAccepted(c) == ValidMember(c)

CommitOffsets(c, p) ==
    /\ Idle(c) /\ session[c].stage = "stable" /\ p \in session[c].owned
    /\ CommitAccepted(c)
    /\ commits < MaxCommits
    /\ commits' = commits + 1
    /\ \E retention \in BOOLEAN :
         shard' = [shard EXCEPT !.offsets[p] =
                    [value |-> commits + 1, generation |-> session[c].generation, expires |-> retention]]
    /\ request' = [request EXCEPT ![c] =
                    [kind |-> "commit", session |-> session[c], partition |-> p, value |-> commits + 1]]
    /\ UNCHANGED <<shardFile, session, flushing, acked, forgotten, handed, restarts>>

CommitRefused(c) ==
    /\ Idle(c) /\ session[c].stage = "stable"
    /\ ~CommitAccepted(c)
    /\ Refused(c, Rejoining(c))

-----------------------------------------------------------------------------
(* GroupCoordinator *)

\* The client learns the outcome of its request.
Answer(c) ==
    /\ session' = [session EXCEPT ![c] = request[c].session]
    /\ request' = [request EXCEPT ![c] = NoRequest]
    /\ handed' = [p \in Subscribed |->
                    IF p \in request[c].session.owned /\ request[c].session.generation > handed[p]
                    THEN request[c].session.generation ELSE handed[p]]
    /\ acked' = IF request[c].kind = "commit" /\ request[c].value > acked[request[c].partition]
                THEN [acked EXCEPT ![request[c].partition] = request[c].value]
                ELSE acked

\* The client gets no usable answer; it may send the request again or rejoin.
AnswerLost(c) ==
    /\ request' = [request EXCEPT ![c] = NoRequest]
    /\ UNCHANGED <<session, acked, handed>>

\* persist() writes the state as it is now, other requests' changes included.
PersistAndAnswer(c) ==
    /\ ~Idle(c)
    /\ shardFile' = shard
    /\ Answer(c) \/ AnswerLost(c)
    /\ UNCHANGED <<shard, flushing, forgotten, commits, restarts>>

\* The write fails: an error is answered, the change stays in memory.
PersistFails(c) ==
    /\ ~Idle(c)
    /\ AnswerLost(c)
    /\ UNCHANGED <<coordinator, forgotten, commits, restarts>>

\* Offsets of a group without members whose retention has run out.
ExpiredOffsets(s, due) == {p \in due : Members(s) = {} /\ s.offsets[p].expires}

\* The background task: members whose session has run out, then offsets.
Expire ==
    /\ ~flushing /\ shard.generation < MaxGeneration
    /\ \E gone \in SUBSET Members(shard), due \in SUBSET Subscribed :
         LET left == IF gone = {} THEN shard ELSE RemoveMembers(shard, gone)
             expired == ExpiredOffsets(left, due)
         IN /\ gone # {} \/ expired # {}
            /\ shard' = [left EXCEPT !.offsets = [p \in Subscribed |-> IF p \in expired THEN NoOffset ELSE @[p]]]
            /\ forgotten' = [p \in Subscribed |-> IF p \in expired THEN shard.offsets[p].value ELSE forgotten[p]]
    /\ flushing' = TRUE
    /\ UNCHANGED <<shardFile, session, request, acked, handed, commits, restarts>>

\* The task persists what it expired; an error is dropped.
PersistExpired ==
    /\ flushing
    /\ flushing' = FALSE
    /\ shardFile' \in {shard, shardFile}
    /\ UNCHANGED <<shard, session, request, ghosts, restarts>>

\* The process dies and open() reads the file; connections are lost.
Restart ==
    /\ restarts < MaxRestarts
    /\ restarts' = restarts + 1
    /\ shard' = shardFile
    /\ flushing' = FALSE
    /\ request' = [c \in Clients |-> NoRequest]
    /\ UNCHANGED <<shardFile, session, ghosts>>

ClientStep(c) ==
    \/ Join(c) \/ JoinInconsistent(c)
    \/ SyncAsLeader(c) \/ SyncAsFollower(c) \/ SyncRefused(c)
    \/ Heartbeat(c) \/ HeartbeatRefused(c) \/ Leave(c)
    \/ (\E p \in Subscribed : CommitOffsets(c, p)) \/ CommitRefused(c)

GroupsNext ==
    \/ \E c \in Clients : ClientStep(c) \/ PersistAndAnswer(c) \/ PersistFails(c)
    \/ Expire \/ PersistExpired \/ Restart

GroupsSpec == GroupsInit /\ [][GroupsNext]_groupsVars

-----------------------------------------------------------------------------
(* Two clients whose Sync was answered in one generation own disjoint      *)
(* partitions, through lost answers, ghost members, failed writes and      *)
(* restarts: a generation a client was told of is never used again for     *)
(* another set of members.                                                 *)
OneOwnerPerGeneration == \A c, d \in Clients :
    c # d /\ session[c].stage = "stable" /\ session[d].stage = "stable"
          /\ session[c].generation = session[d].generation
    => session[c].owned \cap session[d].owned = {}

(* A stable group consumes everything: each partition is assigned to       *)
(* exactly one current member.                                             *)
StableCovers == \A s \in {shard, shardFile} : s.phase = "Stable" =>
    \A p \in Subscribed : Cardinality({m \in Members(s) : p \in s.assignment[m]}) = 1

(* A commit that was answered is in the file, or a later one of its        *)
(* partition is, until its retention runs out in a group without members.  *)
AckedCommitDurable == \A p \in Subscribed : acked[p] > forgotten[p] => shardFile.offsets[p].value >= acked[p]

(* Once a client was given a partition in a generation, no consumer of an  *)
(* earlier generation moves the partition's offset, not even after the     *)
(* coordinator restarts.                                                   *)
FencedStep == commits' > commits => \A p \in Subscribed :
    shard'.offsets[p] # shard.offsets[p] => shard'.offsets[p].generation >= handed[p]
FormerOwnerFenced == [][FencedStep]_groupsVars

(* A partition has one owner in a generation and a stable group covers     *)
(* every partition; answered commits are durable.                          *)
GroupsSound == OneOwnerPerGeneration /\ StableCovers /\ AckedCommitDurable
=============================================================================
