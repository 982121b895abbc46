--------------------------- MODULE SqliteSessions ---------------------------
(***************************************************************************)
(* Writing to a SQLite database through the VFS: the file of each process  *)
(* (pepper-sqlite-vfs production.rs and unix_client.rs), the agent that    *)
(* serves it (pepper-agent sqlite_api.rs) and the namespace leader with    *)
(* the writer coordinator (pepper-consensus lib.rs).                       *)
(*                                                                         *)
(* A request to the leader reads the head first, with an await, and takes  *)
(* the coordinator's mutex afterwards; a coordinator of another head or    *)
(* term is thrown away.  A commit keeps the mutex while its command is     *)
(* proposed; the command applies only to the head it was made for.  The    *)
(* coordinators of different terms are different objects.  A client that   *)
(* gets no answer to FinishCommit asks for the commit's status while the   *)
(* agent may still be working on it.                                       *)
(*                                                                         *)
(* An administrator's compaction or rollback takes the lock without        *)
(* waiting and commits in the same way, without a file.                    *)
(***************************************************************************)
EXTENDS WriterCoordinator, FiniteSets

CONSTANTS
    Files,          \* the processes that have the database open
    Admins,         \* compactions and rollbacks
    Wait,           \* busy_timeout_millis of the files
    Scenarios,      \* stale: a head may be read before a commit and used after it;
                    \* overlap: the agent may find another session's commit when it re-reads the head;
                    \* acqs: the acquisitions that are made; bounds on closes, terms, time and losses
    MaxAttempts     \* bound: commits of an actor

Actors == Files \cup Admins
Terms == 1 .. 2
Nobody == <<"nobody", 0>>

VARIABLES
    history,        \* the heads: by which commit and on which generation each was committed; head 1 is the import
    now, term,
    coord,          \* term -> the coordinator in its leader's sqlite_writers map
    mutex,          \* term -> the commit that holds sqlite_writers across its proposal
    file,           \* RemoteFile: opened generation, the one its page count is of, ticket, in_batch; the acquisition and
                    \* its deadline, commit_sequence
    held,           \* WorkerBackend.active_tickets
    session,        \* the agent's SqliteReadSession: the snapshot whose pages it serves
    pc, seen,       \* each actor's step; the head, the term and the time its request has read
    beat,           \* the heartbeat's request for the file's ticket
    job,            \* the agent's work on each commit
    outcome,        \* what SQLite was told of the file's last commit
    losses, closes, scenario

vars == <<history, now, term, coord, mutex, file, held, session, pc, seen, beat, job, outcome, losses, closes, scenario>>
leaderVars == <<coord, mutex>>
fileVars == <<file, held, session, outcome>>

Generation == Len(history)
Absent == NewCoordinator(0, 0)
NoRead == [head |-> 0, term |-> 0, at |-> 0]
NoJob == [pc |-> "none", base |-> 0, ticket |-> NoTicket, read |-> NoRead, clone |-> Absent, answer |-> 0]
Attempts == Actors \X (1 .. MaxAttempts)
Acq(a) == [by |-> a, n |-> file[a].acq]
LastKey(a) == <<a, file[a].seq>>           \* the idempotency key of the last commit

\* the generation a commit has made, 0 if none
OwnHead(k) == IF \E g \in 1 .. Generation : history[g].key = k
              THEN CHOOSE g \in 1 .. Generation : history[g].key = k ELSE 0

TicketOK(t) == t = NoTicket \/ (t.acq \in Acquisitions /\ t.base \in Nat /\ t.term \in Terms /\ t.epoch \in Nat)

TypeOK ==
    /\ \A g \in 1 .. Generation : history[g].base \in 0 .. Generation
    /\ now \in Nat /\ term \in Terms
    /\ \A t \in Terms : TicketOK(coord[t].active) /\ Len(coord[t].waiters) <= MaxWaiters
    /\ mutex \in [Terms -> Attempts \cup {Nobody}]
    /\ \A a \in Actors : file[a].snap \in 0 .. Generation /\ TicketOK(file[a].ticket) /\ TicketOK(held[a])
    /\ session \in [Actors -> Nat]
    /\ pc \in [Actors -> {"closed", "idle", "acquire", "queued", "poll", "locked", "release", "closing", "finish", "resolve"}]
    /\ \A k \in Attempts : job[k].pc \in {"none", "read", "guard", "propose", "answer", "ok", "error"}
    /\ outcome \in [Actors -> {"none", "ok", "failed", "unknown"}]
    /\ losses \in Nat /\ closes \in Nat

Init ==
    /\ history = <<[key |-> Nobody, base |-> 0]>>
    /\ now = 0 /\ term = 1 /\ losses = 0 /\ closes = 0
    /\ coord = [t \in Terms |-> Absent]
    /\ mutex = [t \in Terms |-> Nobody]
    /\ file = [a \in Actors |-> [snap |-> 1, size |-> 1, ticket |-> NoTicket, batch |-> FALSE, acq |-> 0, seq |-> 0, until |-> 0]]
    /\ held = [a \in Actors |-> NoTicket]
    /\ session = [a \in Actors |-> IF a \in Files THEN 1 ELSE 0]
    /\ pc = [a \in Actors |-> IF a \in Files THEN "idle" ELSE "closed"]
    /\ seen = [a \in Actors |-> NoRead] /\ beat = [a \in Actors |-> NoRead]
    /\ job = [k \in Attempts |-> NoJob]
    /\ outcome = [a \in Actors |-> "none"]
    /\ scenario \in Scenarios

----------------------------------------------------------------------------
(* The leader.                                                             *)

\* local_sqlite_head(), the term the request was routed with and now_millis, all read before the mutex is taken
Read == [head |-> Generation, term |-> term, at |-> now]

\* without stale, no commit comes between the head's read and its use
Used(r) == IF scenario.stale THEN r ELSE [r EXCEPT !.head = Generation]
Free(r) == mutex[r.term] = Nobody

\* local_sqlite_writer(): the coordinator, or a new one for another head or term
Coordinator(r) == IF coord[r.term].term # r.term \/ coord[r.term].head # r.head
                  THEN NewCoordinator(r.term, r.head) ELSE coord[r.term]

Tick == /\ now < scenario.time /\ now' = now + 1
        /\ UNCHANGED <<history, term, leaderVars, fileVars, pc, seen, beat, job, losses, closes, scenario>>

\* an election
LeaderChange ==
    /\ term < scenario.terms /\ term' = term + 1
    /\ UNCHANGED <<history, now, leaderVars, fileVars, pc, seen, beat, job, losses, closes, scenario>>

----------------------------------------------------------------------------
(* Opening and closing.                                                    *)

\* xOpen: the agent's session and the file are at the head
Open(a) ==
    /\ a \in Files /\ pc[a] = "closed"
    /\ pc' = [pc EXCEPT ![a] = "idle"]
    /\ file' = [file EXCEPT ![a].snap = Generation, ![a].size = Generation]
    /\ session' = [session EXCEPT ![a] = Generation]
    /\ UNCHANGED <<history, now, term, leaderVars, held, seen, beat, job, outcome, losses, closes, scenario>>

\* the worker still has the file's ticket, perhaps renewed
SameTicket(a) == held[a].id = file[a].ticket.id /\ held[a].term = file[a].ticket.term

\* xClose; a ticket is released first, and what becomes of that is ignored
Close(a) ==
    /\ a \in Files /\ pc[a] \in {"idle", "locked"} /\ beat[a] = NoRead
    /\ closes < scenario.closes /\ closes' = closes + 1
    /\ file' = [file EXCEPT ![a].ticket = NoTicket, ![a].batch = FALSE]
    /\ IF pc[a] = "locked" /\ SameTicket(a)
       THEN pc' = [pc EXCEPT ![a] = "closing"] /\ seen' = [seen EXCEPT ![a] = Read] /\ UNCHANGED session
       ELSE pc' = [pc EXCEPT ![a] = "closed"] /\ session' = [session EXCEPT ![a] = 0] /\ UNCHANGED seen
    /\ UNCHANGED <<history, now, term, leaderVars, held, beat, job, outcome, losses, scenario>>

----------------------------------------------------------------------------
(* The writer lock.                                                        *)

StartAcquire(a, base) ==
    /\ [by |-> a, n |-> file[a].acq + 1] \in scenario.acqs
    /\ file' = [file EXCEPT ![a].acq = @ + 1, ![a].snap = base]
    /\ seen' = [seen EXCEPT ![a] = Read]
    /\ pc' = [pc EXCEPT ![a] = "acquire"]
    /\ UNCHANGED <<history, now, term, leaderVars, held, session, beat, job, outcome, losses, closes, scenario>>

\* xLock(RESERVED): for the snapshot the file was opened at
Lock(a) == a \in Files /\ pc[a] = "idle" /\ StartAcquire(a, file[a].snap)

\* sqlite_compact() and sqlite_rollback() start from the current head
Compact(a) == a \in Admins /\ pc[a] = "closed" /\ StartAcquire(a, Generation)
Rollback(a) == a \in Admins /\ pc[a] = "closed" /\ Generation > 1 /\ StartAcquire(a, Generation)

\* the client's reading of an acquisition's status; an error ends the attempt
TakeStatus(a, c) ==
    LET st == c.status[Acq(a)] IN
    /\ pc' = [pc EXCEPT ![a] = CASE st = "granted" -> "locked" [] st = "queued" -> "queued"
                                 [] OTHER -> IF a \in Files THEN "idle" ELSE "closed"]
    /\ file' = [file EXCEPT ![a].ticket = IF st = "granted" THEN c.active ELSE NoTicket,
                            ![a].until = IF pc[a] = "acquire" THEN now + Wait ELSE @]
    /\ held' = [held EXCEPT ![a] = IF st = "granted" THEN c.active ELSE @]

\* local_sqlite_writer(): the coordinator that an actor's request leaves behind
Advanced(r) == Advance(Coordinator(Used(r)), r.at)
Served(a) ==
    LET r == seen[a] IN
    CASE pc[a] = "acquire" -> Acquire(Coordinator(Used(r)), Acq(a), file[a].snap, IF a \in Files THEN Wait ELSE 0, r.at)
      [] pc[a] \in {"release", "closing"} /\ Valid(Advanced(r), held[a]) -> Released(Advanced(r), r.at)
      [] OTHER -> Advanced(r)

AcquireWriter(a) ==
    /\ pc[a] = "acquire" /\ Free(seen[a])
    /\ coord' = [coord EXCEPT ![seen[a].term] = Served(a)] /\ TakeStatus(a, Served(a))
    /\ seen' = [seen EXCEPT ![a] = NoRead]
    /\ UNCHANGED <<history, now, term, mutex, session, beat, job, outcome, losses, closes, scenario>>

\* acquire_writer(): one round of its polling loop ..
Poll(a) ==
    /\ pc[a] = "queued" /\ now < file[a].until
    /\ pc' = [pc EXCEPT ![a] = "poll"] /\ seen' = [seen EXCEPT ![a] = Read]
    /\ UNCHANGED <<history, now, term, leaderVars, fileVars, beat, job, losses, closes, scenario>>

\* .. WriterStatus: an acquisition the coordinator does not know is fenced
WriterStatus(a) ==
    /\ pc[a] = "poll" /\ Free(seen[a])
    /\ coord' = [coord EXCEPT ![seen[a].term] = Served(a)] /\ TakeStatus(a, Served(a))
    /\ seen' = [seen EXCEPT ![a] = NoRead]
    /\ UNCHANGED <<history, now, term, mutex, session, beat, job, outcome, losses, closes, scenario>>

\* .. and its deadline: Busy, though the coordinator may still grant the ticket
GiveUp(a) ==
    /\ pc[a] = "queued" /\ now >= file[a].until
    /\ pc' = [pc EXCEPT ![a] = "idle"]
    /\ UNCHANGED <<history, now, term, leaderVars, fileVars, seen, beat, job, losses, closes, scenario>>

\* the heartbeat of a ticket that is about to expire; it holds the ticket's mutex
Heartbeat(a) ==
    /\ a \in Files /\ held[a] # NoTicket /\ now + 1 >= held[a].expires
    /\ beat[a] = NoRead /\ pc[a] \notin {"finish", "resolve", "release", "closing"}
    /\ beat' = [beat EXCEPT ![a] = Read]
    /\ UNCHANGED <<history, now, term, leaderVars, fileVars, pc, seen, job, losses, closes, scenario>>

\* .. renew(); an error drops the ticket
Renewal(a) == LET c == Advanced(beat[a]) IN IF Valid(c, held[a]) THEN Renewed(c, beat[a].at) ELSE c
RenewWriter(a) ==
    /\ beat[a] # NoRead /\ Free(beat[a])
    /\ coord' = [coord EXCEPT ![beat[a].term] = Renewal(a)]
    /\ held' = [held EXCEPT ![a] = IF Valid(Advanced(beat[a]), @) THEN Renewal(a).active ELSE NoTicket]
    /\ beat' = [beat EXCEPT ![a] = NoRead]
    /\ UNCHANGED <<history, now, term, mutex, file, session, pc, seen, job, outcome, losses, closes, scenario>>

\* xUnlock(NONE) outside a batch: the file gives its ticket up before it is released; a ticket the worker no longer
\* has is an error
Unlock(a) ==
    /\ a \in Files /\ pc[a] = "locked" /\ ~file[a].batch /\ beat[a] = NoRead
    /\ file' = [file EXCEPT ![a].ticket = NoTicket]
    /\ IF SameTicket(a)
       THEN pc' = [pc EXCEPT ![a] = "release"] /\ seen' = [seen EXCEPT ![a] = Read]
       ELSE pc' = [pc EXCEPT ![a] = "idle"] /\ UNCHANGED seen
    /\ UNCHANGED <<history, now, term, leaderVars, held, session, beat, job, outcome, losses, closes, scenario>>

EndRequest(a) ==
    /\ pc' = [pc EXCEPT ![a] = IF a \in Files /\ @ # "closing" THEN "idle" ELSE "closed"]
    /\ session' = [session EXCEPT ![a] = IF pc[a] = "closing" THEN 0 ELSE @]
    /\ seen' = [seen EXCEPT ![a] = NoRead]

\* .. release(); only an answer of success makes the worker forget the ticket
ReleaseWriter(a) ==
    /\ pc[a] \in {"release", "closing"} /\ Free(seen[a])
    /\ coord' = [coord EXCEPT ![seen[a].term] = Served(a)]
    /\ held' = [held EXCEPT ![a] = IF Valid(Advanced(seen[a]), @) THEN NoTicket ELSE @]
    /\ EndRequest(a)
    /\ UNCHANGED <<history, now, term, mutex, file, beat, job, outcome, losses, closes, scenario>>

\* routed_sqlite_writer(): a request or its answer is lost.  It is sent again as it is, until the deadline.
LoseRequest(a) ==
    /\ losses < scenario.losses /\ losses' = losses + 1
    /\ pc[a] \in {"acquire", "poll", "release", "closing"}
    /\ \/ UNCHANGED coord
       \/ Free(seen[a]) /\ coord' = [coord EXCEPT ![seen[a].term] = Served(a)]
    /\ \/ seen' = [seen EXCEPT ![a] = Read] /\ UNCHANGED <<pc, session>>
       \/ EndRequest(a)
    /\ UNCHANGED <<history, now, term, mutex, file, held, beat, job, outcome, closes, scenario>>

\* .. and the heartbeat's: sent again, or given up with the ticket
LoseRenewal(a) ==
    /\ losses < scenario.losses /\ losses' = losses + 1
    /\ beat[a] # NoRead
    /\ \/ UNCHANGED coord
       \/ Free(beat[a]) /\ coord' = [coord EXCEPT ![beat[a].term] = Renewal(a)]
    /\ \/ beat' = [beat EXCEPT ![a] = Read] /\ UNCHANGED held
       \/ beat' = [beat EXCEPT ![a] = NoRead] /\ held' = [held EXCEPT ![a] = NoTicket]
    /\ UNCHANGED <<history, now, term, mutex, file, session, pc, seen, job, outcome, closes, scenario>>

----------------------------------------------------------------------------
(* A commit.                                                               *)

\* RemoteFile::commit() up to FinishCommit.  A ticket the heartbeat has dropped, or a session at another snapshot,
\* fails at once.  After a commit that failed the batch stays open and with it the lock; SQLite writes the pages again,
\* with the next key and the same ticket ..
Commit(a) ==
    /\ pc[a] = "locked" /\ beat[a] = NoRead /\ file[a].seq < MaxAttempts
    /\ file' = [file EXCEPT ![a].seq = @ + 1, ![a].batch = TRUE]
    /\ IF SameTicket(a) /\ (a \in Files => session[a] = file[a].snap)
       THEN /\ job' = [job EXCEPT ![<<a, file[a].seq + 1>>] =
                         [NoJob EXCEPT !.pc = "read", !.base = file[a].snap, !.ticket = held[a]]]
            /\ pc' = [pc EXCEPT ![a] = "finish"]
            /\ outcome' = [outcome EXCEPT ![a] = "none"]
       ELSE outcome' = [outcome EXCEPT ![a] = "failed"] /\ UNCHANGED <<job, pc>>
    /\ UNCHANGED <<history, now, term, leaderVars, held, session, seen, beat, losses, closes, scenario>>

\* .. or takes the batch back, if it was one it began
RollbackBatch(a) ==
    /\ a \in Files /\ pc[a] = "locked" /\ file[a].batch
    /\ file' = [file EXCEPT ![a].batch = FALSE]
    /\ UNCHANGED <<history, now, term, leaderVars, held, session, pc, seen, beat, job, outcome, losses, closes, scenario>>

\* sqlite_incremental_commit() and local_sqlite_guarded_write() both refuse a head that has moved
ReadHead(k) ==
    /\ job[k].pc = "read"
    /\ job' = [job EXCEPT ![k].pc = IF Generation = job[k].base THEN "guard" ELSE "error", ![k].read = Read]
    /\ UNCHANGED <<history, now, term, leaderVars, fileVars, pc, seen, beat, losses, closes, scenario>>

\* local_sqlite_guarded_write(): the transition is made on a clone, and the mutex stays locked
Guard(k) ==
    /\ job[k].pc = "guard" /\ Free(job[k].read)
    /\ LET t == job[k].read.term
           at == job[k].read.at
           c == Advance(coord[t], at)
           ok == /\ coord[t].term = t /\ coord[t].head = job[k].base
                 /\ Valid(c, job[k].ticket) /\ job[k].ticket.base = job[k].base
       IN IF ok
          THEN /\ job' = [job EXCEPT ![k].pc = "propose", ![k].clone = Committed(c, k, at)]
               /\ mutex' = [mutex EXCEPT ![t] = k]
          ELSE job' = [job EXCEPT ![k].pc = "error"] /\ UNCHANGED mutex
    /\ UNCHANGED <<history, now, term, coord, fileVars, pc, seen, beat, losses, closes, scenario>>

\* the namespace applies the command to the head it names
AnyHead(k) == TRUE
HeadMatches(k) == Generation = job[k].base

\* batched_client_write()
Propose(k) ==
    /\ job[k].pc = "propose"
    /\ LET t == job[k].read.term
           new == Append(history, [key |-> k, base |-> job[k].base])
           Ends(p) == job' = [job EXCEPT ![k].pc = p, ![k].clone = Absent]
       IN \/ \* applied and answered
             /\ HeadMatches(k) /\ t = term
             /\ history' = new
             /\ coord' = [coord EXCEPT ![t] = job[k].clone]
             /\ Ends("answer") /\ UNCHANGED losses
          \/ \* applied; the answer is lost, and the publication's lookup after it too
             /\ HeadMatches(k) /\ losses < scenario.losses /\ losses' = losses + 1
             /\ history' = new
             /\ Ends("error") /\ UNCHANGED coord
          \/ \* refused, or the leader was deposed before the command was replicated
             /\ ~HeadMatches(k) \/ t # term
             /\ Ends("error") /\ UNCHANGED <<history, coord, losses>>
    /\ mutex' = [mutex EXCEPT ![job[k].read.term] = Nobody]
    /\ UNCHANGED <<now, term, fileVars, pc, seen, beat, closes, scenario>>

\* FinishCommit: the head is read again, and becomes the session's snapshot and the answer
Answer(k) ==
    /\ job[k].pc = "answer"
    /\ LET head == IF scenario.overlap THEN Generation ELSE OwnHead(k)
       IN /\ job' = [job EXCEPT ![k].pc = "ok", ![k].answer = head]
          /\ session' = [session EXCEPT ![k[1]] = IF @ = 0 THEN 0 ELSE head]
    /\ UNCHANGED <<history, now, term, leaderVars, file, held, outcome, pc, seen, beat, losses, closes, scenario>>

\* RemoteFile after a commit: the answer's snapshot, and the page count it has computed itself
Reopened(a, snap) ==
    /\ file' = [file EXCEPT ![a].snap = snap, ![a].size = OwnHead(LastKey(a)), ![a].ticket = NoTicket,
                            ![a].batch = FALSE]
    /\ held' = [held EXCEPT ![a] = NoTicket]
    /\ outcome' = [outcome EXCEPT ![a] = "ok"]
    /\ pc' = [pc EXCEPT ![a] = IF a \in Files THEN "idle" ELSE "closed"]

Finished(a) ==
    /\ pc[a] = "finish" /\ job[LastKey(a)].pc = "ok"
    /\ Reopened(a, job[LastKey(a)].answer)
    /\ UNCHANGED <<history, now, term, leaderVars, session, seen, beat, job, losses, closes, scenario>>

\* an error, or no answer in time
FinishFailed(a) ==
    /\ pc[a] = "finish"
    /\ \/ job[LastKey(a)].pc = "error" /\ UNCHANGED losses
       \/ losses < scenario.losses /\ losses' = losses + 1
    /\ pc' = [pc EXCEPT ![a] = "resolve"]
    /\ UNCHANGED <<history, now, term, leaderVars, fileVars, seen, beat, job, closes, scenario>>

\* CommitStatus: the replicated record, or AmbiguousCommit
CommitStatus(a) ==
    /\ pc[a] = "resolve"
    /\ IF OwnHead(LastKey(a)) # 0
       THEN Reopened(a, OwnHead(LastKey(a)))
       ELSE /\ outcome' = [outcome EXCEPT ![a] = "unknown"]
            /\ pc' = [pc EXCEPT ![a] = IF a \in Files THEN "locked" ELSE "closed"]
            /\ UNCHANGED <<file, held>>
    /\ UNCHANGED <<history, now, term, leaderVars, session, seen, beat, job, losses, closes, scenario>>

Next ==
    \/ Tick \/ LeaderChange
    \/ \E a \in Actors :
         \/ Open(a) \/ Close(a) \/ Lock(a) \/ Rollback(a) \/ Compact(a)
         \/ AcquireWriter(a) \/ Poll(a) \/ WriterStatus(a) \/ GiveUp(a)
         \/ Heartbeat(a) \/ RenewWriter(a) \/ Unlock(a) \/ ReleaseWriter(a)
         \/ LoseRequest(a) \/ LoseRenewal(a) \/ Commit(a) \/ RollbackBatch(a) \/ Finished(a) \/ FinishFailed(a) \/ CommitStatus(a)
    \/ \E k \in Attempts : ReadHead(k) \/ Guard(k) \/ Propose(k) \/ Answer(k)

Spec == Init /\ [][Next]_vars

----------------------------------------------------------------------------
(* No update is lost: every head was made from the head before it, and a   *)
(* commit makes one head, whatever tickets two terms have given out for    *)
(* the same head.                                                          *)
NoLostUpdate ==
    \A g \in 2 .. Generation :
       /\ history[g].base = g - 1
       /\ \A h \in 2 .. Generation : history[h].key = history[g].key => h = g

(* A writer that holds an unexpired ticket of the current term for the     *)
(* current head is the coordinator's active writer, so no other gets the   *)
(* lock before the lease ends.                                             *)
TicketHonoured ==
    \A a \in Actors :
       /\ held[a] # NoTicket /\ held[a].term = term /\ held[a].base = Generation /\ now < held[a].expires
       /\ pc[a] = "locked" /\ SameTicket(a)
       => coord[term].active.acq = held[a].acq

(* What SQLite is told is true: a commit it takes for done is a head, and  *)
(* the file is at that head or a later one; one that failed before it was  *)
(* sent is not.                                                            *)
AnswersTrue ==
    \A a \in Files :
       /\ outcome[a] = "ok" => OwnHead(LastKey(a)) \in 2 .. file[a].snap
       /\ outcome[a] = "failed" => OwnHead(LastKey(a)) = 0

(* The page count of an open file is that of the snapshot it reads.        *)
FileMatchesSnapshot == \A a \in Files : file[a].size = file[a].snap

SqliteSound == NoLostUpdate /\ TicketHonoured /\ AnswersTrue /\ FileMatchesSnapshot
=============================================================================
