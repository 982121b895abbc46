------------------------- MODULE WriterCoordinator -------------------------
(***************************************************************************)
(* The writer lock of one SQLite database (pepper-sqlite writer.rs): a     *)
(* ticket with a lease for one writer, a bounded queue of waiters, and the *)
(* status of every acquisition.  A coordinator is a value; each operation  *)
(* returns the coordinator it leaves behind.                               *)
(*                                                                         *)
(* A head is a snapshot and its generation; the generation stands for      *)
(* both, because the namespace gives every new head a new one.  An         *)
(* acquisition's status is "granted" exactly while its ticket is active,   *)
(* so the recorded ticket is the active one.  The bounds of 1024 records   *)
(* are never met.                                                          *)
(***************************************************************************)
EXTENDS Naturals, Sequences, SequencesExt

CONSTANTS
    Acquisitions,   \* acquisition ids: [by, n]
    Lease,          \* lease_millis
    MaxWaiters      \* max_waiters

NoTicket == [id |-> 0, acq |-> [by |-> "nobody", n |-> 0], base |-> 0, term |-> 0, epoch |-> 0, expires |-> 0]

\* WriterCoordinator::new()
NewCoordinator(term, head) ==
    [term |-> term, head |-> head, next |-> 1, active |-> NoTicket, waiters |-> <<>>,
     status |-> [a \in Acquisitions |-> "none"], commits |-> {}]

\* grant()
Ticket(c, acq, now) ==
    [id |-> c.next, acq |-> acq, base |-> c.head, term |-> c.term, epoch |-> 1, expires |-> now + Lease]

Expired(c, now) == c.active # NoTicket /\ now >= c.active.expires

\* advance(): the expiry of the lease and of the waiters, and the next grant
Advance(c, now) ==
    LET free == c.active = NoTicket \/ Expired(c, now)
        live == SelectSeq(c.waiters, LAMBDA w : now < w.deadline)
        late == {c.waiters[i].acq : i \in {j \in DOMAIN c.waiters : now >= c.waiters[j].deadline}}
        fit == SelectInSeq(live, LAMBDA w : w.base = c.head)
        first == IF fit = 0 THEN Len(live) ELSE fit       \* how many waiters are taken off the queue
        taken == IF free THEN {live[i].acq : i \in 1 .. first} ELSE {}
        winner == IF free /\ fit # 0 THEN {live[fit].acq} ELSE {}
    IN [c EXCEPT
          !.active = CASE winner # {} -> Ticket(c, live[fit].acq, now)
                       [] free -> NoTicket
                       [] OTHER -> @,
          !.next = IF winner # {} THEN @ + 1 ELSE @,
          !.waiters = IF free THEN SubSeq(live, first + 1, Len(live)) ELSE live,
          !.status = [a \in Acquisitions |->
                        CASE a \in winner -> "granted"
                          [] a \in taken -> "stale"
                          [] a \in late -> "timedout"
                          [] Expired(c, now) /\ a = c.active.acq -> "fenced"
                          [] OTHER -> @[a]]]

\* acquire(): what is known of this id, or a ticket, or a place in the queue
Acquire(c0, acq, base, wait, now) ==
    LET c == Advance(c0, now)
        Recorded(st) == [c EXCEPT !.status[acq] = st]
    IN CASE c.status[acq] # "none" -> c
         [] base # c.head -> Recorded("stale")
         [] c.active = NoTicket -> [Recorded("granted") EXCEPT !.active = Ticket(c, acq, now), !.next = @ + 1]
         [] wait = 0 \/ Len(c.waiters) >= MaxWaiters -> Recorded("busy")
         [] OTHER -> [Recorded("queued") EXCEPT
                        !.waiters = Append(@, [acq |-> acq, base |-> base, deadline |-> now + wait])]

\* validate_active(): after advance() an active ticket has not expired
Valid(c, ticket) == ticket # NoTicket /\ c.active = ticket /\ ticket.term = c.term

\* renew() of a valid ticket
Renewed(c, now) == [c EXCEPT !.active.epoch = @ + 1, !.active.expires = now + Lease]

\* release() of a valid ticket; the waiters are served
Released(c, now) == Advance([c EXCEPT !.active = NoTicket, !.status[c.active.acq] = "released"], now)

\* guarded_commit() of a new key with a valid ticket: the next head, and the ticket is released
Committed(c, key, now) ==
    Advance([c EXCEPT !.head = @ + 1, !.active = NoTicket, !.status[c.active.acq] = "released", !.commits = @ \cup {key}],
            now)
=============================================================================
