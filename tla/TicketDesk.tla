------------------------------ MODULE TicketDesk ------------------------------
(***************************************************************************)
(* What the ticket handlers promise, with every operation in one step: the *)
(* lock goes to an agent only when it is free or already theirs, it is     *)
(* given back by its holder, an Admin, a resolve or the cleanup after the  *)
(* disconnect of a socket that tracks the ticket, and status and           *)
(* assignment change only through resolve and assign.  A lock without an   *)
(* agent, as a socket may ask for, dates a free ticket and does no more.   *)
(***************************************************************************)
EXTENDS TicketStore

CONSTANTS Tickets, Sockets, Admins

VARIABLES tickets,   \* the tickets collection
          tracked,   \* the tickets tracked for each socket
          closed     \* the sockets that have disconnected

vars == <<tickets, tracked, closed>>

Init ==
  /\ tickets = [t \in Tickets |-> NewTicket]
  /\ tracked = [s \in Sockets |-> {}]
  /\ closed = {}

Becomes(t, doc) == tickets' = [tickets EXCEPT ![t] = doc]

Lock(t, u) ==
  /\ tickets[t].lockedBy \in {NoUser, u}
  /\ \E now \in Dates : Becomes(t, Locked(tickets[t], u, now))

Unlock(t, u) ==
  /\ tickets[t].lockedBy = u \/ u \in Admins
  /\ Becomes(t, Unlocked(tickets[t]))

Resolve(t) == Becomes(t, Resolved(tickets[t]))

Assign(t, u) ==
  /\ Admins # {}
  /\ Becomes(t, Assigned(tickets[t], u))

AutoUnlock(t, s) ==
  /\ s \in closed /\ t \in tracked[s]
  /\ Becomes(t, Unlocked(tickets[t]))

\* Sockets come and go and tracking follows; a disconnect is final.
Next ==
  /\ closed \subseteq closed'
  /\ \/ \E t \in Tickets, u \in MaybeUser : Lock(t, u)
     \/ \E t \in Tickets, u \in Users : Unlock(t, u) \/ Assign(t, u)
     \/ \E t \in Tickets : Resolve(t)
     \/ \E t \in Tickets, s \in Sockets : AutoUnlock(t, s)
     \/ UNCHANGED tickets

Spec == Init /\ [][Next]_vars
=============================================================================
