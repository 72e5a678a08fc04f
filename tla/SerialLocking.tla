---------------------------- MODULE SerialLocking ----------------------------
(***************************************************************************)
(* The handlers of TicketLocking when their calls do not overlap: no two   *)
(* calls in flight are on the same ticket, and a socket disconnects only   *)
(* when none of its own handlers is in flight.  What fails in              *)
(* TicketLocking and holds here fails because of an interleaving.          *)
(***************************************************************************)
EXTENDS TicketLocking

VARIABLE clean    \* history: no operation failed and no process died so far

NoOverlap ==
  /\ \A c, d \in Calls :
       c # d => calls[c].ticket = NoTicket \/ calls[c].ticket # calls[d].ticket
  /\ \A c \in Slots, s \in Sockets :
       calls[c].socket = s => conn[s] = "open"

Failure == Crash \/ \E c \in Calls : OperationFails(c) \/ AcknowledgementLost(c)

SerialNext == Next /\ NoOverlap' /\ clean' = (clean /\ ~Failure)

SerialSpec == Init /\ clean = TRUE /\ [][SerialNext]_<<vars, clean>>

\* As Fairness in TicketLocking: the driver answers, the event loop goes on.
SerialFairSpec ==
  SerialSpec /\ \A c \in Calls : WF_vars(Progress(c) /\ SerialNext)

Desk == INSTANCE TicketDesk WITH
          tracked <- socketLocks,
          closed  <- {s \in Sockets : conn[s] = "closed"}

\* Without overlap the handlers, with all their steps, failures and crashes,
\* do to the tickets what the one-step operations of TicketDesk do: what a
\* handler read and checked before its await still holds when it saves.
DeskSpec == Desk!Spec

\* A ticket that has a holder has a lock date, across locks, saves that leave out
\* what did not change, failures and crashes: the index for lock timeouts
\* (Ticket.js:57) misses no locked ticket.  The converse fails: ticket:lock
\* without agentId dates a ticket that nobody holds (socketHandler.js:22-29).
HeldIsDated ==
  \A t \in Tickets :
    tickets[t].lockedBy # NoUser => tickets[t].lockedAt # NoDate

\* socketHandler.js:4,78: when a socket has disconnected and its handlers are
\* done, no ticket is left tracked for it, whatever failed.
CleanedUp ==
  \A s \in Sockets :
    conn[s] = "closed" /\ (\A c \in Calls : calls[c].socket # s) =>
      socketLocks[s] = {}

\* README.md:9: when no handler works on a ticket, the holder last broadcast to
\* the agents is the holder in the database, as long as nothing has failed.
AnnouncedAgrees ==
  clean =>
    \A t \in Tickets :
      (\A c \in Calls : calls[c].ticket # t) =>
        announced[t] = tickets[t].lockedBy

\* A ticket tracked for a socket is unlocked at some later time unless the
\* socket stays connected for ever or something fails: the cleanup of
\* socketHandler.js:75-97.
CleanupReleases ==
  \A s \in Sockets, t \in Tickets :
    (t \in socketLocks[s]) ~>
      (tickets[t].lockedBy = NoUser \/ ~clean \/ [](conn[s] = "open"))

=============================================================================
