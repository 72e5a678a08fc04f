---------------------------- MODULE TicketLocking ----------------------------
(***************************************************************************)
(* The handlers that work on an existing ticket: the REST handlers lock,   *)
(* unlock, resolve and assign (src/controllers/ticketController.js) and    *)
(* the Socket.io handlers ticket:lock, ticket:unlock and disconnect        *)
(* (src/socket/socketHandler.js).                                          *)
(*                                                                         *)
(* Node runs one handler at a time between two awaits, so a step of the    *)
(* model is either what a handler does from one await to the next or what  *)
(* the database does with an operation it was sent.  A handler is a call:  *)
(*                                                                         *)
(*   find  -- findById is on its way; the step reads the document, runs    *)
(*            the handler's checks and ends the call or starts the save;   *)
(*   save  -- the $set is on its way; the step applies it in the database; *)
(*   reply -- the database has answered; the step runs the rest of the     *)
(*            handler: socketLocks, the broadcasts and the response.       *)
(*                                                                         *)
(* Calls in Slots are REST requests and socket events; the call named s,   *)
(* for a socket s, is the disconnect handler of s.                         *)
(***************************************************************************)
EXTENDS TicketStore

CONSTANTS Tickets,   \* ids of the tickets that exist
          NoTicket,  \* an id that names no ticket
          Slots,     \* calls that can be in flight at once
          Sockets,   \* socket ids; Socket.io never reuses one
          NoSocket,  \* the call is a REST request
          Claims,    \* <<s, u>>: the client of socket s may send agentId u, NoUser
                     \* for an event without one
          Admins,    \* the users whose role is 'Admin'
          Faults,    \* database operations may fail
          Crashes    \* the server process may die and be restarted

ASSUME LockingAssumption ==
  /\ NoTicket \notin Tickets
  /\ NoSocket \notin Sockets
  /\ Slots \cap Sockets = {}
  /\ Admins \subseteq Users
  /\ Claims \subseteq Sockets \X MaybeUser
  /\ Faults \in BOOLEAN /\ Crashes \in BOOLEAN

VARIABLES tickets,      \* the tickets collection
          calls,        \* the handlers in flight
          socketLocks,  \* the Map of socketHandler.js: socket id -> Set of ticket ids
          visited,      \* the tickets the loop of a disconnect handler has reached
          conn,         \* the connection behind each socket id
          announced     \* the holder last broadcast to the room 'agents'

vars == <<tickets, calls, socketLocks, visited, conn, announced>>

Calls     == Slots \cup Sockets
RestOps   == {"lock", "unlock", "resolve", "assign"}
SocketOps == {"ticket:lock", "ticket:unlock"}
Ops       == RestOps \cup SocketOps \cup {"disconnect", "none"}

Call == [op : Ops, pc : {"idle", "find", "save", "reply"},
         ticket : Tickets \cup {NoTicket}, agent : MaybeUser,
         socket : Sockets \cup {NoSocket}, set : Update]

Idle == [op |-> "none", pc |-> "idle", ticket |-> NoTicket,
         agent |-> NoUser, socket |-> NoSocket, set |-> NoUpdate]

Busy(c) == calls[c].pc # "idle"

TypeOK ==
  /\ tickets \in [Tickets -> TicketDoc]
  /\ calls \in [Calls -> Call]
  /\ socketLocks \in [Sockets -> SUBSET Tickets]
  /\ visited \in [Sockets -> SUBSET Tickets]
  /\ conn \in [Sockets -> {"new", "open", "closed"}]
  /\ announced \in [Tickets -> MaybeUser]

Init ==
  /\ tickets = [t \in Tickets |-> NewTicket]
  /\ calls = [c \in Calls |-> Idle]
  /\ socketLocks = [s \in Sockets |-> {}]
  /\ visited = [s \in Sockets |-> {}]
  /\ conn = [s \in Sockets |-> "new"]
  /\ announced = [t \in Tickets |-> NoUser]

-----------------------------------------------------------------------------
(* Calls come in.                                                          *)

Start(c, op, t, u, s) ==
  /\ ~Busy(c)
  /\ calls' = [calls EXCEPT ![c] = [Idle EXCEPT !.op = op, !.pc = "find",
                                                !.ticket = t, !.agent = u,
                                                !.socket = s]]

\* PATCH /:ticketId/{lock,unlock,resolve,assign} past protect and authorize:
\* agent is req.user, or for assign, which only an Admin reaches, the agentId.
RestRequest(c) ==
  \E op \in RestOps, t \in Tickets \cup {NoTicket}, u \in Users :
    /\ op = "assign" => Admins # {}
    /\ Start(c, op, t, u, NoSocket)
    /\ UNCHANGED <<tickets, socketLocks, visited, conn, announced>>

\* io.on('connection')
Connect(s) ==
  /\ conn[s] = "new"
  /\ conn' = [conn EXCEPT ![s] = "open"]
  /\ UNCHANGED <<tickets, calls, socketLocks, visited, announced>>

\* A ticket:lock or ticket:unlock event.  The server takes agentId as sent, and
\* also when it is null or missing.  (A malformed one fails in save(), which is
\* OperationFails.)
SocketEvent(c) ==
  \E op \in SocketOps, t \in Tickets \cup {NoTicket}, claim \in Claims :
    /\ conn[claim[1]] = "open"
    /\ Start(c, op, t, claim[2], claim[1])
    /\ UNCHANGED <<tickets, socketLocks, visited, conn, announced>>

-----------------------------------------------------------------------------
(* How a call goes on.                                                     *)

\* Mutant of NextTicket: the loop does not move past the tickets it reached.
NextTicketRepeats(s, seen) ==
  \/ \E t \in socketLocks[s] :
       /\ calls' = [calls EXCEPT ![s] = [Idle EXCEPT !.op = "disconnect",
                                           !.pc = "find", !.ticket = t,
                                           !.socket = s]]
       /\ UNCHANGED <<socketLocks, visited>>
  \/ /\ socketLocks[s] = {}
     /\ calls' = [calls EXCEPT ![s] = Idle]
     /\ UNCHANGED <<socketLocks, visited>>

\* Mutant of NextTicket: the entry of s stays in the Map after the loop.
NextTicketKeepsEntry(s, seen) ==
  \/ \E t \in socketLocks[s] \ seen :
       /\ calls' = [calls EXCEPT ![s] = [Idle EXCEPT !.op = "disconnect",
                                           !.pc = "find", !.ticket = t,
                                           !.socket = s]]
       /\ visited' = [visited EXCEPT ![s] = seen \cup {t}]
       /\ UNCHANGED socketLocks
  \/ /\ socketLocks[s] \subseteq seen
     /\ calls' = [calls EXCEPT ![s] = Idle]
     /\ visited' = [visited EXCEPT ![s] = {}]
     /\ UNCHANGED socketLocks

\* The iteration "for (const ticketId of lockedTickets)" moves on: it awaits
\* findById for a ticket it has not reached or, when none is left, drops the
\* entry of s.  The Set is live: a ticket added during the loop is reached.
\* The Set's insertion order is left open.
NextTicket(s, seen) ==
  \/ \E t \in socketLocks[s] \ seen :
       /\ calls' = [calls EXCEPT ![s] = [Idle EXCEPT !.op = "disconnect",
                                           !.pc = "find", !.ticket = t,
                                           !.socket = s]]
       /\ visited' = [visited EXCEPT ![s] = seen \cup {t}]
       /\ UNCHANGED socketLocks
  \/ /\ socketLocks[s] \subseteq seen
     /\ calls' = [calls EXCEPT ![s] = Idle]
     /\ visited' = [visited EXCEPT ![s] = {}]
     /\ socketLocks' = [socketLocks EXCEPT ![s] = {}]

\* The end of a call, or of one round of a disconnect handler's loop.
Finish(c) ==
  \/ /\ c \in Slots
     /\ calls' = [calls EXCEPT ![c] = Idle]
     /\ UNCHANGED <<socketLocks, visited>>
  \/ /\ c \in Sockets
     /\ NextTicket(c, visited[c])

At(c, op, pc) == calls[c].op = op /\ calls[c].pc = pc

\* A save() with this $set is on its way to the database.
AwaitUpdate(c, set) ==
  /\ calls' = [calls EXCEPT ![c].pc = "save", ![c].set = set]
  /\ UNCHANGED <<socketLocks, visited>>

\* Mutant of AwaitSave: the whole document is written back.
AwaitSaveWhole(c, doc) ==
  AwaitUpdate(c, [status |-> doc.status, lockedBy |-> doc.lockedBy,
                  lockedAt |-> doc.lockedAt])

\* findById has returned the stored document and the checks passed: the
\* handler has assigned to it, giving doc, and awaits doc.save().
AwaitSave(c, doc) ==
  AwaitUpdate(c, ModifiedPaths(tickets[calls[c].ticket], doc))

\* ticket:lock without agentId on a free ticket: null over null is no change,
\* but undefined over null is one to Mongoose, and the path is unset.
AwaitSaveUnset(c, doc) ==
  AwaitUpdate(c, [ModifiedPaths(tickets[calls[c].ticket], doc)
                    EXCEPT !.lockedBy = NoUser])

\* findById returned null, or threw on a malformed id: 404, 500, or an 'error'
\* event to the socket.
NotFound(c) ==
  /\ calls[c].pc = "find"
  /\ calls[c].ticket = NoTicket
  /\ Finish(c)
  /\ UNCHANGED <<tickets, conn, announced>>

Found(c, op) == At(c, op, "find") /\ calls[c].ticket \in Tickets

Holder(c) == tickets[calls[c].ticket].lockedBy

\* doc.save() reaches the database.
Save(c) ==
  LET t == calls[c].ticket IN
  /\ calls[c].pc = "save"
  /\ tickets' = [tickets EXCEPT ![t] = ApplyUpdate(@, calls[c].set)]
  /\ calls' = [calls EXCEPT ![c].pc = "reply", ![c].set = NoUpdate]
  /\ UNCHANGED <<socketLocks, visited, conn, announced>>

\* ticket:locked and ticket:unlocked, to everyone in the room 'agents'.
Broadcast(c, holder) ==
  announced' = [announced EXCEPT ![calls[c].ticket] = holder]

-----------------------------------------------------------------------------
(* The REST handlers of ticketController.js.                               *)

LockTicketFind(c) ==
  /\ Found(c, "lock")
  /\ \/ /\ Holder(c) \notin {NoUser, calls[c].agent}             \* 409
        /\ Finish(c)
     \/ /\ Holder(c) \in {NoUser, calls[c].agent}
        /\ \E now \in Dates :
             AwaitSave(c, Locked(tickets[calls[c].ticket], calls[c].agent, now))
  /\ UNCHANGED <<tickets, conn, announced>>

LockTicketReply(c) ==
  /\ At(c, "lock", "reply")
  /\ Broadcast(c, calls[c].agent)
  /\ Finish(c)
  /\ UNCHANGED <<tickets, conn>>

UnlockTicketFind(c) ==
  LET isOwner == Holder(c) = calls[c].agent
      isAdmin == calls[c].agent \in Admins
  IN
  /\ Found(c, "unlock")
  /\ \/ /\ ~isOwner /\ ~isAdmin                                  \* 403
        /\ Finish(c)
     \/ /\ isOwner \/ isAdmin
        /\ AwaitSave(c, Unlocked(tickets[calls[c].ticket]))
  /\ UNCHANGED <<tickets, conn, announced>>

UnlockTicketReply(c) ==
  /\ At(c, "unlock", "reply")
  /\ Broadcast(c, NoUser)
  /\ Finish(c)
  /\ UNCHANGED <<tickets, conn>>

ResolveTicketFind(c) ==
  /\ Found(c, "resolve")
  /\ AwaitSave(c, Resolved(tickets[calls[c].ticket]))
  /\ UNCHANGED <<tickets, conn, announced>>

ResolveTicketReply(c) ==
  /\ At(c, "resolve", "reply")
  /\ Broadcast(c, NoUser)
  /\ Finish(c)
  /\ UNCHANGED <<tickets, conn>>

\* findByIdAndUpdate reads and writes in one database operation.
AssignTicketUpdate(c) ==
  LET t == calls[c].ticket IN
  /\ Found(c, "assign")
  /\ tickets' = [tickets EXCEPT ![t] = Assigned(@, calls[c].agent)]
  /\ calls' = [calls EXCEPT ![c].pc = "reply"]
  /\ UNCHANGED <<socketLocks, visited, conn, announced>>

\* Broadcasts ticket:assigned, which says nothing about the lock.
AssignTicketReply(c) ==
  /\ At(c, "assign", "reply")
  /\ Finish(c)
  /\ UNCHANGED <<tickets, conn, announced>>

-----------------------------------------------------------------------------
(* The Socket.io handlers of socketHandler.js.                             *)

\* Mutant of OnLockFind: the check of the current holder is dropped.
OnLockFindUnchecked(c) ==
  /\ Found(c, "ticket:lock")
  /\ \E now \in Dates :
       AwaitSave(c, Locked(tickets[calls[c].ticket], calls[c].agent, now))
  /\ UNCHANGED <<tickets, conn, announced>>

OnLockFind(c) ==
  LET locked(now) == Locked(tickets[calls[c].ticket], calls[c].agent, now) IN
  /\ Found(c, "ticket:lock")
  /\ \/ /\ Holder(c) \notin {NoUser, calls[c].agent}
        /\ Finish(c)
     \/ /\ Holder(c) \in {NoUser, calls[c].agent}
        /\ \E now \in Dates : AwaitSave(c, locked(now))
     \/ /\ Holder(c) = NoUser /\ calls[c].agent = NoUser
        /\ \E now \in Dates : AwaitSaveUnset(c, locked(now))
  /\ UNCHANGED <<tickets, conn, announced>>

\* socketLocks gets the ticket even if the socket has meanwhile disconnected.
OnLockReply(c) ==
  LET s == calls[c].socket IN
  /\ At(c, "ticket:lock", "reply")
  /\ socketLocks' = [socketLocks EXCEPT ![s] = @ \cup {calls[c].ticket}]
  /\ Broadcast(c, calls[c].agent)
  /\ calls' = [calls EXCEPT ![c] = Idle]
  /\ UNCHANGED <<tickets, visited, conn>>

\* Not locked, or not by this agent: the handler ends without an answer.
OnUnlockFind(c) ==
  /\ Found(c, "ticket:unlock")
  /\ \/ /\ Holder(c) = NoUser \/ Holder(c) # calls[c].agent
        /\ Finish(c)
     \/ /\ Holder(c) # NoUser /\ Holder(c) = calls[c].agent
        /\ AwaitSave(c, Unlocked(tickets[calls[c].ticket]))
  /\ UNCHANGED <<tickets, conn, announced>>

\* A ticket deleted from the Set and added again is reached again by a loop.
OnUnlockReply(c) ==
  LET s == calls[c].socket IN
  /\ At(c, "ticket:unlock", "reply")
  /\ socketLocks' = [socketLocks EXCEPT ![s] = @ \ {calls[c].ticket}]
  /\ visited' = [visited EXCEPT ![s] = @ \ {calls[c].ticket}]
  /\ Broadcast(c, NoUser)
  /\ calls' = [calls EXCEPT ![c] = Idle]
  /\ UNCHANGED <<tickets, conn>>

\* Mutant of Disconnect: the entry is deleted and no ticket is unlocked.
DisconnectForgets(s) ==
  /\ conn[s] = "open"
  /\ conn' = [conn EXCEPT ![s] = "closed"]
  /\ socketLocks' = [socketLocks EXCEPT ![s] = {}]
  /\ UNCHANGED <<tickets, calls, visited, announced>>

Disconnect(s) ==
  /\ conn[s] = "open"
  /\ conn' = [conn EXCEPT ![s] = "closed"]
  /\ NextTicket(s, {})
  /\ UNCHANGED <<tickets, announced>>

\* The loop unlocks whatever it finds: it does not look at lockedBy.
DisconnectFind(s) ==
  /\ Found(s, "disconnect")
  /\ AwaitSave(s, Unlocked(tickets[calls[s].ticket]))
  /\ UNCHANGED <<tickets, conn, announced>>

\* Mutant of DisconnectReply: ticket:unlocked is not broadcast.
DisconnectReplySilent(s) ==
  /\ At(s, "disconnect", "reply")
  /\ Finish(s)
  /\ UNCHANGED <<tickets, conn, announced>>

DisconnectReply(s) ==
  /\ At(s, "disconnect", "reply")
  /\ Broadcast(s, NoUser)
  /\ Finish(s)
  /\ UNCHANGED <<tickets, conn>>

-----------------------------------------------------------------------------
(* Failures.                                                               *)

\* The awaited database operation rejects without having changed anything.
\* Every handler catches it: 500, an 'error' event, or the next ticket.
OperationFails(c) ==
  /\ Faults
  /\ calls[c].pc \in {"find", "save"}
  /\ Finish(c)
  /\ UNCHANGED <<tickets, conn, announced>>

\* The $set was applied but its acknowledgement was lost: save() rejects.
\* (For assignTicket this is AssignTicketUpdate and an answer no one reads.)
AcknowledgementLost(c) ==
  LET t == calls[c].ticket IN
  /\ Faults
  /\ calls[c].pc = "save"
  /\ tickets' = [tickets EXCEPT ![t] = ApplyUpdate(@, calls[c].set)]
  /\ Finish(c)
  /\ UNCHANGED <<conn, announced>>

\* process.exit in the uncaughtException handler, a kill by the host or the
\* end of a SIGTERM shutdown; the host starts the server again.  The database
\* survives, the handlers in flight and the Map socketLocks do not.
Crash ==
  /\ Crashes
  /\ calls' = [c \in Calls |-> Idle]
  /\ socketLocks' = [s \in Sockets |-> {}]
  /\ visited' = [s \in Sockets |-> {}]
  /\ conn' = [s \in Sockets |-> IF conn[s] = "open" THEN "closed" ELSE conn[s]]
  /\ UNCHANGED <<tickets, announced>>

-----------------------------------------------------------------------------

\* What happens to a call once it is there.
Progress(c) ==
  \/ NotFound(c)
  \/ LockTicketFind(c)
  \/ LockTicketReply(c)
  \/ UnlockTicketFind(c)
  \/ UnlockTicketReply(c)
  \/ ResolveTicketFind(c)
  \/ ResolveTicketReply(c)
  \/ AssignTicketUpdate(c)
  \/ AssignTicketReply(c)
  \/ OnLockFind(c)
  \/ OnLockReply(c)
  \/ OnUnlockFind(c)
  \/ OnUnlockReply(c)
  \/ DisconnectFind(c)
  \/ DisconnectReply(c)
  \/ Save(c)
  \/ OperationFails(c)
  \/ AcknowledgementLost(c)

Next ==
  \/ \E c \in Slots : RestRequest(c) \/ SocketEvent(c)
  \/ \E s \in Sockets : Connect(s) \/ Disconnect(s)
  \/ \E c \in Calls : Progress(c)
  \/ Crash

Spec == Init /\ [][Next]_vars

\* The database driver answers every operation or reports an error, and
\* Node's event loop runs every continuation that is ready.
Fairness == \A c \in Calls : WF_vars(Progress(c))

FairSpec == Spec /\ Fairness

-----------------------------------------------------------------------------
(* Properties.                                                             *)

\* A ticket is In-Progress only if it is assigned, and Open only if it is not.
\* assignTicket writes both fields in one update, and no save() of another
\* handler, however old the document it read, may tear them apart.
StatusMatchesAssignment ==
  \A t \in Tickets :
    /\ tickets[t].status = "In-Progress" => tickets[t].assignedTo # NoUser
    /\ tickets[t].status = "Open" => tickets[t].assignedTo = NoUser

\* A ticket that was assigned or resolved never becomes Open again: a lock,
\* unlock or disconnect handler that read the ticket while it was Open and
\* saves it later does not bring the old status back. Resolved is not final:
\* assignTicket takes a resolved ticket back to In-Progress, as this allows.
NeverReopened ==
  [][\A t \in Tickets :
       tickets[t].status # "Open" => tickets'[t].status # "Open"]_vars

\* The loop of a disconnect handler comes to its end although handlers of the
\* same socket that are still in flight add to the Set it iterates over.
DisconnectTerminates ==
  \A s \in Sockets : Busy(s) ~> ~Busy(s)

\* The step in which the save() of call c is applied.
Commits(c) == calls[c].pc = "save" /\ calls'[c].pc = "reply"

\* README.md:10, ticketController.js:194: a lock never goes straight from one
\* agent to another.
LockNotTaken ==
  [][\A t \in Tickets :
       tickets[t].lockedBy # NoUser =>
         tickets'[t].lockedBy \in {tickets[t].lockedBy, NoUser}]_vars

\* socketHandler.js:78: what a disconnect unlocks was locked by the agent that
\* disconnected.
DisconnectReleasesOwn ==
  [][\A s \in Sockets :
       Commits(s) /\ tickets[calls[s].ticket].lockedBy # NoUser =>
         <<s, tickets[calls[s].ticket].lockedBy>> \in Claims]_vars

=============================================================================
