--------------------------- MODULE LockingProofs ----------------------------
(***************************************************************************)
(* Proofs about TicketLocking, for any number of tickets, users, sockets   *)
(* and calls in flight, with database failures and crashes.                *)
(*                                                                         *)
(* StatusMatchesAssignment is not inductive: whether a save() respects it  *)
(* depends on the $set that is on its way.  PendingOK says what those can  *)
(* be: a $set never carries a status other than Resolved, because save()   *)
(* sends modified paths only.                                              *)
(*                                                                         *)
(* Proofs about SerialLocking: when calls do not overlap, the handlers of  *)
(* TicketLocking implement the one-step operations of TicketDesk, a held   *)
(* ticket has a lock date, a disconnect leaves nothing tracked, and the    *)
(* broadcasts tell the holder in the database.                             *)
(*                                                                         *)
(* None of this is inductive: it depends on what the handlers in flight    *)
(* have read.  CallInv says of each of them that the check it made when it *)
(* read the document still holds, and that its $set will turn the stored   *)
(* document into exactly what the handler assigned.  It stays true because *)
(* no other handler in flight touches that ticket (Frame, FrameOK).        *)
(***************************************************************************)
EXTENDS SerialLocking, TLAPS

CallOK(call) ==
  /\ call \in Call
  /\ call.pc \in {"save", "reply"} => call.ticket \in Tickets
  /\ call.set.status \in {Keep, "Resolved"}
  /\ call.op \in {"lock", "assign"} => call.agent \in Users

PendingOK == \A c \in Calls : CallOK(calls[c])

IInv == TypeOK /\ PendingOK /\ StatusMatchesAssignment

\* What TypeOK and PendingOK say of the server's memory.
MemoryOK ==
  /\ calls \in [Calls -> Call]
  /\ PendingOK
  /\ socketLocks \in [Sockets -> SUBSET Tickets]
  /\ visited \in [Sockets -> SUBSET Tickets]

\* What one step may do to one document.
DocStep(old, new) ==
  \/ new = old
  \/ \E set \in Update : set.status \in {Keep, "Resolved"} /\ new = ApplyUpdate(old, set)
  \/ \E u \in Users : new = Assigned(old, u)

TicketsStep ==
  /\ tickets' \in [Tickets -> TicketDoc]
  /\ \A t \in Tickets : DocStep(tickets[t], tickets'[t])

\* The idle call is a call that PendingOK admits.
LEMMA IdleOK == CallOK(Idle)
BY Zenon DEF CallOK, Idle, Call, Ops, RestOps, SocketOps, MaybeUser, NoUpdate, Update

\* save() sends a well-formed $set, which holds a status only if the handler
\* assigned one that differs from what it read.
LEMMA ModifiedPathsOK ==
  ASSUME NEW read \in TicketDoc, NEW doc \in TicketDoc,
         doc.status \in {read.status, "Resolved"}
  PROVE  /\ ModifiedPaths(read, doc) \in Update
         /\ ModifiedPaths(read, doc).status \in {Keep, "Resolved"}
BY Zenon DEF TicketDoc, Update, ModifiedPaths, Changed

\* Applying a $set gives a document.
LEMMA ApplyUpdateOK ==
  ASSUME NEW doc \in TicketDoc, NEW set \in Update
  PROVE  ApplyUpdate(doc, set) \in TicketDoc
BY Zenon DEF TicketDoc, Update, ApplyUpdate, Written

\* What the locking handlers assign to a loaded document.
LEMMA LockedOK ==
  ASSUME NEW doc \in TicketDoc, NEW u \in MaybeUser, NEW now \in Dates
  PROVE  /\ Locked(doc, u, now) \in TicketDoc
         /\ Locked(doc, u, now).status = doc.status
BY Zenon DEF TicketDoc, Locked, MaybeUser, MaybeDate

\* What assignTicket writes.
LEMMA AssignedOK ==
  ASSUME NEW doc \in TicketDoc, NEW u \in Users
  PROVE  Assigned(doc, u) \in TicketDoc
BY Zenon DEF TicketDoc, Assigned, Status, MaybeUser

\* What the unlocking handlers and resolveTicket assign.
LEMMA ReleasesOK ==
  ASSUME NEW doc \in TicketDoc
  PROVE  /\ Unlocked(doc) \in TicketDoc
         /\ Unlocked(doc).status = doc.status
         /\ Resolved(doc) \in TicketDoc
         /\ Resolved(doc).status = "Resolved"
BY Zenon DEF TicketDoc, Unlocked, Resolved, Status, MaybeUser, MaybeDate

\* The step to the next ticket of a disconnect handler's loop.
LEMMA NextTicketOK ==
  ASSUME MemoryOK, NEW s \in Sockets, NEW seen \in SUBSET Tickets,
         NextTicket(s, seen)
  PROVE  MemoryOK'
<1>1. CASE \E t \in socketLocks[s] \ seen :
             /\ calls' = [calls EXCEPT ![s] = [Idle EXCEPT !.op = "disconnect",
                                           !.pc = "find", !.ticket = t,
                                           !.socket = s]]
             /\ visited' = [visited EXCEPT ![s] = seen \cup {t}]
             /\ UNCHANGED socketLocks
  <2>1. PICK t \in socketLocks[s] \ seen :
             /\ calls' = [calls EXCEPT ![s] = [Idle EXCEPT !.op = "disconnect",
                                           !.pc = "find", !.ticket = t,
                                           !.socket = s]]
             /\ visited' = [visited EXCEPT ![s] = seen \cup {t}]
             /\ UNCHANGED socketLocks
    BY <1>1, Zenon
  <2>2. t \in Tickets
    BY Zenon DEF MemoryOK
  <2>3. CallOK([Idle EXCEPT !.op = "disconnect", !.pc = "find",
                            !.ticket = t, !.socket = s])
    BY <2>2, Zenon DEF CallOK, Idle, Call, Ops, MaybeUser, NoUpdate, Update
  <2>4. QED
    BY <2>1, <2>2, <2>3, Zenon DEF MemoryOK, PendingOK, CallOK, Calls
<1>2. CASE /\ calls' = [calls EXCEPT ![s] = Idle]
           /\ visited' = [visited EXCEPT ![s] = {}]
           /\ socketLocks' = [socketLocks EXCEPT ![s] = {}]
  BY <1>2, IdleOK, Zenon DEF MemoryOK, PendingOK, CallOK, Calls
<1>3. QED
  BY <1>1, <1>2, Zenon DEF NextTicket

\* The end of a call.
LEMMA FinishOK ==
  ASSUME MemoryOK, NEW c \in Calls, Finish(c)
  PROVE  MemoryOK'
<1>1. CASE c \in Slots /\ calls' = [calls EXCEPT ![c] = Idle]
                       /\ UNCHANGED <<socketLocks, visited>>
  BY <1>1, IdleOK, Zenon DEF MemoryOK, PendingOK, CallOK
<1>2. CASE c \in Sockets /\ NextTicket(c, visited[c])
  BY <1>2, NextTicketOK, Zenon DEF MemoryOK
<1>3. QED
  BY <1>1, <1>2, Zenon DEF Finish

\* The start of a save() that sends no status but Resolved.
LEMMA AwaitUpdateOK ==
  ASSUME MemoryOK, NEW c \in Calls, calls[c].ticket \in Tickets,
         NEW set \in Update, set.status \in {Keep, "Resolved"}, AwaitUpdate(c, set)
  PROVE  MemoryOK'
<1>1. CallOK([calls[c] EXCEPT !.pc = "save", !.set = set])
  BY Zenon DEF MemoryOK, PendingOK, CallOK, Call
<1>2. calls' = [calls EXCEPT ![c] = [calls[c] EXCEPT !.pc = "save", !.set = set]]
  BY Zenon DEF AwaitUpdate, MemoryOK, Call
<1> DEFINE call == [calls[c] EXCEPT !.pc = "save", !.set = set]
<1>3. CallOK(call) /\ call \in Call /\ calls' = [calls EXCEPT ![c] = call]
  BY <1>1, <1>2, Zenon DEF CallOK
<1> HIDE DEF call
<1>4. QED
  BY <1>3, Zenon DEF MemoryOK, PendingOK, AwaitUpdate

\* The start of a save() whose document has the status that was read, or
\* Resolved.
LEMMA AwaitSaveOK ==
  ASSUME MemoryOK, tickets \in [Tickets -> TicketDoc],
         NEW c \in Calls, calls[c].ticket \in Tickets, NEW doc \in TicketDoc,
         doc.status \in {tickets[calls[c].ticket].status, "Resolved"},
         AwaitSave(c, doc) \/ AwaitSaveUnset(c, doc)
  PROVE  MemoryOK'
<1> DEFINE set   == ModifiedPaths(tickets[calls[c].ticket], doc)
           unset == [set EXCEPT !.lockedBy = NoUser]
<1>1. set \in Update /\ set.status \in {Keep, "Resolved"}
  BY ModifiedPathsOK, Zenon
<1>2. AwaitUpdate(c, set) \/ AwaitUpdate(c, unset)
  BY Zenon DEF AwaitSave, AwaitSaveUnset
<1> HIDE DEF set
<1>3. unset \in Update /\ unset.status \in {Keep, "Resolved"}
  BY <1>1, Zenon DEF Update, MaybeUser
<1> HIDE DEF unset
<1>4. QED
  BY <1>1, <1>2, <1>3, AwaitUpdateOK, Zenon

-----------------------------------------------------------------------------
(* One lemma for each kind of step: what it does to memory and tickets.     *)

Good == MemoryOK /\ tickets \in [Tickets -> TicketDoc]
                 /\ conn \in [Sockets -> {"new", "open", "closed"}]
                 /\ announced \in [Tickets -> MaybeUser]

Steps == MemoryOK' /\ TicketsStep
                   /\ conn' \in [Sockets -> {"new", "open", "closed"}]
                   /\ announced' \in [Tickets -> MaybeUser]

\* A call that comes in.
LEMMA StartOK ==
  ASSUME MemoryOK, NEW c \in Calls, NEW op \in Ops, NEW t \in Tickets \cup {NoTicket},
         NEW u \in MaybeUser, op \in {"lock", "assign"} => u \in Users,
         NEW s \in Sockets \cup {NoSocket}, Start(c, op, t, u, s),
         UNCHANGED <<socketLocks, visited>>
  PROVE  MemoryOK'
<1>1. CallOK([Idle EXCEPT !.op = op, !.pc = "find", !.ticket = t,
                          !.agent = u, !.socket = s])
  BY Zenon DEF CallOK, Idle, Call, MaybeUser, NoUpdate, Update
<1>2. QED
  BY <1>1, Zenon DEF MemoryOK, PendingOK, CallOK, Start

\* RestRequest and SocketEvent only add a call.
LEMMA RequestsOK ==
  ASSUME Good, NEW c \in Slots, RestRequest(c) \/ SocketEvent(c)
  PROVE  Steps
<1>1. MemoryOK'
  <2>1. CASE RestRequest(c)
    <3>1. PICK op \in RestOps, t \in Tickets \cup {NoTicket}, u \in Users :
            Start(c, op, t, u, NoSocket)
      BY <2>1, Zenon DEF RestRequest
    <3>2. UNCHANGED <<socketLocks, visited>>
      BY <2>1, Zenon DEF RestRequest
    <3>3. QED
      BY <3>1, <3>2, StartOK, Zenon DEF Good, Calls, Ops, MaybeUser
  <2>2. CASE SocketEvent(c)
    <3>1. PICK op \in SocketOps, t \in Tickets \cup {NoTicket}, claim \in Claims :
            Start(c, op, t, claim[2], claim[1])
      BY <2>2, Zenon DEF SocketEvent
    <3>2. claim[1] \in Sockets /\ claim[2] \in MaybeUser /\ op \notin {"lock", "assign"}
      BY LockingAssumption, Zenon DEF SocketOps
    <3>3. UNCHANGED <<socketLocks, visited>>
      BY <2>2, Zenon DEF SocketEvent
    <3>4. QED
      BY <3>1, <3>2, <3>3, StartOK, Zenon DEF Good, Calls, Ops
  <2>3. QED
    BY <2>1, <2>2, Zenon
<1>2. UNCHANGED <<tickets, conn, announced>>
  BY Zenon DEF RestRequest, SocketEvent
<1>3. QED
  BY <1>1, <1>2, Zenon DEF Good, Steps, TicketsStep, DocStep

\* A connection opens, or closes and starts the loop of its disconnect handler.
LEMMA ConnectionsOK ==
  ASSUME Good, NEW s \in Sockets, Connect(s) \/ Disconnect(s)
  PROVE  Steps
<1>1. MemoryOK'
  <2>1. CASE Connect(s)
    BY <2>1, Zenon DEF Good, Connect, MemoryOK, PendingOK
  <2>2. CASE Disconnect(s)
    <3>1. NextTicket(s, {})
      BY <2>2, Zenon DEF Disconnect
    <3>2. QED
      BY <3>1, NextTicketOK, Zenon DEF Good
  <2>3. QED
    BY <2>1, <2>2, Zenon
<1>2. UNCHANGED <<tickets, announced>> /\ conn' \in [Sockets -> {"new", "open", "closed"}]
  BY Zenon DEF Good, Connect, Disconnect
<1>3. QED
  BY <1>1, <1>2, Zenon DEF Good, Steps, TicketsStep, DocStep

\* A step that ends the call, or starts its save(), and leaves the rest alone.
LEMMA FindOK ==
  ASSUME Good, NEW c \in Calls,
         \/ NotFound(c) \/ LockTicketFind(c) \/ UnlockTicketFind(c)
         \/ ResolveTicketFind(c) \/ OnLockFind(c) \/ OnUnlockFind(c)
         \/ DisconnectFind(c) \/ OperationFails(c)
  PROVE  Steps
<1> DEFINE doc == tickets[calls[c].ticket]
<1> USE DEF Good
<1>1. UNCHANGED <<tickets, conn, announced>>
  BY Zenon DEF NotFound, LockTicketFind, UnlockTicketFind, ResolveTicketFind, OnLockFind,
    OnUnlockFind, DisconnectFind, OperationFails
<1>2. CASE Finish(c)
  BY <1>1, <1>2, FinishOK, Zenon DEF Steps, TicketsStep, DocStep
<1>3. CASE calls[c].ticket \in Tickets /\ AwaitSave(c, Unlocked(doc))
  <2>1. doc \in TicketDoc
    BY <1>3, Zenon
  <2>2. MemoryOK'
    BY <1>3, <2>1, ReleasesOK, AwaitSaveOK, Zenon
  <2>3. QED
    BY <1>1, <2>2, Zenon DEF Steps, TicketsStep, DocStep
<1>4. CASE calls[c].ticket \in Tickets /\ AwaitSave(c, Resolved(doc))
  <2>1. doc \in TicketDoc
    BY <1>4, Zenon
  <2>2. MemoryOK'
    BY <1>4, <2>1, ReleasesOK, AwaitSaveOK, Zenon
  <2>3. QED
    BY <1>1, <2>2, Zenon DEF Steps, TicketsStep, DocStep
<1>5. CASE \E now \in Dates : /\ calls[c].ticket \in Tickets
                             /\ \/ AwaitSave(c, Locked(doc, calls[c].agent, now))
                                \/ AwaitSaveUnset(c, Locked(doc, calls[c].agent, now))
  <2>1. PICK now \in Dates : \/ AwaitSave(c, Locked(doc, calls[c].agent, now))
                             \/ AwaitSaveUnset(c, Locked(doc, calls[c].agent, now))
    BY <1>5, Zenon
  <2>2. doc \in TicketDoc /\ calls[c].agent \in MaybeUser
    BY <1>5, Zenon DEF MemoryOK, Call
  <2>3. MemoryOK'
    BY <1>5, <2>1, <2>2, LockedOK, AwaitSaveOK, Zenon
  <2>4. QED
    BY <1>1, <2>3, Zenon DEF Steps, TicketsStep, DocStep
<1>6. QED
  BY <1>2, <1>3, <1>4, <1>5, Zenon DEF NotFound, LockTicketFind, UnlockTicketFind,
    ResolveTicketFind, OnLockFind, OnUnlockFind, DisconnectFind, OperationFails, Found

\* The database applies a $set.
LEMMA ApplyOK ==
  ASSUME Good, NEW c \in Calls, calls[c].pc = "save",
         tickets' = [tickets EXCEPT ![calls[c].ticket] =
                       ApplyUpdate(@, calls[c].set)]
  PROVE  TicketsStep
<1> DEFINE t == calls[c].ticket
           set == calls[c].set
<1>1. t \in Tickets /\ set \in Update /\ set.status \in {Keep, "Resolved"}
  BY Zenon DEF Good, MemoryOK, PendingOK, CallOK, Call
<1> HIDE DEF t, set
<1>2. tickets' = [tickets EXCEPT ![t] = ApplyUpdate(tickets[t], set)]
  BY <1>1, Zenon DEF Good, t, set
<1>3. ApplyUpdate(tickets[t], set) \in TicketDoc
  BY <1>1, ApplyUpdateOK, Zenon DEF Good
<1>4. DocStep(tickets[t], ApplyUpdate(tickets[t], set))
  BY <1>1, Zenon DEF DocStep
<1>5. tickets' \in [Tickets -> TicketDoc]
  BY <1>2, <1>3, Zenon DEF Good
<1>6. ASSUME NEW u \in Tickets PROVE DocStep(tickets[u], tickets'[u])
  <2>1. CASE u = t
    BY <2>1, <1>1, <1>2, <1>4, Zenon DEF Good
  <2>2. CASE u # t
    BY <2>2, <1>2, Zenon DEF Good, DocStep
  <2>3. QED
    BY <2>1, <2>2, Zenon
<1>7. QED
  BY <1>5, <1>6, Zenon DEF TicketsStep

\* A save() reaches the database, with or without its acknowledgement.
LEMMA SaveOK ==
  ASSUME Good, NEW c \in Calls, Save(c) \/ AcknowledgementLost(c)
  PROVE  Steps
<1>1. TicketsStep
  BY ApplyOK, Zenon DEF Save, AcknowledgementLost
<1>2. MemoryOK'
  <2>1. CASE Save(c)
    <3>a. calls[c].pc = "save" /\ CallOK(calls[c])
      BY <2>1, Zenon DEF Good, MemoryOK, PendingOK, Save
    <3>b. NoUpdate \in Update /\ NoUpdate.status = Keep
      BY Zenon DEF NoUpdate, Update
    <3>1. CallOK([calls[c] EXCEPT !.pc = "reply", !.set = NoUpdate])
      BY <3>a, <3>b, Zenon DEF CallOK, Call
    <3>2. calls' = [calls EXCEPT ![c] = [calls[c] EXCEPT !.pc = "reply", !.set = NoUpdate]]
      BY <2>1, Zenon DEF Good, MemoryOK, Call, Save
    <3> DEFINE call == [calls[c] EXCEPT !.pc = "reply", !.set = NoUpdate]
    <3>3. CallOK(call) /\ call \in Call /\ calls' = [calls EXCEPT ![c] = call]
      BY <3>1, <3>2, Zenon DEF CallOK
    <3>4. UNCHANGED <<socketLocks, visited>>
      BY <2>1, Zenon DEF Save
    <3> HIDE DEF call
    <3>5. QED
      BY <3>3, <3>4, Zenon DEF Good, MemoryOK, PendingOK
  <2>2. CASE AcknowledgementLost(c)
    BY <2>2, FinishOK, Zenon DEF Good, AcknowledgementLost
  <2>3. QED
    BY <2>1, <2>2, Zenon
<1>3. UNCHANGED <<conn, announced>>
  BY Zenon DEF Save, AcknowledgementLost
<1>4. QED
  BY <1>1, <1>2, <1>3, Zenon DEF Good, Steps

\* A reply that only ends the call and may broadcast a holder.
LEMMA ReplyOK ==
  ASSUME Good, NEW c \in Calls,
         \/ LockTicketReply(c) \/ UnlockTicketReply(c) \/ ResolveTicketReply(c)
         \/ AssignTicketReply(c) \/ DisconnectReply(c)
  PROVE  Steps
<1>1. MemoryOK'
  BY FinishOK, Zenon DEF Good, LockTicketReply, UnlockTicketReply, ResolveTicketReply,
    AssignTicketReply, DisconnectReply
<1>2. UNCHANGED <<tickets, conn>>
  BY Zenon DEF LockTicketReply, UnlockTicketReply, ResolveTicketReply, AssignTicketReply,
    DisconnectReply
<1>3. calls[c].agent \in MaybeUser
  BY Zenon DEF Good, MemoryOK, Call
<1>4. announced' \in [Tickets -> MaybeUser]
  BY <1>3, Zenon DEF Good, LockTicketReply, UnlockTicketReply, ResolveTicketReply,
    AssignTicketReply, DisconnectReply, Broadcast, MaybeUser
<1>5. QED
  BY <1>1, <1>2, <1>4, Zenon DEF Good, Steps, TicketsStep, DocStep

\* The replies of the socket handlers, which update socketLocks.
LEMMA SocketReplyOK ==
  ASSUME Good, NEW c \in Calls, OnLockReply(c) \/ OnUnlockReply(c)
  PROVE  Steps
<1>1. calls[c].ticket \in Tickets /\ calls[c].agent \in MaybeUser
  BY Zenon DEF Good, MemoryOK, PendingOK, CallOK, Call, OnLockReply, OnUnlockReply, At
<1>2. /\ socketLocks' \in [Sockets -> SUBSET Tickets]
      /\ visited' \in [Sockets -> SUBSET Tickets]
  <2>1. CASE OnLockReply(c)
    BY <1>1, <2>1, Zenon DEF Good, MemoryOK, OnLockReply
  <2>2. CASE OnUnlockReply(c)
    BY <1>1, <2>2, Zenon DEF Good, MemoryOK, OnUnlockReply
  <2>3. QED
    BY <2>1, <2>2, Zenon
<1>3. calls' = [calls EXCEPT ![c] = Idle]
  BY Zenon DEF OnLockReply, OnUnlockReply
<1>4. MemoryOK'
  BY <1>2, <1>3, IdleOK, Zenon DEF Good, MemoryOK, PendingOK, CallOK
<1>5. announced' \in [Tickets -> MaybeUser]
  BY <1>1, Zenon DEF Good, OnLockReply, OnUnlockReply, Broadcast, MaybeUser
<1>6. UNCHANGED <<tickets, conn>>
  BY Zenon DEF OnLockReply, OnUnlockReply
<1>7. QED
  BY <1>4, <1>5, <1>6, Zenon DEF Good, Steps, TicketsStep, DocStep

\* assignTicket's one database operation.
LEMMA AssignOK ==
  ASSUME Good, NEW c \in Calls, AssignTicketUpdate(c)
  PROVE  Steps
<1> DEFINE t == calls[c].ticket
           u == calls[c].agent
<1>1. t \in Tickets /\ u \in Users
  BY Zenon DEF Good, MemoryOK, PendingOK, CallOK, AssignTicketUpdate, Found, At
<1>2. /\ tickets' = [tickets EXCEPT ![t] = Assigned(tickets[t], u)]
      /\ calls' = [calls EXCEPT ![c].pc = "reply"]
      /\ UNCHANGED <<socketLocks, visited, conn, announced>>
  BY <1>1, Zenon DEF Good, AssignTicketUpdate
<1> HIDE DEF u
<1>3. Assigned(tickets[t], u) \in TicketDoc
  BY <1>1, AssignedOK, Zenon DEF Good
<1>4. DocStep(tickets[t], Assigned(tickets[t], u))
  BY <1>1, Zenon DEF DocStep
<1> HIDE DEF t
<1>5. TicketsStep
  <2>1. tickets' \in [Tickets -> TicketDoc]
    BY <1>2, <1>3, Zenon DEF Good
  <2>2. ASSUME NEW v \in Tickets PROVE DocStep(tickets[v], tickets'[v])
    <3>1. CASE v = t
      BY <3>1, <1>1, <1>2, <1>4, Zenon DEF Good
    <3>2. CASE v # t
      BY <3>2, <1>2, Zenon DEF Good, DocStep
    <3>3. QED
      BY <3>1, <3>2, Zenon
  <2>3. QED
    BY <2>1, <2>2, Zenon DEF TicketsStep
<1>6. CallOK([calls[c] EXCEPT !.pc = "reply"])
  BY <1>1, Zenon DEF Good, MemoryOK, PendingOK, CallOK, Call, t
<1>7. calls' = [calls EXCEPT ![c] = [calls[c] EXCEPT !.pc = "reply"]]
  BY <1>2, Zenon DEF Good, MemoryOK, Call
<1>8. MemoryOK'
  BY <1>2, <1>6, <1>7, Zenon DEF Good, MemoryOK, PendingOK, CallOK
<1>9. QED
  BY <1>2, <1>5, <1>8, Zenon DEF Good, Steps

\* A crash empties the memory and leaves the tickets.
LEMMA CrashOK ==
  ASSUME Good, Crash
  PROVE  Steps
<1>1. MemoryOK'
  BY IdleOK, Zenon DEF Crash, MemoryOK, PendingOK, CallOK
<1>2. QED
  BY <1>1, Zenon DEF Good, Steps, Crash, TicketsStep, DocStep

\* Every step of the server, the database and the clients.
LEMMA NextOK ==
  ASSUME Good, Next
  PROVE  Steps
<1>1. ASSUME NEW c \in Calls, Progress(c) PROVE Steps
  BY <1>1, FindOK, ReplyOK, SocketReplyOK, SaveOK, AssignOK, Zenon DEF Progress
<1>2. QED
  BY <1>1, RequestsOK, ConnectionsOK, CrashOK, Zenon DEF Next

-----------------------------------------------------------------------------
(* The theorems.                                                           *)

\* A document step keeps status and assignment together, and never reopens.
LEMMA DocStepOK ==
  ASSUME NEW old \in TicketDoc, NEW new, DocStep(old, new)
  PROVE  /\ \/ new.status = old.status /\ new.assignedTo = old.assignedTo
            \/ new.status = "Resolved"
            \/ new.status = "In-Progress" /\ new.assignedTo \in Users
<1>1. CASE new = old
  BY <1>1, Zenon
<1>2. CASE \E set \in Update : set.status \in {Keep, "Resolved"} /\ new = ApplyUpdate(old, set)
  BY <1>2, KeepAssumption, SMTT(30) DEF ApplyUpdate, Written, Update
<1>3. CASE \E u \in Users : new = Assigned(old, u)
  BY <1>3, Zenon DEF Assigned, TicketDoc
<1>4. QED
  BY <1>1, <1>2, <1>3, Zenon DEF DocStep

\* The inductive invariant holds when the server first starts.
LEMMA InitOK == Init => IInv
<1> SUFFICES ASSUME Init PROVE IInv
  OBVIOUS
<1>1. PendingOK
  BY IdleOK, Zenon DEF Init, PendingOK
<1>2. calls \in [Calls -> Call]
  BY IdleOK, Zenon DEF Init, CallOK
<1>3. TypeOK
  BY <1>2, Zenon DEF Init, TypeOK, NewTicket, TicketDoc, Status, MaybeUser, MaybeDate
<1>4. StatusMatchesAssignment
  BY Zenon DEF Init, StatusMatchesAssignment, NewTicket
<1>5. QED
  BY <1>1, <1>3, <1>4, Zenon DEF IInv

\* Every step preserves the inductive invariant.
LEMMA StepOK == IInv /\ [Next]_vars => IInv'
<1> SUFFICES ASSUME IInv, [Next]_vars PROVE IInv'
  OBVIOUS
<1>1. CASE Next
  <2>1. Steps
    BY <1>1, NextOK, Zenon DEF Good, IInv, TypeOK, MemoryOK
  <2>2. TypeOK' /\ PendingOK'
    BY <2>1, Zenon DEF Steps, TicketsStep, TypeOK, MemoryOK
  <2>3. StatusMatchesAssignment'
    <3>1. \A t \in Tickets : tickets[t] \in TicketDoc /\ DocStep(tickets[t], tickets'[t])
      BY <2>1, Zenon DEF Steps, TicketsStep, IInv, TypeOK
    <3>2. QED
      BY <3>1, DocStepOK, NullsAssumption, Zenon DEF StatusMatchesAssignment, IInv
  <2>4. QED
    BY <2>2, <2>3, Zenon DEF IInv
<1>2. CASE UNCHANGED vars
  BY <1>2, Zenon DEF IInv, vars, TypeOK, PendingOK, StatusMatchesAssignment
<1>3. QED
  BY <1>1, <1>2, Zenon

\* The handlers of ticketController.js and socketHandler.js keep every ticket
\* document, the Map socketLocks and what is in flight well-formed.
THEOREM TypeCorrect == Spec => []TypeOK
<1>1. IInv => TypeOK
  BY Zenon DEF IInv
<1>2. QED
  BY InitOK, StepOK, <1>1, PTL DEF Spec

\* Status and assignment of a ticket are never torn apart, however the
\* handlers' reads and saves interleave, fail or are cut off by a crash.
THEOREM StatusSafe == Spec => []StatusMatchesAssignment
<1>1. IInv => StatusMatchesAssignment
  BY Zenon DEF IInv
<1>2. QED
  BY InitOK, StepOK, <1>1, PTL DEF Spec

\* No step of any handler makes a ticket Open again.
THEOREM NotReopened == Spec => NeverReopened
<1>1. IInv /\ [Next]_vars =>
        [\A t \in Tickets :
           tickets[t].status # "Open" => tickets'[t].status # "Open"]_vars
  <2> SUFFICES ASSUME IInv, Next
               PROVE  \A t \in Tickets :
                        tickets[t].status # "Open" => tickets'[t].status # "Open"
    BY Zenon DEF vars
  <2>1. Steps
    BY NextOK, Zenon DEF Good, IInv, TypeOK, MemoryOK
  <2>2. \A t \in Tickets : tickets[t] \in TicketDoc /\ DocStep(tickets[t], tickets'[t])
    BY <2>1, Zenon DEF Steps, TicketsStep, IInv, TypeOK
  <2>3. QED
    BY <2>2, DocStepOK, Zenon
<1>2. QED
  BY InitOK, StepOK, <1>1, PTL DEF Spec, NeverReopened

-----------------------------------------------------------------------------
(* SerialLocking *)

LockOps   == {"lock", "ticket:lock"}
UnlockOps == {"unlock", "ticket:unlock"}

\* The fields of call c by themselves.
Shape(c, k) ==
  /\ k.op = "none" <=> k.pc = "idle"
  /\ k.op = "none" => k = Idle
  /\ k.op = "assign" => Admins # {} /\ k.pc # "save"
  /\ k.op \notin {"none", "disconnect"} => k.agent \in MaybeUser
  /\ k.op \in RestOps => k.agent \in Users
  /\ k.op \in SocketOps => k.socket \in Sockets
  /\ k.op \in RestOps => k.socket = NoSocket
  /\ c \in Slots => k.op # "disconnect"
  /\ c \in Sockets => \/ k = Idle
                      \/ k.op = "disconnect" /\ k.socket = c

\* The loop of a disconnect handler runs after the disconnect, over what is
\* tracked for its socket.
Looping(c, k) ==
  k.op = "disconnect" => conn[c] = "closed" /\ k.ticket \in socketLocks[c]

\* What handler k may make of the document it reads: the operations of
\* TicketDesk.
Handled(k, old, new) ==
  \/ /\ k.op \in LockOps
     /\ old.lockedBy \in {NoUser, k.agent}
     /\ \E now \in Dates : new = Locked(old, k.agent, now)
  \/ /\ k.op \in UnlockOps
     /\ k.agent \in Users
     /\ old.lockedBy = k.agent \/ k.agent \in Admins
     /\ new = Unlocked(old)
  \/ k.op = "resolve" /\ new = Resolved(old)
  \/ k.op = "disconnect" /\ new = Unlocked(old)

\* The save() on its way: the handler's check still holds of the stored
\* document, and the $set makes of it what the handler assigned.
Effect(k, doc) == k.pc = "save" => Handled(k, doc, ApplyUpdate(doc, k.set))

\* After the save() the stored holder is the one the reply will broadcast.
Settled(k, doc) ==
  k.pc = "reply" =>
    /\ k.op \in LockOps => doc.lockedBy = k.agent
    /\ k.op \in UnlockOps \cup {"resolve", "disconnect"} => doc.lockedBy = NoUser

CallInv(c) ==
  /\ Shape(c, calls[c])
  /\ Looping(c, calls[c])
  /\ calls[c].ticket \in Tickets =>
       /\ Effect(calls[c], tickets[calls[c].ticket])
       /\ Settled(calls[c], tickets[calls[c].ticket])

\* A broadcast is behind the database only while a reply is due.
AnnouncedInv ==
  clean =>
    \A t \in Tickets :
      \/ announced[t] = tickets[t].lockedBy
      \/ \E c \in Calls : /\ calls[c].ticket = t
                          /\ calls[c].pc = "reply" /\ calls[c].op # "assign"

CallsInv == \A c \in Calls : CallInv(c)

SerialInv ==
  /\ Good
  /\ NoOverlap
  /\ CallsInv
  /\ HeldIsDated
  /\ CleanedUp
  /\ AnnouncedInv

-----------------------------------------------------------------------------
(* What a handler in flight relies on.                                     *)

\* A step of call c leaves the other calls, the tickets they work on and what
\* disconnected sockets track as they are.
Frame(c) ==
  /\ \A d \in Calls \ {c} : calls'[d] = calls[d]
  /\ \A t \in Tickets \ {calls[c].ticket} : tickets'[t] = tickets[t]
  /\ \A s \in Sockets \ {c} :
       conn[s] = "closed" => conn'[s] = "closed" /\ socketLocks'[s] = socketLocks[s]

\* A step of one call takes nothing from under the others.
LEMMA FrameOK ==
  ASSUME NoOverlap, CallsInv, NEW c \in Calls, Frame(c), CallInv(c)'
  PROVE  CallsInv'
<1> SUFFICES ASSUME NEW d \in Calls, d # c PROVE CallInv(d)'
  BY Zenon DEF CallsInv
<1>1. calls'[d] = calls[d] /\ CallInv(d)
  BY Zenon DEF Frame, CallsInv
<1>2. Shape(d, calls[d])'
  BY <1>1, Zenon DEF CallInv, Shape
<1>3. Looping(d, calls[d])'
  <2>1. calls[d].op = "disconnect" => d \in Sockets
    BY <1>1, Zenon DEF CallInv, Shape, Calls
  <2>2. QED
    BY <1>1, <2>1, Zenon DEF Frame, CallInv, Looping
<1>4. calls[d].ticket \in Tickets => tickets'[calls[d].ticket] = tickets[calls[d].ticket]
  BY LockingAssumption, Zenon DEF Frame, NoOverlap
<1>5. QED
  BY <1>1, <1>2, <1>3, <1>4, Zenon DEF CallInv

\* A call that is not there has nothing to rely on.
LEMMA IdleInv ==
  ASSUME NEW c \in Calls, calls'[c] = Idle
  PROVE  CallInv(c)'
<1>1. Shape(c, Idle) /\ Idle.op = "none" /\ Idle.ticket \notin Tickets
  BY LockingAssumption, Zenon DEF Shape, Idle, SocketOps, RestOps
<1>2. QED
  BY <1>1, Zenon DEF CallInv, Looping, Shape

\* The loop of a disconnect handler goes on, or ends.
LEMMA NextTicketInv ==
  ASSUME Good, NEW s \in Sockets, NEW seen, NextTicket(s, seen), conn'[s] = "closed"
  PROVE  /\ CallInv(s)'
         /\ \A d \in Calls \ {s} : calls'[d] = calls[d]
         /\ \A r \in Sockets \ {s} : socketLocks'[r] = socketLocks[r]
         /\ calls'[s].socket = s \/ socketLocks'[s] = {}
         /\ calls'[s].pc \in {"idle", "find"}
<1>a. s \in Calls /\ calls \in [Calls -> Call] /\ socketLocks \in [Sockets -> SUBSET Tickets]
  BY Zenon DEF Calls, Good, MemoryOK
<1>1. CASE /\ calls' = [calls EXCEPT ![s] = Idle]
           /\ socketLocks' = [socketLocks EXCEPT ![s] = {}]
  <2>1. calls'[s] = Idle
    BY <1>a, <1>1, Zenon
  <2>2. CallInv(s)'
    BY <1>a, <2>1, IdleInv, Zenon
  <2>3. calls'[s].pc = "idle"
    BY <2>1 DEF Idle
  <2>4. QED
    BY <1>a, <1>1, <2>2, <2>3, Zenon
<1>2. ASSUME NEW t \in socketLocks[s],
             calls' = [calls EXCEPT ![s] = [Idle EXCEPT !.op = "disconnect", !.pc = "find",
                                                        !.ticket = t, !.socket = s]],
             socketLocks' = socketLocks
      PROVE  /\ CallInv(s)' /\ calls'[s].socket = s /\ calls'[s].pc = "find"
             /\ \A d \in Calls \ {s} : calls'[d] = calls[d]
  <2> DEFINE k == [Idle EXCEPT !.op = "disconnect", !.pc = "find", !.ticket = t, !.socket = s]
  <2>1. k.op = "disconnect" /\ k.pc = "find" /\ k.ticket = t /\ k.socket = s
    BY Zenon DEF Idle
  <2>2. calls'[s] = k
    BY <1>a, <1>2, Zenon
  <2>3. \A d \in Calls \ {s} : calls'[d] = calls[d]
    BY <1>a, <1>2, Zenon
  <2> HIDE DEF k
  <2>4. Shape(s, k)
    BY <2>1, LockingAssumption, Zenon DEF Shape, SocketOps, RestOps
  <2>5. CallInv(s)'
    BY <1>2, <2>1, <2>2, <2>4, Zenon DEF CallInv, Looping, Effect, Settled, Shape
  <2>6. QED
    BY <2>1, <2>2, <2>3, <2>5, Zenon
<1>3. QED
  BY <1>1, <1>2, Zenon DEF NextTicket

\* The end of a call, or of one round of a loop.
LEMMA FinishInv ==
  ASSUME Good, CallsInv, NEW c \in Calls, calls[c].pc # "idle", Finish(c), conn' = conn
  PROVE  /\ CallInv(c)'
         /\ \A d \in Calls \ {c} : calls'[d] = calls[d]
         /\ \A r \in Sockets \ {c} : socketLocks'[r] = socketLocks[r]
         /\ c \in Sockets => calls'[c].socket = c \/ socketLocks'[c] = {}
         /\ calls'[c].pc \in {"idle", "find"}
<1>1. CASE c \in Slots /\ calls' = [calls EXCEPT ![c] = Idle] /\ socketLocks' = socketLocks
  <2>1. calls'[c] = Idle /\ \A d \in Calls \ {c} : calls'[d] = calls[d]
    BY <1>1, Zenon DEF Good, MemoryOK
  <2>2. CallInv(c)' /\ calls'[c].pc = "idle"
    BY <2>1, IdleInv DEF Idle
  <2>3. QED
    BY <1>1, <2>1, <2>2, LockingAssumption, Zenon
<1>2. CASE c \in Sockets /\ NextTicket(c, visited[c])
  <2>1. conn'[c] = "closed"
    BY <1>2, SMTT(60) DEF CallsInv, CallInv, Shape, Looping, Idle
  <2>2. QED
    BY <1>2, <2>1, NextTicketInv, Zenon
<1>3. QED
  BY <1>1, <1>2, Zenon DEF Finish

-----------------------------------------------------------------------------
(* The invariant of the calls, action by action.                           *)

Kept(c) == Frame(c) /\ CallInv(c)'

\* A request or an event comes in.
LEMMA StartInv ==
  ASSUME Good, NEW c \in Slots, NEW op \in RestOps \cup SocketOps, NEW t, NEW u \in MaybeUser,
         NEW s, op \in SocketOps => s \in Sockets,
         op \in RestOps => s = NoSocket /\ u \in Users,
         op = "assign" => Admins # {}, Start(c, op, t, u, s),
         UNCHANGED <<tickets, socketLocks, conn>>
  PROVE  /\ Kept(c)
         /\ calls'[c].pc = "find" /\ calls'[c].ticket = t /\ calls'[c].socket = s
         /\ calls[c].pc = "idle"
<1> DEFINE k == [Idle EXCEPT !.op = op, !.pc = "find", !.ticket = t, !.agent = u, !.socket = s]
<1>1. k.op = op /\ k.pc = "find" /\ k.ticket = t /\ k.agent = u /\ k.socket = s
  BY Zenon DEF Idle
<1>2. calls' = [calls EXCEPT ![c] = k] /\ calls[c].pc = "idle"
  BY Zenon DEF Start, Busy
<1> HIDE DEF k
<1>3. calls'[c] = k /\ \A d \in Calls \ {c} : calls'[d] = calls[d]
  BY <1>2, Zenon DEF Good, MemoryOK, Calls
<1>4. Shape(c, k)
  BY <1>1, LockingAssumption, Zenon DEF Shape, RestOps, SocketOps
<1>5. op # "disconnect"
  BY Zenon DEF RestOps, SocketOps
<1>6. CallInv(c)'
  BY <1>1, <1>3, <1>4, <1>5, Zenon DEF CallInv, Looping, Effect, Settled, Shape
<1>7. QED
  BY <1>1, <1>2, <1>3, <1>6, Zenon DEF Kept, Frame

\* The $set of a save() makes of what was read what the handler assigned.
LEMMA ApplyModified ==
  ASSUME NEW old \in TicketDoc, NEW new \in TicketDoc, new.assignedTo = old.assignedTo
  PROVE  ApplyUpdate(old, ModifiedPaths(old, new)) = new
<1> DEFINE set == ModifiedPaths(old, new)
<1>1. /\ old.status \in Status /\ old.lockedBy \in MaybeUser /\ old.lockedAt \in MaybeDate
      /\ new.status \in Status /\ new.lockedBy \in MaybeUser /\ new.lockedAt \in MaybeDate
      /\ new = [status |-> new.status, lockedBy |-> new.lockedBy,
                lockedAt |-> new.lockedAt, assignedTo |-> new.assignedTo]
  BY Zenon DEF TicketDoc
<1>2. /\ Keep \notin Status /\ Keep \notin MaybeUser /\ Keep \notin MaybeDate
  BY KeepAssumption, Zenon DEF Status, MaybeUser, MaybeDate
<1>3. /\ set.status = Changed(old.status, new.status)
      /\ set.lockedBy = Changed(old.lockedBy, new.lockedBy)
      /\ set.lockedAt = Changed(old.lockedAt, new.lockedAt)
  BY Zenon DEF ModifiedPaths
<1> HIDE DEF set
<1>4. /\ Written(old.status, set.status) = new.status
      /\ Written(old.lockedBy, set.lockedBy) = new.lockedBy
      /\ Written(old.lockedAt, set.lockedAt) = new.lockedAt
  BY <1>1, <1>2, <1>3, Zenon DEF Written, Changed
<1>5. ApplyUpdate(old, set) = new
  BY <1>1, <1>4, Zenon DEF ApplyUpdate
<1>6. QED
  BY <1>5, Zenon DEF set

\* A handler has read its document, and its checks passed.
LEMMA AwaitUpdateInv ==
  ASSUME Good, CallsInv, NEW c \in Calls, calls[c].pc = "find", calls[c].ticket \in Tickets,
         NEW set,
         Handled(calls[c], tickets[calls[c].ticket], ApplyUpdate(tickets[calls[c].ticket], set)),
         AwaitUpdate(c, set), UNCHANGED <<tickets, conn>>
  PROVE  /\ Kept(c)
         /\ calls'[c].pc = "save" /\ calls'[c].ticket = calls[c].ticket
         /\ calls'[c].socket = calls[c].socket /\ socketLocks' = socketLocks
<1> DEFINE t == calls[c].ticket
           k == [calls[c] EXCEPT !.pc = "save", !.set = set]
<1>1. calls[c] \in Call /\ tickets[t] \in TicketDoc
  BY Zenon DEF Good, MemoryOK
<1>2. calls' = [calls EXCEPT ![c] = k] /\ socketLocks' = socketLocks
  BY <1>1, Zenon DEF AwaitUpdate, Good, MemoryOK, Call
<1>3. /\ k.op = calls[c].op /\ k.pc = "save" /\ k.ticket = t /\ k.agent = calls[c].agent
      /\ k.socket = calls[c].socket /\ k.set = set
  BY <1>1, Zenon DEF Call
<1> HIDE DEF k
<1>4. calls'[c] = k /\ \A d \in Calls \ {c} : calls'[d] = calls[d]
  BY <1>2, Zenon DEF Good, MemoryOK
<1>5. CallInv(c) /\ calls[c].op \notin {"none", "assign"} /\ calls[c] # Idle
  BY SMTT(60) DEF CallsInv, CallInv, Shape, Handled, LockOps, UnlockOps, Idle
<1>6. Shape(c, k)
  BY <1>3, <1>5, Zenon DEF CallInv, Shape
<1>7. Effect(k, tickets[t]) /\ Settled(k, tickets[t])
  BY <1>1, <1>3, Zenon DEF Effect, Settled, Handled
<1>8. Looping(c, calls[c])'
  BY <1>2, <1>3, <1>4, <1>5, Zenon DEF CallInv, Looping
<1>9. CallInv(c)'
  BY <1>3, <1>4, <1>6, <1>7, <1>8, Zenon DEF CallInv, Shape
<1>10. QED
  BY <1>2, <1>3, <1>4, <1>9, Zenon DEF Kept, Frame

-----------------------------------------------------------------------------
(* The steps of a call, by what they do.                                   *)

\* It ends with nothing saved that is not announced, or fails.
Ends(c) ==
  /\ calls[c].pc = "find" \/ At(c, "assign", "reply") \/ OperationFails(c)
  /\ Finish(c)
  /\ UNCHANGED <<tickets, conn, announced>>

\* It has read the document and starts a save().
Reads(c) ==
  /\ calls[c].pc = "find" /\ calls[c].ticket \in Tickets
  /\ \E set : /\ Handled(calls[c], tickets[calls[c].ticket],
                        ApplyUpdate(tickets[calls[c].ticket], set))
              /\ AwaitUpdate(c, set)
  /\ UNCHANGED <<tickets, conn, announced>>

\* It broadcasts the holder in the database and ends.
Answers(c) ==
  /\ calls[c].pc = "reply" /\ calls[c].ticket \in Tickets
  /\ announced' = [announced EXCEPT ![calls[c].ticket] = tickets[calls[c].ticket].lockedBy]
  /\ Finish(c)
  /\ UNCHANGED <<tickets, conn>>

\* What the handlers assign leaves the assignment alone.
LEMMA KeepsAssignment ==
  ASSUME NEW doc \in TicketDoc
  PROVE  /\ Unlocked(doc).assignedTo = doc.assignedTo
         /\ Resolved(doc).assignedTo = doc.assignedTo
BY Zenon DEF TicketDoc, Unlocked, Resolved

\* So does a lock, which goes to the caller.
LEMMA LocksForCaller ==
  ASSUME NEW doc \in TicketDoc, NEW u, NEW now
  PROVE  /\ Locked(doc, u, now).assignedTo = doc.assignedTo
         /\ Locked(doc, u, now).lockedBy = u
BY Zenon DEF TicketDoc, Locked

\* The $set of a save() makes of what was read what the handler assigned, also
\* when it unsets the holder of a free ticket.
LEMMA SaveReads ==
  ASSUME Good, NEW c \in Calls, calls[c].pc = "find", calls[c].ticket \in Tickets,
         NEW doc \in TicketDoc, doc.assignedTo = tickets[calls[c].ticket].assignedTo,
         Handled(calls[c], tickets[calls[c].ticket], doc),
         \/ AwaitSave(c, doc)
         \/ AwaitSaveUnset(c, doc) /\ Holder(c) = NoUser /\ doc.lockedBy = NoUser,
         UNCHANGED <<tickets, conn, announced>>
  PROVE  Reads(c)
<1> DEFINE old   == tickets[calls[c].ticket]
           set   == ModifiedPaths(old, doc)
           unset == [set EXCEPT !.lockedBy = NoUser]
<1>1. old \in TicketDoc /\ ApplyUpdate(old, set) = doc
  BY ApplyModified, Zenon DEF Good
<1>2. CASE AwaitSave(c, doc)
  BY <1>1, <1>2, Zenon DEF AwaitSave, Reads
<1>3. CASE AwaitSaveUnset(c, doc) /\ Holder(c) = NoUser /\ doc.lockedBy = NoUser
  <2>1. /\ unset.status = set.status /\ unset.lockedBy = NoUser
        /\ unset.lockedAt = set.lockedAt
    BY Zenon DEF ModifiedPaths
  <2>2. Written(old.lockedBy, NoUser) = old.lockedBy /\ Written(old.lockedBy, set.lockedBy) = NoUser
    BY <1>3, Zenon DEF Written, ModifiedPaths, Changed, Holder
  <2>3. ApplyUpdate(old, unset) = ApplyUpdate(old, set)
    BY <1>1, <1>3, <2>1, <2>2, Zenon DEF ApplyUpdate, Holder
  <2>4. AwaitUpdate(c, unset)
    BY <1>3, Zenon DEF AwaitSaveUnset
  <2>5. QED
    BY <1>1, <2>3, <2>4, Zenon DEF Reads
<1>4. QED
  BY <1>2, <1>3, Zenon

\* The finds of the handlers: checks that fail, or a save().
LEMMA FindKinds ==
  ASSUME Good, CallsInv, NEW c \in Calls,
         \/ NotFound(c) \/ LockTicketFind(c) \/ UnlockTicketFind(c) \/ ResolveTicketFind(c)
         \/ OnLockFind(c) \/ OnUnlockFind(c) \/ DisconnectFind(c) \/ OperationFails(c)
  PROVE  Ends(c) \/ Reads(c)
<1> DEFINE k == calls[c]
           old == tickets[calls[c].ticket]
<1>1. CASE NotFound(c)
  BY <1>1, Zenon DEF NotFound, Ends
<1>2. CASE OperationFails(c)
  BY <1>2, Zenon DEF OperationFails, Ends
<1>3. ASSUME NEW op, Found(c, op), Finish(c), UNCHANGED <<tickets, conn, announced>>
      PROVE  Ends(c)
  BY <1>3, Zenon DEF Found, At, Ends
<1>4. ASSUME NEW op \in LockOps, Found(c, op), Holder(c) \in {NoUser, k.agent},
             NEW now \in Dates,
             \/ AwaitSave(c, Locked(old, k.agent, now))
             \/ /\ AwaitSaveUnset(c, Locked(old, k.agent, now))
                /\ Holder(c) = NoUser /\ k.agent = NoUser,
             UNCHANGED <<tickets, conn, announced>>
      PROVE  Reads(c)
  <2>1. k.op = op /\ k.pc = "find" /\ k.ticket \in Tickets /\ old \in TicketDoc
    BY <1>4, Zenon DEF Found, At, Good
  <2>2. k.agent \in MaybeUser
    BY <2>1, Zenon DEF CallsInv, CallInv, Shape, LockOps
  <2>3. /\ Locked(old, k.agent, now) \in TicketDoc
        /\ Locked(old, k.agent, now).assignedTo = old.assignedTo
        /\ Locked(old, k.agent, now).lockedBy = k.agent
    <3>1. Locked(old, k.agent, now) \in TicketDoc
      BY <2>1, <2>2, LockedOK, Zenon
    <3>2. QED
      BY <2>1, <3>1, LocksForCaller, SMTT(30)
  <2>4. Handled(k, old, Locked(old, k.agent, now))
    BY <1>4, <2>1, Zenon DEF Handled, Holder
  <2>5. QED
    BY <1>4, <2>1, <2>3, <2>4, SaveReads, Zenon
<1>5. ASSUME NEW op \in UnlockOps \cup {"disconnect"}, Found(c, op),
             op \in UnlockOps => /\ k.agent \in Users
                                 /\ Holder(c) = k.agent \/ k.agent \in Admins,
             AwaitSave(c, Unlocked(old)), UNCHANGED <<tickets, conn, announced>>
      PROVE  Reads(c)
  <2>1. k.op = op /\ k.pc = "find" /\ k.ticket \in Tickets /\ old \in TicketDoc
    BY <1>5, Zenon DEF Found, At, Good
  <2>2. Unlocked(old) \in TicketDoc /\ Unlocked(old).assignedTo = old.assignedTo
    BY <2>1, ReleasesOK, KeepsAssignment, Zenon
  <2>3. Handled(k, old, Unlocked(old))
    BY <1>5, <2>1, Zenon DEF Handled, Holder
  <2>4. QED
    BY <1>5, <2>1, <2>2, <2>3, SaveReads, Zenon
<1>6. CASE ResolveTicketFind(c)
  <2>1. k.op = "resolve" /\ k.pc = "find" /\ k.ticket \in Tickets /\ old \in TicketDoc
    BY <1>6, Zenon DEF ResolveTicketFind, Found, At, Good
  <2>2. Resolved(old) \in TicketDoc /\ Resolved(old).assignedTo = old.assignedTo
    BY <2>1, ReleasesOK, KeepsAssignment, Zenon
  <2>3. Handled(k, old, Resolved(old))
    BY <2>1, Zenon DEF Handled
  <2>4. QED
    BY <1>6, <2>1, <2>2, <2>3, SaveReads, Zenon DEF ResolveTicketFind
<1>7. CASE LockTicketFind(c)
  BY <1>3, <1>4, <1>7, Zenon DEF LockTicketFind, LockOps
<1>8. CASE OnLockFind(c)
  BY <1>3, <1>4, <1>8, Zenon DEF OnLockFind, LockOps
<1>a. CallInv(c)
  BY Zenon DEF CallsInv
<1>9. CASE UnlockTicketFind(c)
  <2>1. k.agent \in Users
    BY <1>a, <1>9, Zenon DEF UnlockTicketFind, Found, At, CallInv, Shape, RestOps
  <2>2. QED
    BY <1>3, <1>5, <1>9, <2>1, Zenon DEF UnlockTicketFind, UnlockOps
<1>10. CASE OnUnlockFind(c)
  <2>1. k.agent \in MaybeUser
    BY <1>a, <1>10, Zenon DEF OnUnlockFind, Found, At, CallInv, Shape
  <2>2. QED
    BY <1>3, <1>5, <1>10, <2>1, Zenon DEF OnUnlockFind, UnlockOps, MaybeUser
<1>11. CASE DisconnectFind(c)
  BY <1>5, <1>11, Zenon DEF DisconnectFind, UnlockOps
<1>12. QED
  BY <1>1, <1>2, <1>6, <1>7, <1>8, <1>9, <1>10, <1>11, Zenon

\* The replies that end a call or a round of a loop.
LEMMA ReplyKinds ==
  ASSUME Good, CallsInv, NEW c \in Calls,
         \/ LockTicketReply(c) \/ UnlockTicketReply(c) \/ ResolveTicketReply(c)
         \/ AssignTicketReply(c) \/ DisconnectReply(c)
  PROVE  Ends(c) \/ Answers(c)
<1>1. CASE AssignTicketReply(c)
  BY <1>1, Zenon DEF AssignTicketReply, Ends
<1>2. CASE ~AssignTicketReply(c)
  <2>1. calls[c].pc = "reply" /\ calls[c].ticket \in Tickets
    BY <1>2, Zenon DEF Good, MemoryOK, PendingOK, CallOK, At, LockTicketReply,
      UnlockTicketReply, ResolveTicketReply, DisconnectReply
  <2>2. Settled(calls[c], tickets[calls[c].ticket])
    BY <2>1, Zenon DEF CallsInv, CallInv
  <2>3. announced' = [announced EXCEPT ![calls[c].ticket] = tickets[calls[c].ticket].lockedBy]
    BY <1>2, <2>1, <2>2, Zenon DEF Settled, LockOps, UnlockOps, Broadcast, At,
      LockTicketReply, UnlockTicketReply, ResolveTicketReply, DisconnectReply
  <2>4. Finish(c) /\ UNCHANGED <<tickets, conn>>
    BY <1>2, Zenon DEF LockTicketReply, UnlockTicketReply, ResolveTicketReply,
      DisconnectReply
  <2>5. QED
    BY <2>1, <2>3, <2>4, Zenon DEF Answers
<1>3. QED
  BY <1>1, <1>2, Zenon

\* A save() that is applied does to the stored document what its handler meant.
LEMMA SaveApplies ==
  ASSUME Good, CallsInv, NEW c \in Calls, Save(c) \/ AcknowledgementLost(c)
  PROVE  /\ calls[c].pc = "save" /\ calls[c].ticket \in Tickets
         /\ Handled(calls[c], tickets[calls[c].ticket], tickets'[calls[c].ticket])
         /\ \A t \in Tickets \ {calls[c].ticket} : tickets'[t] = tickets[t]
         /\ tickets' = [tickets EXCEPT ![calls[c].ticket] = tickets'[calls[c].ticket]]
<1> DEFINE t == calls[c].ticket
<1>1. calls[c].pc = "save" /\ t \in Tickets
  BY Zenon DEF Save, AcknowledgementLost, Good, MemoryOK, PendingOK, CallOK
<1>2. tickets' = [tickets EXCEPT ![t] = ApplyUpdate(tickets[t], calls[c].set)]
  BY <1>1, Zenon DEF Save, AcknowledgementLost, Good
<1>3. Effect(calls[c], tickets[t])
  BY <1>1, Zenon DEF CallsInv, CallInv
<1>4. Handled(calls[c], tickets[t], ApplyUpdate(tickets[t], calls[c].set))
  BY <1>1, <1>3, Zenon DEF Effect
<1>5. /\ tickets'[t] = ApplyUpdate(tickets[t], calls[c].set)
      /\ \A u \in Tickets \ {t} : tickets'[u] = tickets[u]
  BY <1>1, <1>2, Zenon DEF Good
<1>6. QED
  BY <1>1, <1>2, <1>4, <1>5, Zenon

\* The holder a handler leaves is the one its reply broadcasts.
LEMMA HandledHolder ==
  ASSUME NEW k, NEW old \in TicketDoc, NEW new, Handled(k, old, new)
  PROVE  /\ k.op \in LockOps => new.lockedBy = k.agent
         /\ k.op \in UnlockOps \cup {"resolve", "disconnect"} => new.lockedBy = NoUser
         /\ k.op # "assign"
<1>1. /\ Unlocked(old).lockedBy = NoUser /\ Resolved(old).lockedBy = NoUser
      /\ \A u, now : Locked(old, u, now).lockedBy = u
  BY Zenon DEF Unlocked, Resolved, Locked, TicketDoc
<1>2. QED
  BY <1>1, Zenon DEF Handled, LockOps, UnlockOps

\* The save() was applied and acknowledged.
LEMMA SaveInv ==
  ASSUME Good, CallsInv, NEW c \in Calls, Save(c)
  PROVE  /\ Kept(c)
         /\ calls'[c].ticket = calls[c].ticket /\ calls'[c].socket = calls[c].socket
         /\ calls'[c].pc = "reply" /\ calls'[c].op = calls[c].op
<1> DEFINE t == calls[c].ticket
           k == [calls[c] EXCEPT !.pc = "reply", !.set = NoUpdate]
<1>1. /\ calls[c].pc = "save" /\ t \in Tickets /\ Handled(calls[c], tickets[t], tickets'[t])
      /\ \A u \in Tickets \ {t} : tickets'[u] = tickets[u]
  BY SaveApplies, Zenon
<1>2. calls[c] \in Call /\ tickets[t] \in TicketDoc /\ CallInv(c)
  BY <1>1, Zenon DEF Good, MemoryOK, CallsInv
<1>3. calls' = [calls EXCEPT ![c] = k] /\ UNCHANGED <<socketLocks, conn>>
  BY <1>2, Zenon DEF Save, Good, MemoryOK, Call
<1>4. /\ k.op = calls[c].op /\ k.pc = "reply" /\ k.ticket = t /\ k.agent = calls[c].agent
      /\ k.socket = calls[c].socket
  BY <1>2, Zenon DEF Call
<1> HIDE DEF k
<1>5. calls'[c] = k /\ \A d \in Calls \ {c} : calls'[d] = calls[d]
  BY <1>3, Zenon DEF Good, MemoryOK
<1>6. Shape(c, k)
  BY <1>1, <1>2, <1>4, SMTT(60) DEF CallInv, Shape, Idle
<1>7. Effect(k, tickets'[t]) /\ Settled(k, tickets'[t])
  BY <1>1, <1>2, <1>4, HandledHolder, SMTT(60) DEF Effect, Settled
<1>8. Looping(c, calls[c])'
  BY <1>2, <1>3, <1>4, <1>5, Zenon DEF CallInv, Looping
<1>9. CallInv(c)'
  BY <1>4, <1>5, <1>6, <1>7, <1>8, Zenon DEF CallInv, Shape
<1>10. QED
  BY <1>1, <1>3, <1>4, <1>5, <1>9, Zenon DEF Kept, Frame

\* A call ends: in the database only its own ticket may have changed.
LEMMA EndInv ==
  ASSUME Good, CallsInv, NEW c \in Calls,
         Ends(c) \/ Answers(c) \/ AcknowledgementLost(c)
  PROVE  /\ Kept(c)
         /\ calls[c].pc # "idle"
         /\ calls'[c].pc \in {"idle", "find"}
         /\ \A r \in Sockets \ {c} : socketLocks'[r] = socketLocks[r]
         /\ c \in Sockets => calls'[c].socket = c \/ socketLocks'[c] = {}
         /\ conn' = conn
<1>1. calls[c].pc # "idle" /\ Finish(c) /\ conn' = conn
  BY Zenon DEF Ends, Answers, AcknowledgementLost, OperationFails, At
<1>2. \A t \in Tickets \ {calls[c].ticket} : tickets'[t] = tickets[t]
  BY SaveApplies, Zenon DEF Ends, Answers
<1>3. QED
  BY <1>1, <1>2, FinishInv, Zenon DEF Kept, Frame

\* The socket handlers answer; their socket is still connected.
LEMMA SocketReplyInv ==
  ASSUME Good, NoOverlap, CallsInv, NEW c \in Calls, OnLockReply(c) \/ OnUnlockReply(c)
  PROVE  /\ Kept(c)
         /\ c \in Slots /\ conn[calls[c].socket] = "open" /\ calls[c].socket \in Sockets
         /\ calls'[c] = Idle
         /\ calls[c].pc = "reply" /\ calls[c].ticket \in Tickets
         /\ announced' = [announced EXCEPT ![calls[c].ticket] =
                                             tickets[calls[c].ticket].lockedBy]
<1> DEFINE s == calls[c].socket
<1>1. calls[c].op \in SocketOps /\ calls[c].pc = "reply"
  BY Zenon DEF OnLockReply, OnUnlockReply, At, SocketOps
<1>2. s \in Sockets /\ c \in Slots
  BY <1>1, SMTT(60) DEF CallsInv, CallInv, Shape, Calls, Idle, SocketOps
<1>3. conn[s] = "open"
  BY <1>2, Zenon DEF NoOverlap
<1>4. /\ calls'[c] = Idle /\ \A d \in Calls \ {c} : calls'[d] = calls[d]
      /\ UNCHANGED <<tickets, conn>>
      /\ \A r \in Sockets \ {s} : socketLocks'[r] = socketLocks[r]
  BY Zenon DEF OnLockReply, OnUnlockReply, Good, MemoryOK
<1>5. CallInv(c)'
  BY <1>4, IdleInv, Zenon
<1>6. Frame(c)
  BY <1>3, <1>4, Zenon DEF Frame
<1>7. calls[c].ticket \in Tickets /\ Settled(calls[c], tickets[calls[c].ticket])
  BY <1>1, Zenon DEF Good, MemoryOK, PendingOK, CallOK, CallsInv, CallInv
<1>8. announced' = [announced EXCEPT ![calls[c].ticket] = tickets[calls[c].ticket].lockedBy]
  BY <1>1, <1>7, Zenon DEF Settled, OnLockReply, OnUnlockReply, At, Broadcast, LockOps,
    UnlockOps
<1>9. QED
  BY <1>1, <1>2, <1>3, <1>4, <1>5, <1>6, <1>7, <1>8, Zenon DEF Kept

\* assignTicket's update in the database.
LEMMA AssignInv ==
  ASSUME Good, CallsInv, NEW c \in Calls, AssignTicketUpdate(c)
  PROVE  /\ Kept(c)
         /\ calls[c].pc = "find" /\ calls'[c].ticket = calls[c].ticket
         /\ calls'[c].socket = calls[c].socket /\ calls[c].ticket \in Tickets
         /\ calls[c].agent \in Users /\ Admins # {}
         /\ tickets' = [tickets EXCEPT ![calls[c].ticket] =
                          Assigned(tickets[calls[c].ticket], calls[c].agent)]
         /\ UNCHANGED <<socketLocks, conn, announced>>
<1> DEFINE t == calls[c].ticket
           k == [calls[c] EXCEPT !.pc = "reply"]
<1>1. calls[c].op = "assign" /\ calls[c].pc = "find" /\ t \in Tickets
  BY Zenon DEF AssignTicketUpdate, Found, At
<1>2. calls[c] \in Call /\ CallInv(c)
  BY Zenon DEF Good, MemoryOK, CallsInv
<1>3. calls' = [calls EXCEPT ![c] = k] /\ UNCHANGED <<socketLocks, conn, announced>>
  BY <1>2, Zenon DEF AssignTicketUpdate, Good, MemoryOK, Call
<1>4. /\ k.op = "assign" /\ k.pc = "reply" /\ k.ticket = t /\ k.agent = calls[c].agent
      /\ k.socket = calls[c].socket
  BY <1>1, <1>2, Zenon DEF Call
<1> HIDE DEF k
<1>5. calls'[c] = k /\ \A d \in Calls \ {c} : calls'[d] = calls[d]
  BY <1>3, Zenon DEF Good, MemoryOK
<1>6. Shape(c, k) /\ Admins # {} /\ calls[c].agent \in Users
  BY <1>1, <1>2, <1>4, SMTT(60) DEF CallInv, Shape, Idle, RestOps
<1>7. \A doc : Effect(k, doc) /\ Settled(k, doc)
  BY <1>4, Zenon DEF Effect, Settled, LockOps, UnlockOps
<1>8. CallInv(c)'
  BY <1>4, <1>5, <1>6, <1>7, Zenon DEF CallInv, Shape, Looping
<1>9. tickets' = [tickets EXCEPT ![t] = Assigned(tickets[t], calls[c].agent)]
  BY <1>1, Zenon DEF AssignTicketUpdate, Good
<1>10. QED
  BY <1>1, <1>3, <1>4, <1>5, <1>6, <1>8, <1>9, Zenon DEF Kept, Frame, Good

-----------------------------------------------------------------------------
(* What the steps of a call do to the tickets, the tracking and what the   *)
(* agents were told.                                                       *)

\* A socket that has disconnected has no handler but the loop of its disconnect.
LEMMA CleanedKept ==
  ASSUME NoOverlap, CallsInv, CleanedUp, NEW c \in Calls, Frame(c),
         \A s \in Sockets \ {c} : conn'[s] = "closed" => conn[s] = "closed",
         c \in Sockets => \/ calls'[c].socket = c
                          \/ socketLocks'[c] = {}
                          \/ /\ conn' = conn /\ socketLocks' = socketLocks
                             /\ calls'[c].socket = calls[c].socket
  PROVE  CleanedUp'
<1> SUFFICES ASSUME NEW s \in Sockets, conn'[s] = "closed",
                    \A d \in Calls : calls'[d].socket # s
             PROVE  socketLocks'[s] = {}
  BY Zenon DEF CleanedUp
<1>1. \A d \in Calls \ {c} : calls[d].socket # s
  BY Zenon DEF Frame
<1>2. CASE s = c
  BY <1>1, <1>2, Zenon DEF CleanedUp
<1>3. CASE s # c
  <2>1. conn[s] = "closed" /\ socketLocks'[s] = socketLocks[s]
    BY <1>3, Zenon DEF Frame
  <2>2. calls[c].socket # s
    BY <1>3, <2>1, LockingAssumption, SMTT(60) DEF NoOverlap, CallsInv, CallInv, Shape, Idle, Calls
  <2>3. QED
    BY <1>1, <2>1, <2>2, Zenon DEF CleanedUp
<1>4. QED
  BY <1>2, <1>3, Zenon

\* Nothing is saved and no reply is given.
LEMMA AnnouncedKept ==
  ASSUME AnnouncedInv, clean' => clean, NEW c \in Calls,
         \A d \in Calls \ {c} : calls'[d] = calls[d], UNCHANGED <<tickets, announced>>,
         calls[c].pc # "reply" \/ calls[c].op = "assign"
  PROVE  AnnouncedInv'
<1> SUFFICES ASSUME clean', NEW t \in Tickets, announced[t] # tickets[t].lockedBy
             PROVE  \E d \in Calls : /\ calls'[d].ticket = t
                                     /\ calls'[d].pc = "reply" /\ calls'[d].op # "assign"
  BY Zenon DEF AnnouncedInv
<1>1. PICK d \in Calls : calls[d].ticket = t /\ calls[d].pc = "reply" /\ calls[d].op # "assign"
  BY Zenon DEF AnnouncedInv
<1>2. QED
  BY <1>1, Zenon

\* A call that is answered tells the holder of its ticket.
LEMMA AnnouncedTold ==
  ASSUME Good, AnnouncedInv, clean' => clean, NEW c \in Calls, Frame(c), tickets' = tickets,
         calls[c].ticket \in Tickets,
         announced' = [announced EXCEPT ![calls[c].ticket] = tickets[calls[c].ticket].lockedBy]
  PROVE  AnnouncedInv'
<1> SUFFICES ASSUME clean', NEW t \in Tickets, announced'[t] # tickets[t].lockedBy
             PROVE  \E d \in Calls : /\ calls'[d].ticket = t
                                     /\ calls'[d].pc = "reply" /\ calls'[d].op # "assign"
  BY SMTT(60) DEF AnnouncedInv
<1>1. t # calls[c].ticket /\ announced'[t] = announced[t]
  BY Zenon DEF Good
<1>2. PICK d \in Calls : calls[d].ticket = t /\ calls[d].pc = "reply" /\ calls[d].op # "assign"
  BY <1>1, Zenon DEF AnnouncedInv
<1>3. QED
  BY <1>1, <1>2, Zenon DEF Frame

\* A save() is announced by the reply that is due.
LEMMA AnnouncedDue ==
  ASSUME Good, CallsInv, AnnouncedInv, clean' => clean, NEW c \in Calls, Save(c)
  PROVE  AnnouncedInv'
<1>1. /\ Frame(c) /\ calls'[c].ticket = calls[c].ticket
      /\ calls'[c].pc = "reply" /\ calls'[c].op = calls[c].op
  BY SaveInv, Zenon DEF Kept
<1>2. /\ calls[c].ticket \in Tickets
      /\ Handled(calls[c], tickets[calls[c].ticket], tickets'[calls[c].ticket])
  BY SaveApplies, Zenon
<1>3. calls[c].op # "assign"
  BY <1>2, HandledHolder, Zenon DEF Good
<1>4. announced' = announced
  BY Zenon DEF Save
<1> SUFFICES ASSUME clean', NEW t \in Tickets, announced[t] # tickets'[t].lockedBy,
                    t # calls[c].ticket
             PROVE  \E d \in Calls : /\ calls'[d].ticket = t
                                     /\ calls'[d].pc = "reply" /\ calls'[d].op # "assign"
  BY <1>1, <1>3, <1>4, Zenon DEF AnnouncedInv
<1>5. tickets'[t] = tickets[t]
  BY <1>1, Zenon DEF Frame
<1>6. PICK d \in Calls : calls[d].ticket = t /\ calls[d].pc = "reply" /\ calls[d].op # "assign"
  BY <1>5, Zenon DEF AnnouncedInv
<1>7. QED
  BY <1>1, <1>6, Zenon DEF Frame

\* assignTicket does not touch the lock.
LEMMA AnnouncedAssign ==
  ASSUME Good, CallsInv, AnnouncedInv, clean' => clean, NEW c \in Calls, AssignTicketUpdate(c)
  PROVE  AnnouncedInv'
<1> DEFINE t == calls[c].ticket
<1>1. /\ Frame(c) /\ calls[c].pc = "find" /\ t \in Tickets /\ announced' = announced
      /\ tickets' = [tickets EXCEPT ![t] = Assigned(tickets[t], calls[c].agent)]
  BY AssignInv, Zenon DEF Kept
<1>2. Assigned(tickets[t], calls[c].agent).lockedBy = tickets[t].lockedBy
  BY <1>1, Zenon DEF Good, TicketDoc, Assigned
<1>3. \A u \in Tickets : tickets'[u].lockedBy = tickets[u].lockedBy
  BY <1>1, <1>2, Zenon DEF Good
<1> SUFFICES ASSUME clean', NEW u \in Tickets, announced[u] # tickets[u].lockedBy
             PROVE  \E d \in Calls : /\ calls'[d].ticket = u
                                     /\ calls'[d].pc = "reply" /\ calls'[d].op # "assign"
  BY <1>1, <1>3, SMTT(60) DEF AnnouncedInv
<1>4. PICK d \in Calls : calls[d].ticket = u /\ calls[d].pc = "reply" /\ calls[d].op # "assign"
  BY Zenon DEF AnnouncedInv
<1>5. QED
  BY <1>1, <1>4, Zenon DEF Frame

-----------------------------------------------------------------------------
(* The operations of TicketDesk.                                           *)

NeverReconnects == \A s \in Sockets : conn[s] = "closed" => conn'[s] = "closed"

\* A step that leaves the tickets alone is a step of the desk.
LEMMA DeskQuiet ==
  ASSUME NeverReconnects, tickets' = tickets
  PROVE  Desk!Next
BY Zenon DEF NeverReconnects, Desk!Next

\* A save() that reaches the database is one operation of the desk.
LEMMA DeskSaves ==
  ASSUME Good, CallsInv, NEW c \in Calls, Save(c) \/ AcknowledgementLost(c)
  PROVE  Desk!Next
<1> DEFINE t == calls[c].ticket
           u == calls[c].agent
<1>1. /\ calls[c].pc = "save" /\ t \in Tickets /\ Handled(calls[c], tickets[t], tickets'[t])
      /\ tickets' = [tickets EXCEPT ![t] = tickets'[t]]
  BY SaveApplies, Zenon
<1>2. {s \in Sockets : conn[s] = "closed"} \subseteq {s \in Sockets : conn'[s] = "closed"}
  BY Zenon DEF Save, AcknowledgementLost
<1>3. Shape(c, calls[c]) /\ Looping(c, calls[c])
  BY Zenon DEF CallsInv, CallInv
<1>4. CASE /\ calls[c].op \in LockOps
           /\ tickets[t].lockedBy \in {NoUser, u}
           /\ \E now \in Dates : tickets'[t] = Locked(tickets[t], u, now)
  <2>1. u \in MaybeUser
    BY <1>3, <1>4, Zenon DEF Shape, LockOps
  <2>2. Desk!Lock(t, u)
    BY <1>1, <1>4, Zenon DEF Desk!Lock, Desk!Becomes, Desk!Locked, Locked
  <2>3. QED
    BY <1>1, <1>2, <2>1, <2>2, Zenon DEF Desk!Next, Desk!MaybeUser, MaybeUser
<1>5. CASE /\ calls[c].op \in UnlockOps
           /\ u \in Users
           /\ tickets[t].lockedBy = u \/ u \in Admins
           /\ tickets'[t] = Unlocked(tickets[t])
  <2>2. Desk!Unlock(t, u)
    BY <1>1, <1>5, Zenon DEF Desk!Unlock, Desk!Becomes, Desk!Unlocked, Unlocked
  <2>3. QED
    BY <1>1, <1>2, <1>5, <2>2, Zenon DEF Desk!Next
<1>6. CASE calls[c].op = "resolve" /\ tickets'[t] = Resolved(tickets[t])
  <2>1. Desk!Resolve(t)
    BY <1>1, <1>6, Zenon DEF Desk!Resolve, Desk!Becomes, Desk!Resolved, Resolved,
      Desk!Unlocked, Unlocked
  <2>2. QED
    BY <1>1, <1>2, <2>1, Zenon DEF Desk!Next
<1>7. CASE calls[c].op = "disconnect" /\ tickets'[t] = Unlocked(tickets[t])
  <2>1. c \in Sockets /\ conn[c] = "closed" /\ t \in socketLocks[c]
    BY <1>3, <1>7, Zenon DEF Shape, Looping, Calls
  <2>2. Desk!AutoUnlock(t, c)
    BY <1>1, <1>7, <2>1, Zenon DEF Desk!AutoUnlock, Desk!Becomes, Desk!Unlocked, Unlocked
  <2>3. QED
    BY <1>1, <1>2, <2>1, <2>2, Zenon DEF Desk!Next
<1>8. QED
  BY <1>1, <1>4, <1>5, <1>6, <1>7, Zenon DEF Handled

\* An operation of the desk dates the lock it gives, and takes the holder with
\* the date.
LEMMA DeskDates ==
  ASSUME Good, HeldIsDated, Desk!Next
  PROVE  HeldIsDated'
<1> USE DEF Desk!Becomes
<1>1. ASSUME NEW t \in Tickets, NEW doc, tickets' = [tickets EXCEPT ![t] = doc],
             doc.lockedBy # NoUser => doc.lockedAt # NoDate
      PROVE  HeldIsDated'
  BY <1>1, Zenon DEF Good, HeldIsDated
<1>2. ASSUME NEW t \in Tickets, NEW u \in Desk!MaybeUser, Desk!Lock(t, u) PROVE HeldIsDated'
  <2>1. PICK now \in Dates : tickets' = [tickets EXCEPT ![t] = Desk!Locked(tickets[t], u, now)]
    BY <1>2, Zenon DEF Desk!Lock
  <2>2. /\ Desk!Locked(tickets[t], u, now).lockedBy = u
        /\ Desk!Locked(tickets[t], u, now).lockedAt = now
    BY Zenon DEF Good, TicketDoc, Desk!Locked
  <2>3. QED
    BY <1>1, <2>1, <2>2, NullsAssumption, Zenon
<1>3. ASSUME NEW t \in Tickets
      PROVE  /\ Desk!Unlocked(tickets[t]).lockedBy = NoUser
             /\ Desk!Unlocked(tickets[t]).lockedAt = NoDate
             /\ Desk!Resolved(tickets[t]).lockedBy = NoUser
             /\ Desk!Resolved(tickets[t]).lockedAt = NoDate
  BY Zenon DEF Good, TicketDoc, Desk!Unlocked, Desk!Resolved
<1>4. ASSUME NEW t \in Tickets, NEW u \in Users, Desk!Unlock(t, u) PROVE HeldIsDated'
  BY <1>1, <1>3, <1>4, Zenon DEF Desk!Unlock
<1>5. ASSUME NEW t \in Tickets, Desk!Resolve(t) PROVE HeldIsDated'
  BY <1>1, <1>3, <1>5, Zenon DEF Desk!Resolve
<1>6. ASSUME NEW t \in Tickets, NEW s \in Sockets, Desk!AutoUnlock(t, s) PROVE HeldIsDated'
  BY <1>1, <1>3, <1>6, Zenon DEF Desk!AutoUnlock
<1>7. ASSUME NEW t \in Tickets, NEW u \in Users, Desk!Assign(t, u) PROVE HeldIsDated'
  <2>1. /\ Desk!Assigned(tickets[t], u).lockedBy = tickets[t].lockedBy
        /\ Desk!Assigned(tickets[t], u).lockedAt = tickets[t].lockedAt
    BY Zenon DEF Good, TicketDoc, Desk!Assigned
  <2>2. tickets[t].lockedBy # NoUser => tickets[t].lockedAt # NoDate
    BY Zenon DEF HeldIsDated
  <2>3. QED
    BY <1>1, <1>7, <2>1, <2>2, Zenon DEF Desk!Assign
<1>8. CASE tickets' = tickets
  BY <1>8, Zenon DEF HeldIsDated
<1>9. QED
  BY <1>2, <1>4, <1>5, <1>6, <1>7, <1>8, Zenon DEF Desk!Next

-----------------------------------------------------------------------------
(* Every step.                                                             *)

\* What a step leaves of the invariant, and that it is one of the desk's.
Result == CallsInv' /\ CleanedUp' /\ AnnouncedInv' /\ Desk!Next

\* A request or a socket event comes in.
LEMMA RequestResult ==
  ASSUME SerialInv, clean' => clean, NEW c \in Slots, RestRequest(c) \/ SocketEvent(c)
  PROVE  Result
<1>1. /\ Kept(c) /\ calls[c].pc = "idle"
      /\ UNCHANGED <<tickets, socketLocks, conn, announced>>
  <2>1. CASE RestRequest(c)
    <3>1. PICK op \in RestOps, t \in Tickets \cup {NoTicket}, u \in Users :
            /\ op = "assign" => Admins # {}
            /\ Start(c, op, t, u, NoSocket)
      BY <2>1, Zenon DEF RestRequest
    <3>2. UNCHANGED <<tickets, socketLocks, conn, announced>>
      BY <2>1, Zenon DEF RestRequest
    <3>3. op \notin SocketOps /\ u \in MaybeUser
      BY Zenon DEF RestOps, SocketOps, MaybeUser
    <3>4. QED
      BY <3>1, <3>2, <3>3, StartInv, Zenon DEF SerialInv
  <2>2. CASE SocketEvent(c)
    <3>1. PICK op \in SocketOps, t \in Tickets \cup {NoTicket}, claim \in Claims :
            Start(c, op, t, claim[2], claim[1])
      BY <2>2, Zenon DEF SocketEvent
    <3>2. UNCHANGED <<tickets, socketLocks, conn, announced>>
      BY <2>2, Zenon DEF SocketEvent
    <3>3. op \notin RestOps /\ op # "assign" /\ claim[1] \in Sockets /\ claim[2] \in MaybeUser
      BY LockingAssumption, Zenon DEF RestOps, SocketOps
    <3>4. QED
      BY <3>1, <3>2, <3>3, StartInv, SMTT(60) DEF SerialInv
  <2>3. QED
    BY <2>1, <2>2, Zenon
<1>2. c \in Calls /\ c \notin Sockets
  BY LockingAssumption, Zenon DEF Calls
<1>3. CallsInv' /\ CleanedUp'
  BY <1>1, <1>2, FrameOK, CleanedKept, Zenon DEF SerialInv, Kept
<1>4. AnnouncedInv'
  BY <1>1, <1>2, AnnouncedKept, Zenon DEF SerialInv, Kept, Frame
<1>5. Desk!Next
  BY <1>1, DeskQuiet, Zenon DEF NeverReconnects
<1>6. QED
  BY <1>3, <1>4, <1>5, Zenon DEF Result

\* A socket connects, or disconnects and starts its loop.
LEMMA ConnectionResult ==
  ASSUME SerialInv, clean' => clean, NEW s \in Sockets, Connect(s) \/ Disconnect(s)
  PROVE  Result
<1>1. CASE Connect(s)
  <2>1. /\ UNCHANGED <<tickets, calls, socketLocks, announced>>
        /\ \A r \in Sockets : conn'[r] = "closed" <=> conn[r] = "closed"
    BY <1>1, Zenon DEF Connect, SerialInv, Good
  <2>2. CallsInv'
    <3> SUFFICES ASSUME NEW c \in Calls PROVE CallInv(c)'
      BY Zenon DEF CallsInv
    <3>1. CallInv(c)
      BY Zenon DEF SerialInv, CallsInv
    <3>2. calls[c].op = "disconnect" => c \in Sockets
      BY <3>1, Zenon DEF CallInv, Shape, Calls
    <3>3. QED
      BY <2>1, <3>1, <3>2, Zenon DEF CallInv, Shape, Looping
  <2>3. CleanedUp' /\ AnnouncedInv'
    BY <2>1, ZenonT(60) DEF SerialInv, CleanedUp, AnnouncedInv
  <2>4. Desk!Next
    BY <2>1, DeskQuiet, Zenon DEF NeverReconnects
  <2>5. QED
    BY <2>2, <2>3, <2>4, Zenon DEF Result
<1>2. CASE Disconnect(s)
  <2>1. /\ conn[s] = "open" /\ conn' = [conn EXCEPT ![s] = "closed"] /\ NextTicket(s, {})
        /\ UNCHANGED <<tickets, announced>>
    BY <1>2, Zenon DEF Disconnect
  <2>2. /\ conn'[s] = "closed" /\ \A r \in Sockets \ {s} : conn'[r] = conn[r]
    BY <2>1, Zenon DEF SerialInv, Good
  <2>3. Kept(s) /\ (calls'[s].socket = s \/ socketLocks'[s] = {})
    BY <2>1, <2>2, NextTicketInv, Zenon DEF SerialInv, Kept, Frame
  <2>4. s \in Calls /\ calls[s].pc # "reply"
    BY <2>1, SMTT(60) DEF Calls, SerialInv, CallsInv, CallInv, Shape, Looping, Idle
  <2>5. CallsInv' /\ CleanedUp'
    BY <2>2, <2>3, <2>4, FrameOK, CleanedKept, Zenon DEF SerialInv, Kept
  <2>6. AnnouncedInv'
    BY <2>1, <2>3, <2>4, AnnouncedKept, Zenon DEF SerialInv, Kept, Frame
  <2>7. Desk!Next
    BY <2>1, <2>2, DeskQuiet, Zenon DEF NeverReconnects
  <2>8. QED
    BY <2>5, <2>6, <2>7, Zenon DEF Result
<1>3. QED
  BY <1>1, <1>2, Zenon

\* The process dies: it forgets every call and what it tracked.
LEMMA CrashResult ==
  ASSUME SerialInv, clean' => ~Failure, Crash
  PROVE  Result
<1>1. CallsInv'
  BY IdleInv, Zenon DEF Crash, CallsInv
<1>2. CleanedUp'
  BY Zenon DEF Crash, CleanedUp
<1>3. AnnouncedInv'
  BY Zenon DEF AnnouncedInv, Failure
<1>4. Desk!Next
  BY DeskQuiet, Zenon DEF Crash, NeverReconnects
<1>5. QED
  BY <1>1, <1>2, <1>3, <1>4, Zenon DEF Result

\* A call goes on.
LEMMA ProgressResult ==
  ASSUME SerialInv, clean' => clean /\ ~Failure, NEW c \in Calls, Progress(c)
  PROVE  Result
<1> USE DEF SerialInv
<1>1. \/ Ends(c) \/ Reads(c) \/ Answers(c) \/ Save(c) \/ AcknowledgementLost(c)
      \/ OnLockReply(c) \/ OnUnlockReply(c) \/ AssignTicketUpdate(c)
  BY FindKinds, ReplyKinds, Zenon DEF Progress
<1>2. CASE Ends(c) \/ Answers(c) \/ AcknowledgementLost(c)
  <2>1. /\ Kept(c) /\ conn' = conn
        /\ c \in Sockets => calls'[c].socket = c \/ socketLocks'[c] = {}
    BY <1>2, EndInv, Zenon
  <2>2. CallsInv' /\ CleanedUp'
    BY <2>1, FrameOK, CleanedKept, Zenon DEF Kept
  <2>3. AnnouncedInv'
    <3>1. CASE OperationFails(c) \/ AcknowledgementLost(c)
      BY <3>1, Zenon DEF Failure, AnnouncedInv
    <3>2. CASE Answers(c)
      BY <2>1, <3>2, AnnouncedTold, Zenon DEF Answers, Kept
    <3>3. CASE Ends(c) /\ ~OperationFails(c)
      <4>1. calls[c].pc # "reply" \/ calls[c].op = "assign"
        BY <3>3, Zenon DEF Ends, At
      <4>2. UNCHANGED <<tickets, announced>>
        BY <3>3, Zenon DEF Ends
      <4>3. QED
        BY <2>1, <4>1, <4>2, AnnouncedKept, Zenon DEF Kept, Frame
    <3>4. QED
      BY <1>2, <3>1, <3>2, <3>3, Zenon
  <2>4. Desk!Next
    BY <1>2, <2>1, DeskQuiet, DeskSaves, Zenon DEF Ends, Answers, NeverReconnects
  <2>5. QED
    BY <2>2, <2>3, <2>4, Zenon DEF Result
<1>3. CASE Reads(c)
  <2>1. PICK set : /\ Handled(calls[c], tickets[calls[c].ticket],
                              ApplyUpdate(tickets[calls[c].ticket], set))
                   /\ AwaitUpdate(c, set)
    BY <1>3, Zenon DEF Reads
  <2>2. /\ calls[c].pc = "find" /\ calls[c].ticket \in Tickets
        /\ UNCHANGED <<tickets, conn, announced>>
    BY <1>3, Zenon DEF Reads
  <2>3. Kept(c) /\ calls'[c].socket = calls[c].socket /\ socketLocks' = socketLocks
    BY <2>1, <2>2, AwaitUpdateInv, Zenon
  <2>4. CallsInv' /\ CleanedUp'
    BY <2>2, <2>3, FrameOK, CleanedKept, Zenon DEF Kept
  <2>5. AnnouncedInv'
    BY <2>2, <2>3, AnnouncedKept, Zenon DEF Kept, Frame
  <2>6. Desk!Next
    BY <2>2, DeskQuiet, Zenon DEF NeverReconnects
  <2>7. QED
    BY <2>4, <2>5, <2>6, Zenon DEF Result
<1>4. CASE Save(c)
  <2>1. Kept(c) /\ calls'[c].socket = calls[c].socket
    BY <1>4, SaveInv, Zenon
  <2>2. UNCHANGED <<socketLocks, conn>>
    BY <1>4, Zenon DEF Save
  <2>3. CallsInv' /\ CleanedUp'
    BY <2>1, <2>2, FrameOK, CleanedKept, Zenon DEF Kept
  <2>4. AnnouncedInv' /\ Desk!Next
    BY <1>4, AnnouncedDue, DeskSaves, Zenon
  <2>5. QED
    BY <2>3, <2>4, Zenon DEF Result
<1>5. CASE OnLockReply(c) \/ OnUnlockReply(c)
  <2>1. /\ Kept(c) /\ c \in Slots /\ calls[c].ticket \in Tickets
        /\ announced' = [announced EXCEPT ![calls[c].ticket] =
                                            tickets[calls[c].ticket].lockedBy]
    BY <1>5, SocketReplyInv, Zenon
  <2>2. UNCHANGED <<tickets, conn>> /\ c \notin Sockets
    BY <1>5, <2>1, LockingAssumption, Zenon DEF OnLockReply, OnUnlockReply
  <2>3. CallsInv' /\ CleanedUp'
    BY <2>1, <2>2, FrameOK, CleanedKept, Zenon DEF Kept
  <2>4. AnnouncedInv'
    BY <2>1, <2>2, AnnouncedTold, Zenon DEF Kept
  <2>5. Desk!Next
    BY <2>2, DeskQuiet, Zenon DEF NeverReconnects
  <2>6. QED
    BY <2>3, <2>4, <2>5, Zenon DEF Result
<1>6. CASE AssignTicketUpdate(c)
  <2>1. /\ Kept(c) /\ calls'[c].socket = calls[c].socket /\ calls[c].ticket \in Tickets
        /\ calls[c].agent \in Users /\ Admins # {}
        /\ tickets' = [tickets EXCEPT ![calls[c].ticket] =
                         Assigned(tickets[calls[c].ticket], calls[c].agent)]
        /\ UNCHANGED <<socketLocks, conn, announced>>
    BY <1>6, AssignInv, Zenon
  <2>2. CallsInv' /\ CleanedUp'
    BY <2>1, FrameOK, CleanedKept, Zenon DEF Kept
  <2>3. AnnouncedInv'
    BY <1>6, AnnouncedAssign, Zenon
  <2>4. Desk!Assign(calls[c].ticket, calls[c].agent)
    BY <2>1, Zenon DEF Desk!Assign, Desk!Becomes, Desk!Assigned, Assigned
  <2>5. Desk!Next
    BY <2>1, <2>4, Zenon DEF Desk!Next
  <2>6. QED
    BY <2>2, <2>3, <2>5, Zenon DEF Result
<1>7. QED
  BY <1>1, <1>2, <1>3, <1>4, <1>5, <1>6, Zenon

-----------------------------------------------------------------------------
(* The theorems.                                                           *)

\* The invariant holds when the server first starts.
LEMMA SerialInit == Init => SerialInv
<1> SUFFICES ASSUME Init PROVE SerialInv
  OBVIOUS
<1>1. Good
  BY InitOK, Zenon DEF IInv, TypeOK, Good, MemoryOK
<1>2. \A c \in Calls : calls[c] = Idle
  BY Zenon DEF Init
<1>3. NoOverlap
  BY <1>2, LockingAssumption, Zenon DEF Init, NoOverlap, Idle, Calls
<1>4. CallsInv
  BY <1>2, LockingAssumption, SMTT(60)
  DEF CallsInv, CallInv, Shape, Looping, Idle, SocketOps, RestOps
<1>5. HeldIsDated /\ CleanedUp /\ AnnouncedInv
  BY Zenon DEF Init, NewTicket, HeldIsDated, CleanedUp, AnnouncedInv
<1>6. QED
  BY <1>1, <1>3, <1>4, <1>5, Zenon DEF SerialInv

\* Every step keeps the invariant and is a step of the desk.
LEMMA SerialStep == SerialInv /\ SerialNext => SerialInv' /\ Desk!Next
<1> SUFFICES ASSUME SerialInv, SerialNext PROVE SerialInv' /\ Desk!Next
  OBVIOUS
<1>1. Next /\ NoOverlap' /\ clean' = (clean /\ ~Failure)
  BY Zenon DEF SerialNext
<1>2. clean' => clean /\ ~Failure
  BY <1>1, Zenon
<1>3. Result
  BY <1>1, <1>2, RequestResult, ConnectionResult, CrashResult, ProgressResult, Zenon
    DEF Next
<1>4. Steps
  BY <1>1, NextOK, Zenon DEF SerialInv
<1>5. Good'
  BY <1>4, Zenon DEF Steps, TicketsStep, Good
<1>6. HeldIsDated'
  BY <1>3, DeskDates, Zenon DEF SerialInv, Result
<1>7. QED
  BY <1>1, <1>3, <1>5, <1>6, Zenon DEF SerialInv, Result

\* Stuttering keeps the invariant.
LEMMA SerialStutter == SerialInv /\ UNCHANGED <<vars, clean>> => SerialInv'
<1> SUFFICES ASSUME SerialInv, UNCHANGED <<vars, clean>> PROVE SerialInv'
  OBVIOUS
<1>1. UNCHANGED <<tickets, calls, socketLocks, visited, conn, announced, clean>>
  BY Zenon DEF vars
<1>2. Good' /\ NoOverlap' /\ HeldIsDated' /\ CleanedUp' /\ AnnouncedInv'
  BY <1>1, SMTT(60) DEF SerialInv, Good, MemoryOK, PendingOK, NoOverlap, HeldIsDated, CleanedUp, AnnouncedInv
<1>3. CallsInv'
  BY <1>1, ZenonT(60) DEF SerialInv, CallsInv, CallInv, Shape, Looping, Effect, Settled
<1>4. QED
  BY <1>2, <1>3, Zenon DEF SerialInv

\* The invariant of calls that do not overlap.
LEMMA SerialAlways == SerialSpec => []SerialInv
<1>1. SerialInv /\ [SerialNext]_<<vars, clean>> => SerialInv'
  BY SerialStep, SerialStutter, Zenon
<1>2. QED
  BY SerialInit, <1>1, PTL DEF SerialSpec

\* When calls do not overlap a ticket that has a holder has a lock date, whatever
\* fails and whenever the process dies.
THEOREM HeldDated == SerialSpec => []HeldIsDated
<1>1. SerialInv => HeldIsDated
  BY Zenon DEF SerialInv
<1>2. QED
  BY SerialAlways, <1>1, PTL

\* When calls do not overlap the disconnect handler of socketHandler.js leaves
\* no ticket tracked for its socket, whatever fails in its loop.
THEOREM DisconnectCleansUp == SerialSpec => []CleanedUp
<1>1. SerialInv => CleanedUp
  BY Zenon DEF SerialInv
<1>2. QED
  BY SerialAlways, <1>1, PTL

\* When calls do not overlap and nothing has failed, the holder of a ticket that
\* was last broadcast is the one in the database once no handler works on it.
THEOREM BroadcastsAgree == SerialSpec => []AnnouncedAgrees
<1>1. SerialInv => AnnouncedAgrees
  BY Zenon DEF SerialInv, AnnouncedInv, AnnouncedAgrees
<1>2. QED
  BY SerialAlways, <1>1, PTL

\* When calls do not overlap the handlers of ticketController.js and
\* socketHandler.js implement the one-step operations of TicketDesk: each
\* save() that reaches the database is one permitted operation, every other
\* step changes no ticket.
THEOREM ImplementsDesk == SerialSpec => DeskSpec
<1>1. Init => Desk!Init
  BY Zenon DEF Init, Desk!Init, NewTicket, Desk!NewTicket
<1>2. SerialInv /\ [SerialNext]_<<vars, clean>> => [Desk!Next]_(Desk!vars)
  <2>1. SerialInv /\ SerialNext => Desk!Next
    BY SerialStep, Zenon
  <2>2. UNCHANGED <<vars, clean>> => UNCHANGED Desk!vars
    BY Zenon DEF vars, Desk!vars
  <2>3. QED
    BY <2>1, <2>2, Zenon
<1>3. QED
  BY SerialAlways, <1>1, <1>2, PTL DEF SerialSpec, DeskSpec, Desk!Spec
=============================================================================
