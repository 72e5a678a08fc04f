----------------------------- MODULE TicketStore -----------------------------
(***************************************************************************)
(* The tickets collection: the fields of a ticket document that the ticket *)
(* and socket handlers read and write (src/models/Ticket.js), and what     *)
(* Mongoose's document.save() does to it.  save() does not write the whole *)
(* document back: it sends one $set holding only the paths whose value     *)
(* differs from the value that was read.  Every handler of the repository  *)
(* that does findById / assign fields / save() depends on this, so the     *)
(* $set is a value of its own here.                                        *)
(***************************************************************************)

CONSTANTS Users,    \* ids of the User collection
          Dates,    \* values of new Date()
          NoUser,   \* null in a reference to a user
          NoDate,   \* null in a date
          Keep      \* "this path is not in the $set"

ASSUME NullsAssumption == /\ NoUser \notin Users
                          /\ NoDate \notin Dates

ASSUME KeepAssumption == /\ Keep \notin {"Open", "In-Progress", "Resolved"}
                         /\ Keep \notin Users \cup {NoUser}
                         /\ Keep \notin Dates \cup {NoDate}

Status    == {"Open", "In-Progress", "Resolved"}
MaybeUser == Users \cup {NoUser}
MaybeDate == Dates \cup {NoDate}

\* A ticket document.  Title, description, tags, priority and customerId are
\* written once, at creation, and no handler modelled here reads them.
TicketDoc == [status : Status, lockedBy : MaybeUser,
              lockedAt : MaybeDate, assignedTo : MaybeUser]

\* A document as Ticket.create leaves it: the schema's defaults.
NewTicket == [status |-> "Open", lockedBy |-> NoUser,
              lockedAt |-> NoDate, assignedTo |-> NoUser]

\* The $set of a save(): a value for each modified path, Keep for the others.
\* No handler modifies assignedTo on a loaded document.
Update == [status : Status \cup {Keep}, lockedBy : MaybeUser \cup {Keep},
           lockedAt : MaybeDate \cup {Keep}]

NoUpdate == [status |-> Keep, lockedBy |-> Keep, lockedAt |-> Keep]

Changed(old, new) == IF new = old THEN Keep ELSE new

\* The modified paths of doc, a copy of read with some fields assigned.
ModifiedPaths(read, doc) ==
  [status   |-> Changed(read.status, doc.status),
   lockedBy |-> Changed(read.lockedBy, doc.lockedBy),
   lockedAt |-> Changed(read.lockedAt, doc.lockedAt)]

Written(old, new) == IF new = Keep THEN old ELSE new

\* The stored document once the database has applied the $set.
ApplyUpdate(doc, set) ==
  [status     |-> Written(doc.status, set.status),
   lockedBy   |-> Written(doc.lockedBy, set.lockedBy),
   lockedAt   |-> Written(doc.lockedAt, set.lockedAt),
   assignedTo |-> doc.assignedTo]

\* Mutant of Locked: only a lock that is renewed is dated.
LockedDatedOnce(doc, u, now) ==
  [doc EXCEPT !.lockedBy = u, !.lockedAt = IF doc.lockedBy = u THEN now ELSE @]

\* What the handlers assign to a loaded document before they save it.
Locked(doc, u, now) == [doc EXCEPT !.lockedBy = u, !.lockedAt = now]

Unlocked(doc) == [doc EXCEPT !.lockedBy = NoUser, !.lockedAt = NoDate]

\* Mutant of Resolved: a status that the schema's enum does not have.
ResolvedAsClosed(doc) == [Unlocked(doc) EXCEPT !.status = "Closed"]

Resolved(doc) == [Unlocked(doc) EXCEPT !.status = "Resolved"]

\* assignTicket's findByIdAndUpdate: one update in the database, no read first.
Assigned(doc, u) == [doc EXCEPT !.assignedTo = u, !.status = "In-Progress"]
=============================================================================
