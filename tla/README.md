# TLA+ model of the PulseTriage backend

The specifications in this directory model the Node.js server under `src/src`
(Express, Mongoose, Socket.io, BullMQ), and two parts of the Redis server that is
vendored with it under `src/redis-stable`: the append only file, on which the
queue's durability rests, and Sentinel's failover. They say what handlers,
threads and processes do to shared state when they interleave, fail and are cut
off by a crash. TLC checks them on small instances; TLAPS proves the central
invariants for every instance.

`PROJECT.json` maps every definition to the lines it models and lists the runs,
the theorems, the hazards and the places where code and comments disagree.

## The system and what is modelled

| part | source | module |
|---|---|---|
| ticket actions over REST: lock, unlock, resolve, assign | `controllers/ticketController.js` | `TicketLocking` |
| socket events `ticket:lock`, `ticket:unlock`, `disconnect`, the Map `socketLocks` | `socket/socketHandler.js` | `TicketLocking` |
| ticket documents, Mongoose `save()` | `models/Ticket.js` | `TicketStore` |
| what the ticket handlers promise | the comments above the handlers | `TicketDesk` (abstract), `SerialLocking` (refinement) |
| registration, login, approve, reject, promote, demote | `controllers/authController.js`, `models/User.js` | `Accounts` |
| `protect`, `authorize`, `isSuperAdmin` | `middleware/authMiddleware.js` | `Accounts`; constant `Admins` in `TicketLocking` |
| seeding of the Super Admin | `utils/seedSuperAdmin.js` | `Accounts` |
| ticket creation, AI triage, SLA queue and worker | `createTicket`, `utils/geminiTriage.js`, `queues/*.js` | `SlaEscalation` |
| listing with a cursor, statistics | `getTickets`, `getTicketStats` | `TicketListing` |
| process start, exit, crash | `server.js`, `config/db.js` | `Crash` in `TicketLocking` and `SlaEscalation`, `Boot`/`ServerDies` in `Accounts` |
| Redis: append only file | `redis-stable/src/aof.c`, `bio.c` | `AppendOnlyFile` |
| Redis: Sentinel failover | `redis-stable/src/sentinel.c` | `SentinelFailover` |

Ticket handlers and sockets share the tickets collection and the broadcasts to
the room `agents`; they meet in `TicketLocking`. Account handlers and seeding
share the users collection and meet in `Accounts`. `createTicket`, the queue, the
worker and Redis meet in `SlaEscalation`, where agents are the action `Work`: it
changes a status in the ways that `NeverReopened` of `TicketLocking` allows.
Ticket and account modules touch only through the user id and the role in
`req.user`, which `protect` reads once per request and no ticket handler reads
again, so `TicketLocking` takes the set of Admins as a constant.

## How handlers become actions

Node runs one handler at a time between two `await`s. One step is what a handler
does from one `await` to the next, or what the database does with an operation
it was sent.

**Ticket handlers** (`TicketLocking`): `find` → `save` → `reply`. The `find` step
reads the document, runs the checks (404, 403, 409) and computes the `$set` of
the following `save()`; `Save` applies it; `reply` updates `socketLocks`,
broadcasts and answers. Mongoose's `save()` sends only paths whose value differs
from the value read, and no version check: `ModifiedPaths` and `ApplyUpdate` in
`TicketStore` say exactly this. A socket event carries the `agentId` the client
sent, or none: nothing checks it. `assignTicket` is one `findByIdAndUpdate`, hence
one step. The call named after a socket is its `disconnect` handler; `visited` is
the position of its `for ... of` loop, which iterates over a live Set.

**Account handlers** (`Accounts`): `protect` → `find` → `write`, with `compare`
for login's bcrypt comparison. `NameOf` and `EmailOf` are the schema's setters
(trim, lower-case); a name of only spaces becomes `Blank` and fails the
`required` validator.

**Creation and escalation** (`SlaEscalation`): `req[t]` is where the POST of
ticket `t` is: `triage` → `create` → `message` → `job` → a reply. Triage answers
one of `Answers`: a priority, one outside the enum (the create fails validation),
a missing one (`|| 'Low'`), or `null` (reading it throws). The worker
is `at` `find` → `transporter` → `mail` → `complete`; its catch block completes
the job, so an error is never retried by the queue. A ticket can have more than
one job: when Redis goes away after it executed an addition and before it
answered, ioredis sends the addition again (`maxRetriesPerRequest: null`), and
without a `jobId` BullMQ takes it for another job. `resent` counts this. In the
same way a job can be taken, or completed, without the worker's knowledge.
`spoilt` is a history variable: the jobs for which a failure was swallowed or
that BullMQ gave up.

**Listing** (`TicketListing`): a client follows `nextCursor` from page to page
while tickets are created, not necessarily in the order of their `_id`s, and
change status. After a 500 it may ask for the same page again. One `find` is
atomic. The limit arithmetic (parse, cap, the extra document, MongoDB's reading
of zero and negative limits) is in operators of its own. The counts of the
statistics are kept as the sets of tickets counted, each aggregation at its own
moment.

**Append only file** (`AppendOnlyFile`): the server is one thread; the bio
thread, the rewriting child, the disk and a crash interleave with it. A command
takes two bytes in a file, so that a write can stop in the middle. A file is what
the page cache holds and how much of that is fsynced; `PowerLoss` drops what is
not, `Kill` does not; either may also come between a write and its fsync under
`always`. `told` is what clients know: the commands whose reply was sent under
`always`, and those WAITAOF confirmed. A function of `aof.c` that may fail in
several ways is an operator from a world (the record `Now`) to the set of worlds
it may leave. `backgroundRewriteDoneHandler` is three actions (rename, persist
the manifest, delete the history), since a crash may come between them.

**Sentinel** (`SentinelFailover`): each action is a whole event: a pass of the
timer, a command, a reply or a hello message. Whatever depends on elapsed time
may happen or not. Messages stay available to their receivers, so they arrive
late, out of order, repeatedly or never. A restart reloads the configuration file.

Failures in the application: an operation that rejects, a write whose
acknowledgement is lost, a process that dies, Redis going away and returning, a
stalled job. Handlers catch the errors, so a failed call ends; a disconnect loop
goes on to its next ticket.

External parts are modelled from how the code uses them: MongoDB operations are
atomic per document and enforce the unique indexes (taken to exist); Socket.io
delivers no event of a closed socket and never reuses a socket id; BullMQ runs a
job again when its lock lapsed, at most `MaxStalled` times.

Definitions marked *Mutant of ...* are plausible bugs against which the
properties are tested; nothing else uses them.

## Properties and runs

Runs that pass:

| run | instance | shows |
|---|---|---|
| `LockingRaces` | 1 ticket, 2 agents (1 Admin), 2 calls, 1 socket, failures, crashes | `TypeOK`, `StatusMatchesAssignment`, `NeverReopened` |
| `DisconnectLoop` | 2 tickets, 1 call, 1 socket, fair | `DisconnectTerminates` |
| `SerialDesk` | 1 ticket, 1 call, 2 sockets, 2 dates, with and without `agentId`, failures, crashes, fair | `DeskSpec` (refinement of `TicketDesk`), `HeldIsDated`, `CleanedUp`, `AnnouncedAgrees`, `CleanupReleases` |
| `AccountRaces` | 2 accounts, 2 requests, 2 processes, failures | `TypeOK`, `OneSuperAdmin`, `TokenAfterDecision`, `PendingListed`, `SuperAdminUntouched` |
| `AccountsSerial` | 2 accounts, 2 requests on different accounts, 2 processes, fair | `AdminIsApproved`, `SeedSettles` |
| `SlaMonitoring` | 1 ticket with up to 3 jobs, 5 triage answers, 1 stall, crash and fault, 2 outages, fair | `TypeOK`, `MonitoredIsAnnounced`, `AnsweredIsMonitored`, `MailsBounded`, `Escalates`, `RequestsEnd` |
| `Listing` | 3 tickets, limits -2 to 3 and `NaN`, cap 2, a failing database, fair | `TypeOK`, `ShownOnce`, `NoneLeftOut`, `FailsOnlyOnOddLimit`, `StatsBracketed`, `WalkEnds` |
| `AofRecovery` | both fsync policies, 2 commands, 2 rewrites, 2 toggles, 1 fault, 2 crashes | `TypeOK`, `RecoversPrefix`, `AckedKept`, `ManifestCurrent` |
| `Election` | 3 Sentinels, 2 addresses, quorum 1, epochs up to 2, 1 restart | `TypeOK`, `OneVotePerEpoch`, `OneLeaderPerEpoch` |

`SerialLocking` restricts `TicketLocking` to calls that do not overlap on a
ticket and to sockets that disconnect with no handler in flight; `SerialSpec` of
`Accounts` restricts requests to different accounts. They separate what handlers
do wrong by themselves from what only an interleaving breaks: `HeldIsDated`,
`CleanedUp`, `AnnouncedAgrees`, `DeskSpec` and `AdminIsApproved` hold there and
fail in general, so they say nothing about the hazards of overlapping calls.

Some properties excuse what the code does not promise. `AnnouncedAgrees` and
`CleanupReleases` speak of executions in which nothing failed so far.
`AnsweredIsMonitored` and `Escalates` excuse jobs in `spoilt`. With one crash
and one long outage BullMQ can give a job up, but only when a mail is sent
nevertheless: the worker whose lock lapsed goes on. Two crashes during the job
lose the escalation, which is why `Escalates` excuses a job that was given up.
`MailsBounded` allows a further mail for each stall of a job, and a further job
for each addition that Redis executed and did not answer. `OneLeaderPerEpoch`
speaks of elections decided while the epoch of the failover was still the current
one. `FailsOnlyOnOddLimit` and `WalkEnds` leave out failures of the database.

`RecoversPrefix` fails after two histories, which the history variable `past`
marks, and holds after all others of the run; the faults the run leaves out are
among the observations below. Both come from `aofOpenIfNeededOnServerStart`:

* *Unsynced data of an earlier process.* A process is killed under everysec with
  the end of an INCR in the page cache. The next one, under `always`, takes that
  end as fsynced (`aof.c:774-775`), and a rewrite moves on to the next INCR before
  anything else is appended; or the INCR was not the last to begin with. A command
  is acknowledged in the later file, and the power fails before the first one is
  on disk. The load then finds a hole, or refuses (`aof.c:1871-1874`).
* *An INCR nobody listed.* After a rewrite with the AOF off the manifest lists no
  INCR. `CONFIG SET appendonly yes` renames the temporary INCR, and the process
  dies before the manifest is persisted. The next process "creates" its INCR under
  that name, without `O_TRUNC` (`aof.c:760`), and appends to what is there; the
  process after it loads commands that were never part of its history. The comment
  says "Open the last opened INCR type AOF for writing, If not, create a new one"
  (`aof.c:722`).

`AckedKept` holds after both, whenever the server comes up.

Runs in which the code does not do what a comment says:

| run | property | what happens |
|---|---|---|
| `LockStolen` | `LockNotTaken` | two locks read a free ticket, the second save takes the lock over |
| `DisconnectFreesOther` | `DisconnectReleasesOwn` | no race needed: lock over the socket, unlock over REST, another agent locks, the first disconnects |
| `WaitAof` | `WaitAofKept` | under everysec a rewrite moves on to a new INCR file while the fsync of the old one is queued; the next flush counts everything as fsynced |

### Observations without a run

Tickets and sockets:

* `null` over `null` is no modification, so a lock saved while a resolve is in
  flight survives it (`ticketController.js:164,177`). For the same reason locking
  again what one holds does not write `lockedBy`, and a concurrent unlock wins
  although the answer says locked.
* A lock acknowledged after the disconnect stays in `socketLocks`
  (`socketHandler.js:35`).
* `ticket:lock` without an `agentId` on a free ticket passes the check, writes
  `lockedAt` and no holder, is tracked and broadcast (`socketHandler.js:22-40`): a
  date without a holder. An Admin's unlock that read such a ticket writes
  `lockedAt` only and, when a lock was saved meanwhile, leaves a holder without a
  date.
* Assigning a resolved ticket takes it back to In-Progress; `NeverReopened` is
  about Open only.
* The worker escalates what is Open, "no one has started working"
  (`slaWorker.js:54`); a lock does not change the status.
* The cap of the listing (`ticketController.js:64`) does not bound negative
  limits: -1 asks the database for `limit(0)`, which is no limit, and -n for n-1
  documents. A limit of 0 is answered 500 when a ticket matches. Hence the
  exception in `FailsOnlyOnOddLimit`.
* The resolution time is taken from `updatedAt`, which later saves move.

Accounts:

* A reject and a promote of one agent that overlap leave a rejected Admin
  (`authController.js:167,170`).
* Approve and reject accept agents that are not pending (lines 140, 161).
* A registration that loses against the unique index is answered 500; the 409 of
  `errorHandler.js:20` is not reached.

Redis:

* When the fork of `startAppendOnly` fails, the file stays open with the AOF off
  and the next rewrite keeps a stale INCR file (compare `aof.c:517`). The fault
  `"fork"` is therefore not in `AofRecovery`.
* Under everysec, a rewrite that starts after a short write and before the next
  successful one leaves a torn command in a file that is not the last. A failing
  fsync of the directory can leave a manifest on disk that lists a deleted base,
  and a power loss under everysec can leave a hole. `AofRecovery` takes write
  errors and power losses under `always` only, and neither `"dirsync"` nor
  `"fsync"` faults.
* `sentinelGetLeader` counts the others' votes for the current epoch
  (`sentinel.c:4867`) also when the failover belongs to an earlier one.
* A Sentinel that is reconfiguring replicas and learns a newer configuration with
  the old address goes on advertising the promoted one (`sentinel.c:2949-2971`).

### Bounds

* Tickets influence each other only through a socket's Set, so one ticket
  suffices but for the loop (two). Two calls and a disconnect handler give every
  race between a read and a save with one intervening write. `Dates` has two
  values where it matters that a second lock has another date. `CleanupReleases`
  uses one ticket: with more, the rule that calls on a ticket do not overlap could
  itself keep the loop waiting.
* Two accounts are the Super Admin and one agent. An Admin who decides about
  another Admin needs a third; `AdminsApproved` proves that case.
* `LockingRaces` has one `agentId`; what it checks is proved for any.
* Tickets meet only at the one worker, where two jobs of one ticket compete as two
  of different tickets do. One stall, crash and fault and two outages reach each
  recovery, an addition sent twice, and the stall limit; what concerns several
  tickets is in the theorems, but for the two liveness properties.
* Three tickets with a cap of 2 need two pages; the limits reach both sides of
  zero and of the cap. The constraint `OneReader` lets a behaviour have a walk or
  a statistics request, which share nothing but the collection.
* Two rewrites and two toggles let a rewrite follow an interrupted or undone one;
  two crashes let a process that recovered crash as well; two commands lie before,
  during or after a rewrite or a crash.
* Three Sentinels are the smallest majority that is not all; two epochs let a
  late message meet a newer epoch. Quorum 1 makes the majority the only guard.
  The constraint `FewCampaigns` keeps at most two vote requests.

Slots, `_id`s and Sentinels are symmetric where a run checks no liveness. Deadlock
is checked except in `SlaMonitoring`, `Listing` and `Election`, where all tickets
are done, the walk is over or the bounds are used up.

### Fairness

The database driver answers or reports an error, and the event loop runs every
continuation that is ready: weak fairness of `Progress(c)` for every call, of
`Seed(p)` for every process, of the steps of `createTicket` and of the worker,
and of `getTickets` (the client of a walk asks for its next page). In
`SerialFairSpec` this holds for steps that keep the no-overlap rule. BullMQ serves
the queue: weak fairness of the end of the delay and of finding a stalled job,
strong fairness of `TakeJob(t)`, since the worker is busy with other jobs again
and again and the queue is first in, first out. The process is restarted and Redis
returns, each weakly fair; this is an assumption about operation, not about the
code. No request, event, disconnect or act of an agent is assumed to happen.

## Proofs

The theorems hold for any values of the constants that satisfy the named
assumptions: null values are not ids or documents (`NullsAssumption`,
`KeepAssumption`, `LockingAssumption`, `AccountsAssumption`, `NoDocAssumption`,
`SlaAssumption`), the `_id`s and the Sentinels are finitely many and the cap is
positive (`ListingAssumption`, `SentinelAssumption`). Failures and crashes are
included, in any number.

* `LockingProofs`, for any interleaving: `TypeCorrect`, `StatusSafe`,
  `NotReopened`. The inductive invariant adds `PendingOK`: a call past its read has
  a ticket, and the `$set` it will apply has no status except `Resolved`. This
  holds because `save()` sends modified paths only, and it keeps a save that is
  based on an old read from undoing an assignment.
* `LockingProofs`, for calls that do not overlap (`SerialSpec`): `HeldDated`,
  `DisconnectCleansUp`, `BroadcastsAgree` and the refinement `ImplementsDesk`.
  `SerialInv` says of each call (`CallInv`) that its pending `$set` turns the
  document as it is stored now into what its operation of `TicketDesk` makes of
  it: what it read is still true, because no other call on the ticket is in
  flight. Without the no-overlap rule exactly this fails.
* `AccountsProofs`: `TypeCorrect`, `SingleSuperAdmin`, `SuperAdminSafe`,
  `TokensDecided`, `AllPendingListed`. The invariant says which parts of what a
  request read cannot be stale: the target exists and is not the Super Admin's
  (`CallOK`), an approval once decided is not Pending, usernames are unique
  (`DocsOK`, `UniqueNames`). `CallsStay` shows that no step of another request
  invalidates this. `AdminsApproved` is about `SerialSpec`: a reject that is about
  to write still faces an Agent (`Harmless`), because the account is written by
  no other request in flight (`HarmlessStays`). Without the no-overlap rule
  exactly this step fails.
* `SlaEscalationProofs`: `TypeCorrect`, `MonitoringAnnounced`, `AnswersMonitored`,
  `MailsPaid`. `RequestInv` says what has been done by where the request is,
  `JobInv` that a ticket has at most one job more than additions were sent again.
  `MailInv` is an account: a run that was found stalled before its mail leaves
  one stall over, which the next run may spend.
* `TicketListingProofs`: `TypeCorrect`, `NeverTwice`, `WalkComplete`,
  `CursorThere`, `CountsOfTheRequest`. `WalkInv`: what a walk has shown is not
  older than its cursor, and of what matched throughout it has shown everything
  that is not older.
* `SentinelFailoverProofs`: `TypeCorrect`, `VotesOnce`, `SingleLeader`. `VotesOK`:
  the configuration file knows of the last vote, so a restart does not forget it.
  `MajoritiesOK`: a leader elected in the current epoch has the votes of a
  majority, and two majorities share a Sentinel that votes once.

Only model-checked: liveness (`DisconnectTerminates`, `CleanupReleases`,
`SeedSettles`, `Escalates`, `RequestsEnd`, `WalkEnds`), which the prover does not
handle; and the properties of the append only file, which loads a sequence of
files of any length: that needs induction over data.

## Not modelled

* `createTicketMessage` and `getTicketMessages`: one insert and one query with no
  other state. The first message of a ticket is in `SlaEscalation`.
* `middleware/errorHandler.js`, the routes' plumbing, CORS, the health check: no
  state. Controllers catch their own errors.
* Texts, tags, timestamps and `populate()`: no handler decides on them. The third
  aggregation of the statistics is arithmetic of the database.
* Of the append only file: `appendfsync no`, `no-appendfsync-on-rewrite yes`,
  `aof-load-truncated no`, the upgrade from the format before Redis 7, offsets in
  the manifest, MULTI blocks, the encoding of commands. A rewrite may start at any
  time.
* Of Sentinel: its administrative commands, the discovery of Sentinels and
  replicas, TILT, how S_DOWN and O_DOWN come about, and a failing write of the
  configuration file, which the code only logs.
* The rest of Redis: data types, commands, networking, replication, cluster, RDB,
  scripting and modules. It is a third-party server of some 200,000 lines, which
  the backend reaches through BullMQ only; by lines it is nearly all of the
  repository, and these specifications cover a small share of it.
* Development scripts.
