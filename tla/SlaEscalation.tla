---------------------------- MODULE SlaEscalation ----------------------------
(***************************************************************************)
(* The life of a ticket from POST /api/tickets/create to the escalation    *)
(* mail: createTicket (controllers/ticketController.js) with its triage    *)
(* (utils/geminiTriage.js), the queue (queues/slaQueue.js) and the worker  *)
(* (queues/slaWorker.js).                                                  *)
(*                                                                         *)
(* Each await of createTicket and of the worker's processor is a step of   *)
(* its own; requests, the worker, agents, Redis and crashes of the process *)
(* interleave.  BullMQ, MongoDB and the mail server are external: a job    *)
(* whose lock lapses while it is active, because the process died or Redis *)
(* was away too long to renew it, is found stalled and run again,          *)
(* MaxStalled times.  A command that Redis executed before it went away,   *)
(* and did not answer, is sent again by ioredis when the connection is     *)
(* back: an addition, which names no jobId, then makes another job.        *)
(***************************************************************************)
EXTENDS Integers, FiniteSets

CONSTANTS Tickets,      \* the tickets that customers may post
          Answers,      \* what triage may answer, see Priority
          NoJob,
          MaxStalled,   \* BullMQ's maxStalledCount
          MaxCrashes, MaxOutages, MaxFaults   \* bounds

ASSUME SlaAssumption ==
  /\ NoJob \notin Tickets \X Nat
  /\ Answers \subseteq {"Low", "Medium", "High", "other", "missing", "null"}
  /\ {MaxStalled, MaxCrashes, MaxOutages, MaxFaults} \subseteq Nat

VARIABLES
  req,       \* ticket -> where its POST request is
  answer,    \* ticket -> what triage answered
  doc,       \* ticket -> [priority, status] in MongoDB, "none" before
  messages,  \* the tickets whose first message is stored
  announced, \* the tickets announced by ticket:created
  resent,    \* ticket -> additions of its SLA job whose answer was lost
  job,       \* SLA job -> its state in Redis
  stalls,    \* job -> how often it was found stalled
  at,        \* where the worker is in its processor
  current,   \* the worker's job
  lapsed,    \* the lock the worker holds on that job is gone
  mails,     \* job -> escalation mails that it sent
  spoilt,    \* history: the jobs whose failure was swallowed, or given up as stalled
  redis,     \* Redis answers
  up,        \* the server process runs
  crashes, outages, faults

vars == <<req, answer, doc, messages, announced, resent, job, stalls, at, current,
          lapsed, mails, spoilt, redis, up, crashes, outages, faults>>
queueVars == <<resent, job, stalls>>
workerVars == <<at, current, lapsed, mails>>
envVars == <<redis, up, crashes, outages>>

\* The first SLA job of a ticket, and one for each resent addition.
Jobs == Tickets \X (1 .. MaxOutages + 1)

Replies == {"201", "500", "lost"}
Requests == {"new", "triage", "create", "message", "job"} \cup Replies
JobStates == {"none", "delayed", "wait", "active", "completed", "failed"}
Priorities == {"Low", "Medium", "High"}
Doc == [priority : Priorities \cup {"none"},
        status : {"none", "Open", "In-Progress", "Resolved"}]

\* The data types of the state, and: the worker is at work exactly when it has a
\* job, which Redis knows as active as long as the worker's lock on it lasts.
TypeOK ==
  /\ req \in [Tickets -> Requests]
  /\ answer \in [Tickets -> Answers \cup {"none"}]
  /\ doc \in [Tickets -> Doc]
  /\ messages \subseteq Tickets /\ announced \subseteq Tickets /\ spoilt \subseteq Jobs
  /\ resent \in [Tickets -> 0 .. MaxOutages]
  /\ job \in [Jobs -> JobStates]
  /\ stalls \in [Jobs -> 0 .. MaxStalled]
  /\ at \in {"idle", "find", "transporter", "mail", "complete"}
  /\ mails \in [Jobs -> Nat]
  /\ {lapsed, redis, up} \subseteq BOOLEAN
  /\ {crashes, outages, faults} \subseteq Nat
  /\ IF at = "idle" THEN current = NoJob
                    ELSE up /\ current \in Jobs /\ (lapsed \/ job[current] = "active")

Absent == [priority |-> "none", status |-> "none"]

Init ==
  /\ req = [t \in Tickets |-> "new"]
  /\ answer = [t \in Tickets |-> "none"]
  /\ doc = [t \in Tickets |-> Absent]
  /\ messages = {} /\ announced = {} /\ spoilt = {}
  /\ resent = [t \in Tickets |-> 0]
  /\ job = [j \in Jobs |-> "none"]
  /\ stalls = [j \in Jobs |-> 0]
  /\ at = "idle" /\ current = NoJob /\ lapsed = FALSE
  /\ mails = [j \in Jobs |-> 0]
  /\ redis = TRUE /\ up = TRUE
  /\ crashes = 0 /\ outages = 0 /\ faults = 0

Fault == faults < MaxFaults /\ faults' = faults + 1
-----------------------------------------------------------------------------
(* createTicket *)

At(t, where) == up /\ req[t] = where
Goes(t, where) == req' = [req EXCEPT ![t] = where]

\* A request with title, description and customerId arrives.
Post(t) ==
  /\ At(t, "new") /\ Goes(t, "triage")
  /\ UNCHANGED <<answer, doc, messages, announced, queueVars, workerVars, spoilt, envVars, faults>>

\* triageIncomingTicket answers what the model said, or "Low" when anything in
\* it failed.  JSON.parse may return null, which ends the request.
Triage(t) ==
  /\ At(t, "triage")
  /\ \E a \in Answers :
       /\ answer' = [answer EXCEPT ![t] = a]
       /\ Goes(t, IF a = "null" THEN "500" ELSE "create")
  /\ UNCHANGED <<doc, messages, announced, queueVars, workerVars, spoilt, envVars, faults>>

Priority(a) == IF a = "missing" THEN "Low" ELSE a

\* Mutant of Create: the schema has no enum for the priority.
CreateAnyPriority(t) ==
  /\ At(t, "create") /\ Goes(t, "message")
  /\ doc' = [doc EXCEPT ![t] = [priority |-> Priority(answer[t]), status |-> "Open"]]
  /\ UNCHANGED <<answer, messages, announced, queueVars, workerVars, spoilt, envVars, faults>>

\* Ticket.create: a priority outside the enum is refused.
Create(t) ==
  /\ At(t, "create")
  /\ LET new == [priority |-> Priority(answer[t]), status |-> "Open"]
     IN  \/ /\ new.priority \in Priorities
            /\ doc' = [doc EXCEPT ![t] = new]
            /\ Goes(t, "message") /\ UNCHANGED faults
         \/ /\ new.priority \notin Priorities
            /\ Goes(t, "500") /\ UNCHANGED <<doc, faults>>
         \/ /\ Fault /\ Goes(t, "500")
            /\ doc' \in {doc, [doc EXCEPT ![t] = IF new.priority \in Priorities THEN new ELSE @]}
  /\ UNCHANGED <<answer, messages, announced, queueVars, workerVars, spoilt, envVars>>

\* Mutant of MessageCreate: a failure of Message.create is swallowed.
MessageCreateSwallows(t) ==
  /\ At(t, "message")
  /\ announced' = announced \cup {t}
  /\ Goes(t, IF doc[t].priority = "High" THEN "job" ELSE "201")
  /\ \/ messages' = messages \cup {t} /\ UNCHANGED faults
     \/ Fault /\ UNCHANGED messages
  /\ UNCHANGED <<answer, doc, queueVars, workerVars, spoilt, envVars>>

\* Message.create, then the announcement and the test of the priority.
MessageCreate(t) ==
  /\ At(t, "message")
  /\ \/ /\ messages' = messages \cup {t}
        /\ announced' = announced \cup {t}
        /\ Goes(t, IF doc[t].priority = "High" THEN "job" ELSE "201")
        /\ UNCHANGED faults
     \/ /\ Fault /\ Goes(t, "500")
        /\ messages' \in {messages, messages \cup {t}}
        /\ UNCHANGED announced
  /\ UNCHANGED <<answer, doc, queueVars, workerVars, spoilt, envVars>>

\* The job that the next addition for ticket t makes, and what they make.
NextJob(t) == <<t, resent[t] + 1>>
Added(ts) == [j \in Jobs |-> IF j[1] \in ts /\ j = NextJob(j[1]) THEN "delayed" ELSE job[j]]

\* Mutant of AddSlaJob: the job is added without being awaited.
AddSlaJobLater(t) ==
  /\ At(t, "job") /\ Goes(t, "201")
  /\ job' \in {job, IF redis THEN Added({t}) ELSE job}
  /\ UNCHANGED <<answer, doc, messages, announced, resent, stalls, workerVars, spoilt, envVars, faults>>

\* Mutant of AddSlaJob: the connection does not come back after an outage.
AddSlaJobNoReconnect(t) ==
  /\ At(t, "job") /\ redis /\ outages = 0 /\ Goes(t, "201")
  /\ job' = Added({t})
  /\ UNCHANGED <<answer, doc, messages, announced, resent, stalls, workerVars, spoilt, envVars, faults>>

\* addSlaJob: the command waits while Redis is away (maxRetriesPerRequest null),
\* and an error of the queue is logged and swallowed.
AddSlaJob(t) ==
  /\ At(t, "job") /\ redis /\ Goes(t, "201")
  /\ \/ job' = Added({t}) /\ UNCHANGED <<spoilt, faults>>
     \/ /\ Fault /\ spoilt' = spoilt \cup {NextJob(t)}
        /\ job' \in {job, Added({t})}
  /\ UNCHANGED <<answer, doc, messages, announced, resent, stalls, workerVars, envVars>>
-----------------------------------------------------------------------------
(* BullMQ *)

createVars == <<req, answer, doc, messages, announced>>

\* The delay of 30 seconds is over.
DelayOver(j) ==
  /\ redis /\ job[j] = "delayed"
  /\ job' = [job EXCEPT ![j] = "wait"]
  /\ UNCHANGED <<createVars, resent, stalls, workerVars, spoilt, envVars, faults>>

\* The worker, which runs one job at a time, takes a waiting job.
TakeJob(j) ==
  /\ up /\ redis /\ at = "idle" /\ job[j] = "wait"
  /\ job' = [job EXCEPT ![j] = "active"]
  /\ at' = "find" /\ current' = j /\ lapsed' = FALSE
  /\ UNCHANGED <<createVars, resent, stalls, mails, spoilt, envVars, faults>>

\* An active job without a lock is found: it waits again, or fails.
Stalled(j) ==
  /\ up /\ redis /\ job[j] = "active"
  /\ current # j \/ lapsed
  /\ IF stalls[j] < MaxStalled
     THEN /\ stalls' = [stalls EXCEPT ![j] = @ + 1]
          /\ job' = [job EXCEPT ![j] = "wait"] /\ UNCHANGED spoilt
     ELSE /\ job' = [job EXCEPT ![j] = "failed"]
          /\ spoilt' = spoilt \cup {j} /\ UNCHANGED stalls
  /\ UNCHANGED <<createVars, resent, workerVars, envVars, faults>>
-----------------------------------------------------------------------------
(* The processor of startSlaWorker *)

\* What the catch block does: the error is logged and the job is complete.
Caught == /\ Fault
          /\ at' = "complete"
          /\ spoilt' = spoilt \cup {current}

\* Mutant of FindTicket: the test of the status is the wrong way round.
FindTicketNegated ==
  /\ at = "find"
  /\ \/ /\ at' = IF doc[current[1]].status # "Open" THEN "transporter" ELSE "complete"
        /\ UNCHANGED <<spoilt, faults>>
     \/ Caught
  /\ UNCHANGED <<createVars, queueVars, current, lapsed, mails, envVars>>

\* Ticket.findById and the test of the status.  (No code deletes a ticket.)
FindTicket ==
  /\ at = "find"
  /\ \/ /\ at' = IF doc[current[1]].status = "Open" THEN "transporter" ELSE "complete"
        /\ UNCHANGED <<spoilt, faults>>
     \/ Caught
  /\ UNCHANGED <<createVars, queueVars, current, lapsed, mails, envVars>>

createTestTransporter ==
  /\ at = "transporter"
  /\ \/ at' = "mail" /\ UNCHANGED <<spoilt, faults>>
     \/ Caught
  /\ UNCHANGED <<createVars, queueVars, current, lapsed, mails, envVars>>

Sent == [mails EXCEPT ![current] = @ + 1]

\* Mutant of SendMail: an error of sendMail is tried again.
SendMailAgain ==
  /\ at = "mail"
  /\ \/ at' = "complete" /\ mails' = Sent /\ UNCHANGED faults
     \/ Fault /\ mails' \in {mails, Sent} /\ UNCHANGED at
  /\ UNCHANGED <<createVars, queueVars, current, lapsed, spoilt, envVars>>

\* transporter.sendMail; the mail may be out although the call fails.
SendMail ==
  /\ at = "mail"
  /\ \/ at' = "complete" /\ mails' = Sent /\ UNCHANGED <<spoilt, faults>>
     \/ Caught /\ mails' \in {mails, Sent}
  /\ UNCHANGED <<createVars, queueVars, current, lapsed, envVars>>

\* The processor has returned and the job is moved to the completed ones, which
\* Redis refuses to a worker whose lock is gone.
CompleteJob ==
  /\ at = "complete" /\ redis
  /\ job' = IF lapsed THEN job ELSE [job EXCEPT ![current] = "completed"]
  /\ at' = "idle" /\ current' = NoJob /\ lapsed' = FALSE
  /\ UNCHANGED <<createVars, resent, stalls, mails, spoilt, envVars, faults>>
-----------------------------------------------------------------------------
(* The environment *)

\* An agent is assigned (In-Progress) or resolves the ticket.
Work(t) ==
  /\ up
  /\ \/ doc[t].status # "none" /\ doc' = [doc EXCEPT ![t].status = "In-Progress"]
     \/ doc[t].status # "none" /\ doc' = [doc EXCEPT ![t].status = "Resolved"]
  /\ UNCHANGED <<req, answer, messages, announced, queueVars, workerVars, spoilt, envVars, faults>>

\* The process dies: requests get no answer, an active job stays active, and a
\* job whose addition was under way is there or not.
Crash ==
  /\ up /\ crashes < MaxCrashes
  /\ up' = FALSE /\ crashes' = crashes + 1
  /\ req' = [t \in Tickets |-> IF req[t] \in {"new"} \cup Replies THEN req[t] ELSE "lost"]
  /\ \E ts \in SUBSET {t \in Tickets : req[t] = "job" /\ redis} : job' = Added(ts)
  /\ at' = "idle" /\ current' = NoJob /\ lapsed' = FALSE
  /\ UNCHANGED <<answer, doc, messages, announced, resent, stalls, mails, spoilt, redis, outages, faults>>

Restart ==
  /\ ~up /\ up' = TRUE
  /\ UNCHANGED <<createVars, queueVars, workerVars, spoilt, redis, crashes, outages, faults>>

\* Redis goes away.  Of the commands that wait for its answer it has executed
\* some: additions of createTicket, and the worker's command, which took a job
\* (that the worker will not hear of) or completed one (and its lock is gone).
\* They are sent again when the connection is back.
RedisLeaves ==
  /\ redis /\ outages < MaxOutages
  /\ redis' = FALSE /\ outages' = outages + 1
  /\ \/ \E ts \in SUBSET {t \in Tickets : At(t, "job")} :
          /\ job' = Added(ts)
          /\ resent' = [t \in Tickets |-> IF t \in ts THEN resent[t] + 1 ELSE resent[t]]
          /\ UNCHANGED lapsed
     \/ \E j \in Jobs :
          /\ up /\ at = "idle" /\ job[j] = "wait"
          /\ job' = [job EXCEPT ![j] = "active"]
          /\ UNCHANGED <<resent, lapsed>>
     \/ /\ at = "complete" /\ ~lapsed
        /\ job' = [job EXCEPT ![current] = "completed"]
        /\ lapsed' = TRUE
        /\ UNCHANGED resent
  /\ UNCHANGED <<createVars, stalls, at, current, mails, spoilt, up, crashes, faults>>

\* After a short outage the worker still holds its lock, after a long one not.
RedisReturns ==
  /\ ~redis /\ redis' = TRUE
  /\ lapsed' \in {lapsed, at # "idle"}
  /\ UNCHANGED <<createVars, queueVars, at, current, mails, spoilt, up, crashes, outages, faults>>

Next ==
  \/ \E t \in Tickets : Post(t) \/ Triage(t) \/ Create(t) \/ MessageCreate(t) \/ AddSlaJob(t)
  \/ \E j \in Jobs : DelayOver(j) \/ TakeJob(j) \/ Stalled(j)
  \/ \E t \in Tickets : Work(t)
  \/ FindTicket \/ createTestTransporter \/ SendMail \/ CompleteJob
  \/ Crash \/ Restart \/ RedisLeaves \/ RedisReturns

Spec == Init /\ [][Next]_vars

\* The event loop resumes every await that settles, BullMQ serves the queue, the
\* process is restarted and Redis comes back.  Nothing is assumed of customers
\* and agents.
Fairness ==
  /\ \A t \in Tickets : /\ WF_vars(Triage(t) \/ Create(t) \/ MessageCreate(t))
                        /\ WF_vars(AddSlaJob(t))
  /\ \A j \in Jobs : WF_vars(DelayOver(j)) /\ SF_vars(TakeJob(j)) /\ WF_vars(Stalled(j))
  /\ WF_vars(FindTicket \/ createTestTransporter \/ SendMail)
  /\ WF_vars(CompleteJob)
  /\ WF_vars(Restart) /\ WF_vars(RedisReturns)

FairSpec == Spec /\ Fairness
-----------------------------------------------------------------------------
\* What agents are told of is complete, and what is monitored was told: a ticket
\* announced by ticket:created has its first message, and an SLA job exists only
\* for an announced ticket of High priority, whatever failed in createTicket.
MonitoredIsAnnounced ==
  /\ announced \subseteq messages
  /\ \A j \in Jobs : job[j] # "none" => j[1] \in announced /\ doc[j[1]].priority = "High"

\* A 201 for a ticket of High priority means that the SLA job it waited for is in
\* Redis, or that an error of the queue was swallowed by addSlaJob; no crash comes
\* in between.
AnsweredIsMonitored ==
  \A t \in Tickets :
    req[t] = "201" /\ doc[t].priority = "High" =>
      job[NextJob(t)] # "none" \/ NextJob(t) \in spoilt

\* The admin gets more than one mail for a ticket for two reasons only: BullMQ
\* found the job stalled, one mail more each time, or Redis went away before it
\* answered an addition, one job more each time.  A failure that the worker
\* catches never makes it send twice.
MailsBounded ==
  \A j \in Jobs : /\ mails[j] <= 1 + stalls[j]
                  /\ mails[j] > 0 => j[2] <= 1 + resent[j[1]]

\* An SLA job that is in Redis leads to a mail, unless an agent took the ticket up,
\* the worker's catch block swallowed a failure, or BullMQ gave the job up because
\* it stalled more than MaxStalled times: up to that many crashes of the process
\* or outages of Redis do not lose the escalation.
Escalates ==
  \A j \in Jobs :
    (job[j] = "delayed") ~> (mails[j] > 0 \/ doc[j[1]].status # "Open" \/ j \in spoilt)

\* createTicket answers in the end, even when Redis is away while it waits to add
\* the job (maxRetriesPerRequest null): the request is not left hanging.
RequestsEnd ==
  \A t \in Tickets : (req[t] = "triage") ~> (req[t] \in Replies)
=============================================================================
