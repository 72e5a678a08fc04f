------------------------ MODULE SlaEscalationProofs ------------------------
(***************************************************************************)
(* For any number of tickets, crashes, outages and failures: what is       *)
(* monitored was announced, what was answered is monitored, and the mails  *)
(* are bounded by BullMQ's stalls and the additions that were resent.      *)
(***************************************************************************)
EXTENDS SlaEscalation, TLAPS

\* Where createTicket is says what it has done: nothing is announced before the
\* first message, nothing is queued before the request is at the queue, and the
\* job that it waits for is not there yet.
RequestInv ==
  /\ \A t \in Tickets :
       /\ req[t] \in {"new", "triage", "create", "message"} => t \notin announced
       /\ req[t] \in {"new", "triage", "create", "message", "job"} => job[NextJob(t)] = "none"
       /\ req[t] = "job" => t \in announced /\ doc[t].priority = "High"
       /\ resent[t] <= outages
  /\ outages <= MaxOutages

\* A job is the first of its ticket, or one for each addition that was resent.
JobInv == \A j \in Jobs : job[j] # "none" => j[2] <= 1 + resent[j[1]]

\* The worker is on the way to the mail of job j.
Mailing(j) == current = j /\ at \in {"find", "transporter", "mail"}

\* A stall pays for a mail: a run of the job that was found stalled before its mail
\* leaves one stall over, which the run after it may use.
MailInv ==
  /\ at # "idle" => job[current] \in {"active", "wait", "failed", "completed"}
  /\ \A j \in Jobs :
       /\ job[j] = "none" => mails[j] = 0
       /\ mails[j] <= 1 + stalls[j]
       /\ job[j] \in {"delayed", "wait"} => mails[j] <= stalls[j]
       /\ Mailing(j) => mails[j] <= stalls[j] /\ job[j] # "completed"
       /\ Mailing(j) /\ job[j] = "wait" => mails[j] <= stalls[j] - 1

Inv == /\ TypeOK /\ RequestInv /\ JobInv /\ MailInv
       /\ MonitoredIsAnnounced /\ AnsweredIsMonitored

\* The next job of a ticket is a job.
LEMMA NextJobOK ==
  ASSUME TypeOK, NEW t \in Tickets
  PROVE  /\ NextJob(t) \in Jobs
         /\ NextJob(t)[1] = t /\ NextJob(t)[2] = resent[t] + 1
<1>1. MaxOutages \in Nat /\ resent[t] \in 0 .. MaxOutages
  BY SlaAssumption, Zenon DEF TypeOK
<1>2. resent[t] + 1 \in 1 .. MaxOutages + 1
  BY <1>1
<1>3. QED
  BY <1>2, Zenon DEF NextJob, Jobs

\* Jobs belong to tickets.
LEMMA JobOK ==
  ASSUME NEW j \in Jobs
  PROVE  j[1] \in Tickets /\ j[2] \in Nat /\ j # NoJob
<1>1. j[1] \in Tickets /\ j[2] \in 1 .. MaxOutages + 1 /\ j = <<j[1], j[2]>>
  BY DEF Jobs
<1>2. j[2] \in Nat
  BY <1>1, SlaAssumption
<1>3. j \in Tickets \X Nat
  BY <1>1, <1>2
<1>4. QED
  BY <1>1, <1>2, <1>3, SlaAssumption, Zenon

\* Additions for requests that wait for them make jobs that were not there.
LEMMA AddedOK ==
  ASSUME Inv, NEW ts \in SUBSET {t \in Tickets : req[t] = "job"}
  PROVE  /\ Added(ts) \in [Jobs -> JobStates]
         /\ \A j \in Jobs :
              \/ Added(ts)[j] = job[j] /\ (j[1] \in ts => j # NextJob(j[1]))
              \/ /\ Added(ts)[j] = "delayed" /\ job[j] = "none"
                 /\ j[1] \in ts /\ j = NextJob(j[1]) /\ req[j[1]] = "job"
<1>1. job \in [Jobs -> JobStates]
  BY Zenon DEF Inv, TypeOK
<1>2. \A t \in ts : t \in Tickets /\ req[t] = "job" /\ job[NextJob(t)] = "none"
  BY Zenon DEF Inv, RequestInv
<1>3. QED
  BY <1>1, <1>2, Zenon DEF Added, JobStates

LEMMA InitInv == Init => Inv
<1> SUFFICES ASSUME Init PROVE Inv
  OBVIOUS
<1>a. MaxStalled \in Nat /\ MaxOutages \in Nat
  BY SlaAssumption, Zenon
<1>1. TypeOK
  <2>2. Absent \in Doc
    BY Zenon DEF Absent, Doc
  <2>3. /\ stalls \in [Jobs -> 0 .. MaxStalled] /\ mails \in [Jobs -> Nat]
        /\ resent \in [Tickets -> 0 .. MaxOutages]
    BY <1>a DEF Init
  <2>4. {lapsed, redis, up} \subseteq BOOLEAN
    BY Zenon DEF Init
  <2>5. doc \in [Tickets -> Doc]
    BY <2>2, Zenon DEF Init
  <2> QED BY <2>3, <2>4, <2>5 DEF Init, TypeOK, Requests, JobStates
<1>2. /\ \A j \in Jobs : job[j] = "none" /\ mails[j] = 0 /\ stalls[j] = 0
      /\ \A t \in Tickets : resent[t] = 0 /\ req[t] = "new" /\ job[NextJob(t)] = "none"
  BY <1>1, NextJobOK, Zenon DEF Init
<1>3. outages = 0 /\ 0 <= MaxOutages /\ announced = {}
  BY <1>a DEF Init
<1>4. RequestInv
  BY <1>2, <1>3 DEF RequestInv
<1>5. JobInv /\ MailInv
  BY <1>2 DEF JobInv, MailInv, Mailing, Init
<1>6. MonitoredIsAnnounced /\ AnsweredIsMonitored
  BY <1>2, <1>3, Zenon DEF Init, MonitoredIsAnnounced, AnsweredIsMonitored
<1> QED BY <1>1, <1>4, <1>5, <1>6, Zenon DEF Inv

\* Steps of createTicket leave the worker alone.
LEMMA PostInv == ASSUME Inv, NEW t \in Tickets, Post(t) PROVE Inv'
<1>1. TypeOK'
  BY Zenon DEF Inv, TypeOK, Post, At, Goes, Requests, queueVars, workerVars, envVars
<1>2. RequestInv' /\ JobInv' /\ MonitoredIsAnnounced' /\ AnsweredIsMonitored'
  BY Zenon DEF Inv, TypeOK, RequestInv, JobInv, MonitoredIsAnnounced, AnsweredIsMonitored,
    NextJob, Post, At, Goes, queueVars, envVars
<1>3. MailInv'
  BY Zenon DEF Inv, MailInv, Mailing, Post, queueVars, workerVars
<1> QED BY <1>1, <1>2, <1>3, Zenon DEF Inv

LEMMA TriageInv == ASSUME Inv, NEW t \in Tickets, Triage(t) PROVE Inv'
<1>1. TypeOK'
  BY DEF Inv, TypeOK, Triage, At, Goes, Requests, Replies, queueVars, workerVars, envVars
<1>2. RequestInv' /\ JobInv' /\ MonitoredIsAnnounced' /\ AnsweredIsMonitored'
  <2>1. /\ req[t] = "triage"
        /\ req' = [req EXCEPT ![t] = "500"] \/ req' = [req EXCEPT ![t] = "create"]
        /\ UNCHANGED <<doc, messages, announced, resent, job, spoilt, outages>>
    BY Zenon DEF Triage, At, Goes, queueVars, envVars
  <2> QED BY <2>1, Zenon DEF Inv, TypeOK, RequestInv, JobInv, MonitoredIsAnnounced,
            AnsweredIsMonitored, NextJob
<1>3. MailInv'
  BY Zenon DEF Inv, MailInv, Mailing, Triage, queueVars, workerVars
<1> QED BY <1>1, <1>2, <1>3, Zenon DEF Inv

LEMMA CreateInv == ASSUME Inv, NEW t \in Tickets, Create(t) PROVE Inv'
<1> DEFINE new == [priority |-> Priority(answer[t]), status |-> "Open"]
<1>1. /\ req[t] = "create" /\ req' \in {[req EXCEPT ![t] = "message"], [req EXCEPT ![t] = "500"]}
      /\ doc' = doc \/ (new.priority \in Priorities /\ doc' = [doc EXCEPT ![t] = new])
      /\ faults' \in {faults, faults + 1}
  <2>1. doc \in [Tickets -> Doc]
    BY Zenon DEF Inv, TypeOK
  <2>2. /\ req[t] = "create"
        /\ \/ new.priority \in Priorities /\ doc' = [doc EXCEPT ![t] = new]
           \/ doc' = doc
           \/ doc' = [doc EXCEPT ![t] = IF new.priority \in Priorities THEN new ELSE @]
        /\ req' = [req EXCEPT ![t] = "message"] \/ req' = [req EXCEPT ![t] = "500"]
        /\ faults' = faults \/ faults' = faults + 1
    BY Zenon DEF Create, At, Goes, Fault
  <2> HIDE DEF new
  <2>3. new.priority \notin Priorities =>
          [doc EXCEPT ![t] = IF new.priority \in Priorities THEN new ELSE @] = doc
    BY <2>1, Zenon
  <2> QED BY <2>2, <2>3, Zenon
<1>2. TypeOK'
  <2>1. new.priority \in Priorities => new \in Doc
    BY Zenon DEF Doc
  <2>2. req' \in [Tickets -> Requests]
    BY <1>1 DEF Inv, TypeOK, Requests, Replies
  <2> HIDE DEF new
  <2>3. doc' \in [Tickets -> Doc]
    BY <1>1, <2>1 DEF Inv, TypeOK
  <2> QED BY <1>1, <2>2, <2>3, SMTT(30)
          DEF Inv, TypeOK, Create, queueVars, workerVars, envVars
<1> HIDE DEF new
<1>3. \A u \in Tickets \ {t} : doc'[u] = doc[u] /\ req'[u] = req[u]
  BY <1>1, Zenon DEF Inv, TypeOK
<1>4. req'[t] \in {"message", "500"}
  BY <1>1, Zenon DEF Inv, TypeOK
<1>5. UNCHANGED <<messages, announced, queueVars, workerVars, spoilt, outages>>
  BY Zenon DEF Create, envVars
<1>6. RequestInv' /\ JobInv' /\ AnsweredIsMonitored'
  BY <1>1, <1>3, <1>4, <1>5, Zenon DEF Inv, RequestInv, JobInv, AnsweredIsMonitored,
    NextJob, queueVars
<1>8. MonitoredIsAnnounced'
  <2>1. t \notin announced
    BY <1>1, Zenon DEF Inv, RequestInv
  <2> QED BY <1>3, <1>5, <2>1, JobOK, Zenon DEF Inv, MonitoredIsAnnounced, queueVars
<1>7. MailInv'
  BY <1>5, Zenon DEF Inv, MailInv, Mailing, queueVars, workerVars
<1> QED BY <1>2, <1>6, <1>7, <1>8, Zenon DEF Inv

LEMMA MessageCreateInv == ASSUME Inv, NEW t \in Tickets, MessageCreate(t) PROVE Inv'
<1>1. TypeOK'
  BY DEF Inv, TypeOK, MessageCreate, At, Goes, Fault, Requests, Replies,
         queueVars, workerVars, envVars
<1>2. RequestInv' /\ JobInv' /\ MonitoredIsAnnounced' /\ AnsweredIsMonitored'
  <2>1. /\ req[t] = "message"
        /\ \/ /\ messages' = messages \cup {t} /\ announced' = announced \cup {t}
              /\ req' = [req EXCEPT ![t] = IF doc[t].priority = "High" THEN "job" ELSE "201"]
           \/ /\ req' = [req EXCEPT ![t] = "500"] /\ announced' = announced
              /\ messages' = messages \/ messages' = messages \cup {t}
        /\ UNCHANGED <<doc, resent, job, spoilt, outages>>
    BY Zenon DEF MessageCreate, At, Goes, queueVars, envVars
  <2>2. MonitoredIsAnnounced' /\ JobInv'
    BY <2>1, Zenon DEF Inv, MonitoredIsAnnounced, JobInv
  <2>3. \A u \in Tickets \ {t} : req'[u] = req[u] /\ (u \in announced' <=> u \in announced)
    BY <2>1, Zenon DEF Inv, TypeOK
  <2>4. \/ req'[t] \in {"201", "500"} /\ (req'[t] = "201" => doc[t].priority # "High")
        \/ req'[t] = "job" /\ doc[t].priority = "High" /\ t \in announced'
    BY <2>1, Zenon DEF Inv, TypeOK
  <2>5. RequestInv' /\ AnsweredIsMonitored'
    BY <2>1, <2>3, <2>4, Zenon DEF Inv, RequestInv, AnsweredIsMonitored, NextJob
  <2> QED BY <2>2, <2>5, Zenon
<1>3. MailInv'
  BY Zenon DEF Inv, MailInv, Mailing, MessageCreate, queueVars, workerVars
<1> QED BY <1>1, <1>2, <1>3, Zenon DEF Inv

LEMMA AddSlaJobInv == ASSUME Inv, NEW t \in Tickets, AddSlaJob(t) PROVE Inv'
<1>1. /\ req[t] = "job" /\ req' = [req EXCEPT ![t] = "201"]
      /\ \/ job' = Added({t}) /\ spoilt' = spoilt
         \/ (job' = job \/ job' = Added({t})) /\ spoilt' = spoilt \cup {NextJob(t)}
      /\ faults' \in {faults, faults + 1}
      /\ UNCHANGED <<answer, doc, messages, announced, resent, stalls, workerVars, envVars>>
  BY Zenon DEF AddSlaJob, At, Goes, Fault
<1>2. TypeOK /\ NextJob(t) \in Jobs /\ NextJob(t)[1] = t /\ NextJob(t)[2] = resent[t] + 1
  BY NextJobOK, Zenon DEF Inv
<1>3. /\ job' \in [Jobs -> JobStates]
      /\ \A j \in Jobs : \/ job'[j] = job[j]
                         \/ job'[j] = "delayed" /\ job[j] = "none" /\ j = NextJob(t)
  <2>1. {t} \in SUBSET {u \in Tickets : req[u] = "job"}
    BY <1>1, Zenon
  <2>2. \A j \in Jobs : j[1] \in {t} /\ j = NextJob(j[1]) => j = NextJob(t)
    BY Zenon
  <2>3. /\ Added({t}) \in [Jobs -> JobStates]
        /\ \A j \in Jobs : \/ Added({t})[j] = job[j]
                           \/ Added({t})[j] = "delayed" /\ job[j] = "none" /\ j = NextJob(t)
    <3>1. /\ Added({t}) \in [Jobs -> JobStates]
          /\ \A j \in Jobs : \/ Added({t})[j] = job[j]
                             \/ /\ Added({t})[j] = "delayed" /\ job[j] = "none"
                                /\ j[1] \in {t} /\ j = NextJob(j[1])
      BY <2>1, AddedOK, SMTT(30)
    <3> QED BY <2>2, <3>1, Zenon
  <2>4. CASE job' = job
    BY <1>2, <2>4, Zenon DEF TypeOK
  <2>5. CASE job' = Added({t})
    BY <2>3, <2>5, Zenon
  <2> QED BY <1>1, <2>4, <2>5, Zenon
<1>4. job'[NextJob(t)] = "delayed" \/ NextJob(t) \in spoilt'
  BY <1>1, <1>2, Zenon DEF Added
<1>5. at # "idle" => current \in Jobs /\ job[current] # "none"
  BY Zenon DEF Inv, TypeOK, MailInv
<1>6. at # "idle" => job'[current] = job[current]
  BY <1>3, <1>5, Zenon
<1>7. TypeOK'
  <2>1. req' \in [Tickets -> Requests] /\ faults' \in Nat
    BY <1>1, <1>2 DEF TypeOK, Requests, Replies
  <2>2. spoilt' \subseteq Jobs
    BY <1>1, <1>2, Zenon DEF TypeOK
  <2> QED BY <1>1, <1>2, <1>3, <1>6, <2>1, <2>2, Zenon DEF TypeOK, workerVars, envVars
<1>8. \A u \in Tickets \ {t} : req'[u] = req[u] /\ job'[NextJob(u)] = job[NextJob(u)]
  <2>1. \A u \in Tickets \ {t} : NextJob(u) \in Jobs /\ NextJob(u) # NextJob(t)
    BY <1>2, NextJobOK, Zenon
  <2> QED BY <1>1, <1>2, <1>3, <2>1, Zenon DEF TypeOK
<1>9. req'[t] = "201" /\ \A u \in Tickets : NextJob(u)' = NextJob(u)
  BY <1>1, <1>2, Zenon DEF TypeOK, NextJob
<1>10. RequestInv'
  BY <1>1, <1>8, <1>9, Zenon DEF Inv, RequestInv, envVars
<1>11. AnsweredIsMonitored'
  <2>1. ASSUME NEW u \in Tickets, u # t, req[u] = "201", doc[u].priority = "High"
        PROVE  job'[NextJob(u)] # "none" \/ NextJob(u) \in spoilt'
    BY <1>1, <1>8, <2>1, Zenon DEF Inv, AnsweredIsMonitored
  <2> QED BY <1>1, <1>4, <1>8, <1>9, <2>1, Zenon DEF AnsweredIsMonitored
<1>12. MonitoredIsAnnounced'
  <2>1. t \in announced /\ doc[t].priority = "High"
    BY <1>1, Zenon DEF Inv, RequestInv
  <2>2. NextJob(t)[1] \in announced /\ doc[NextJob(t)[1]].priority = "High"
    BY <1>2, <2>1, Zenon
  <2> QED BY <1>1, <1>3, <2>2, Zenon DEF Inv, MonitoredIsAnnounced
<1>13. JobInv'
  <2>1. resent[t] \in Nat
    BY <1>2, SlaAssumption DEF TypeOK
  <2>2. NextJob(t)[2] <= 1 + resent[NextJob(t)[1]]
    BY <1>2, <2>1
  <2> QED BY <1>1, <1>3, <2>2, Zenon DEF Inv, JobInv
<1>14. MailInv'
  <2>1. \A j \in Jobs : job[j] = "none" => mails[j] <= stalls[j]
    <3>1. \A j \in Jobs : stalls[j] \in Nat /\ (job[j] = "none" => mails[j] = 0)
      BY <1>2, SlaAssumption DEF Inv, MailInv, TypeOK
    <3> QED BY <3>1
  <2>2. \A j \in Jobs : Mailing(j) => job[j] # "none"
    BY <1>5, Zenon DEF Mailing
  <2> QED BY <1>1, <1>3, <1>6, <2>1, <2>2, Zenon DEF Inv, MailInv, Mailing, workerVars
<1> QED BY <1>7, <1>10, <1>11, <1>12, <1>13, <1>14, Zenon DEF Inv

\* Steps of the queue and of the worker leave the requests alone.
LEMMA QueueStep ==
  ASSUME Inv, UNCHANGED <<createVars, resent>>, outages' = outages,
         spoilt \subseteq spoilt',
         \A j \in Jobs : job[j] = "none" <=> job'[j] = "none"
  PROVE  RequestInv' /\ JobInv' /\ MonitoredIsAnnounced' /\ AnsweredIsMonitored'
<1>1. \A t \in Tickets : NextJob(t) \in Jobs /\ NextJob(t)' = NextJob(t)
  BY NextJobOK, Zenon DEF Inv, NextJob
<1>2. RequestInv' /\ AnsweredIsMonitored'
  BY <1>1, Zenon DEF Inv, RequestInv, AnsweredIsMonitored, createVars
<1>3. JobInv' /\ MonitoredIsAnnounced'
  BY Zenon DEF Inv, JobInv, MonitoredIsAnnounced, createVars
<1> QED BY <1>2, <1>3, Zenon

LEMMA DelayOverInv == ASSUME Inv, NEW j \in Jobs, DelayOver(j) PROVE Inv'
<1>1. /\ job[j] = "delayed" /\ job' = [job EXCEPT ![j] = "wait"]
      /\ UNCHANGED <<createVars, resent, stalls, workerVars, spoilt, envVars, faults>>
  BY Zenon DEF DelayOver
<1>2. at # "idle" => current # j
  BY <1>1, Zenon DEF Inv, MailInv
<1>3. TypeOK'
  BY <1>1, <1>2, Zenon DEF Inv, TypeOK, JobStates, createVars, workerVars, envVars
<1>4. MailInv'
  BY <1>1, <1>2, Zenon DEF Inv, TypeOK, MailInv, Mailing, workerVars
<1>5. RequestInv' /\ JobInv' /\ MonitoredIsAnnounced' /\ AnsweredIsMonitored'
  BY <1>1, QueueStep, Zenon DEF Inv, TypeOK, envVars
<1> QED BY <1>3, <1>4, <1>5, Zenon DEF Inv

LEMMA TakeJobInv == ASSUME Inv, NEW j \in Jobs, TakeJob(j) PROVE Inv'
<1>1. /\ up /\ at = "idle" /\ job[j] = "wait" /\ job' = [job EXCEPT ![j] = "active"]
      /\ at' = "find" /\ current' = j /\ lapsed' = FALSE
      /\ UNCHANGED <<createVars, resent, stalls, mails, spoilt, envVars, faults>>
  BY Zenon DEF TakeJob
<1>2. TypeOK'
  BY <1>1, Zenon DEF Inv, TypeOK, JobStates, createVars, envVars
<1>3. MailInv'
  BY <1>1, Zenon DEF Inv, TypeOK, MailInv, Mailing
<1>4. RequestInv' /\ JobInv' /\ MonitoredIsAnnounced' /\ AnsweredIsMonitored'
  BY <1>1, QueueStep, Zenon DEF Inv, TypeOK, envVars
<1> QED BY <1>2, <1>3, <1>4, Zenon DEF Inv

LEMMA StalledInv == ASSUME Inv, NEW j \in Jobs, Stalled(j) PROVE Inv'
<1>1. /\ job[j] = "active" /\ (current # j \/ lapsed)
      /\ UNCHANGED <<createVars, resent, workerVars, envVars, faults>>
  BY Zenon DEF Stalled
<1>2. MaxStalled \in Nat
  BY SlaAssumption, Zenon
<1>3. CASE stalls[j] < MaxStalled
  <2>1. /\ stalls' = [stalls EXCEPT ![j] = @ + 1] /\ job' = [job EXCEPT ![j] = "wait"]
        /\ spoilt' = spoilt
    BY <1>3, Zenon DEF Stalled
  <2>2. TypeOK'
    <3>1. job' \in [Jobs -> JobStates] /\ stalls' \in [Jobs -> 0 .. MaxStalled]
      BY <1>2, <1>3, <2>1 DEF Inv, TypeOK, JobStates
    <3>2. at # "idle" => lapsed \/ job'[current] = job[current]
      BY <1>1, <2>1, Zenon DEF Inv, TypeOK
    <3> QED BY <1>1, <2>1, <3>1, <3>2, Zenon DEF Inv, TypeOK, createVars, workerVars,
              envVars
  <2>3. MailInv'
    BY <1>1, <1>2, <2>1, SMTT(30) DEF Inv, TypeOK, MailInv, Mailing, workerVars
  <2>4. RequestInv' /\ JobInv' /\ MonitoredIsAnnounced' /\ AnsweredIsMonitored'
    BY <1>1, <2>1, QueueStep, Zenon DEF Inv, TypeOK, envVars
  <2> QED BY <2>2, <2>3, <2>4, Zenon DEF Inv
<1>4. CASE ~(stalls[j] < MaxStalled)
  <2>1. /\ stalls' = stalls /\ job' = [job EXCEPT ![j] = "failed"]
        /\ spoilt' = spoilt \cup {j}
    BY <1>4, Zenon DEF Stalled
  <2>2. TypeOK'
    BY <1>1, <2>1, Zenon DEF Inv, TypeOK, JobStates, createVars, workerVars, envVars
  <2>3. MailInv'
    BY <1>1, <2>1, Zenon DEF Inv, TypeOK, MailInv, Mailing, workerVars
  <2>4. RequestInv' /\ JobInv' /\ MonitoredIsAnnounced' /\ AnsweredIsMonitored'
    BY <1>1, <2>1, QueueStep, Zenon DEF Inv, TypeOK, envVars
  <2> QED BY <2>2, <2>3, <2>4, Zenon DEF Inv
<1> QED BY <1>3, <1>4, Zenon

\* Steps of the processor go on towards "complete", with a mail at most in the last.
LEMMA ProcessorStep ==
  ASSUME Inv, at \in {"find", "transporter", "mail"},
         at' \in {"transporter", "mail", "complete"},
         spoilt' \in {spoilt, spoilt \cup {current}}, faults' \in {faults, faults + 1},
         mails' = mails \/ (at' = "complete" /\ mails' = Sent),
         UNCHANGED <<createVars, queueVars, current, lapsed, envVars>>
  PROVE  Inv'
<1>1. current \in Jobs /\ (lapsed \/ job[current] = "active") /\ up
  BY Zenon DEF Inv, TypeOK
<1>2. TypeOK'
  <2>1. mails' \in [Jobs -> Nat]
    <3>1. mails \in [Jobs -> Nat]
      BY Zenon DEF Inv, TypeOK
    <3> QED BY <1>1, <3>1 DEF Sent
  <2> QED BY <1>1, <2>1, SMTT(30) DEF Inv, TypeOK, createVars, queueVars, envVars
<1>3. MailInv'
  <2>1. CASE mails' = mails
    BY <1>1, <2>1, Zenon DEF Inv, TypeOK, MailInv, Mailing, queueVars
  <2>2. CASE at' = "complete" /\ mails' = Sent
    <3>1. /\ mails'[current] = mails[current] + 1
          /\ \A j \in Jobs \ {current} : mails'[j] = mails[j]
      BY <1>1, <2>2, Zenon DEF Inv, TypeOK, Sent
    <3>2. mails[current] \in Nat /\ stalls[current] \in Nat
      BY <1>1, SlaAssumption DEF Inv, TypeOK
    <3>3. /\ mails[current] <= stalls[current]
          /\ job[current] = "wait" => mails[current] <= stalls[current] - 1
      BY <1>1, Zenon DEF Inv, MailInv, Mailing
    <3> QED BY <1>1, <2>2, <3>1, <3>2, <3>3, SMTT(30) DEF Inv, MailInv, Mailing, queueVars
  <2> QED BY <2>1, <2>2, Zenon
<1>4. RequestInv' /\ JobInv' /\ MonitoredIsAnnounced' /\ AnsweredIsMonitored'
  BY <1>1, QueueStep, Zenon DEF queueVars, envVars
<1> QED BY <1>2, <1>3, <1>4, Zenon DEF Inv

LEMMA ProcessorInv ==
  ASSUME Inv, FindTicket \/ createTestTransporter \/ SendMail PROVE Inv'
<1>1. CASE FindTicket
  BY <1>1, ProcessorStep, Zenon DEF FindTicket, Caught, Fault
<1>2. CASE createTestTransporter
  BY <1>2, ProcessorStep, Zenon DEF createTestTransporter, Caught, Fault
<1>3. CASE SendMail
  BY <1>3, ProcessorStep, Zenon DEF SendMail, Caught, Fault
<1> QED BY <1>1, <1>2, <1>3, Zenon

LEMMA CompleteJobInv == ASSUME Inv, CompleteJob PROVE Inv'
<1>1. /\ at = "complete" /\ at' = "idle" /\ current' = NoJob /\ lapsed' = FALSE
      /\ job' = (IF lapsed THEN job ELSE [job EXCEPT ![current] = "completed"])
      /\ UNCHANGED <<createVars, resent, stalls, mails, spoilt, envVars, faults>>
  BY Zenon DEF CompleteJob
<1>2. current \in Jobs /\ (lapsed \/ job[current] = "active")
  BY <1>1, Zenon DEF Inv, TypeOK
<1>3. job' \in [Jobs -> JobStates] /\ \A j \in Jobs : job'[j] \in {job[j], "completed"}
  BY <1>1, <1>2, Zenon DEF Inv, TypeOK, JobStates
<1>4. \A j \in Jobs : job[j] = "none" <=> job'[j] = "none"
  BY <1>1, <1>2, Zenon DEF Inv, TypeOK
<1>5. TypeOK'
  BY <1>1, <1>3, Zenon DEF Inv, TypeOK, createVars, envVars
<1>6. NoJob \notin Jobs
  BY JobOK, Zenon
<1>7. MailInv'
  BY <1>1, <1>3, <1>6, Zenon DEF Inv, MailInv, Mailing
<1>8. RequestInv' /\ JobInv' /\ MonitoredIsAnnounced' /\ AnsweredIsMonitored'
  BY <1>1, <1>3, <1>4, QueueStep, Zenon DEF envVars
<1> QED BY <1>5, <1>7, <1>8, Zenon DEF Inv

LEMMA WorkInv == ASSUME Inv, NEW t \in Tickets, Work(t) PROVE Inv'
<1>1. doc' \in [Tickets -> Doc] /\ \A u \in Tickets : doc'[u].priority = doc[u].priority
  <2>1. PICK st \in {"In-Progress", "Resolved"} : doc' = [doc EXCEPT ![t].status = st]
    BY Zenon DEF Work
  <2>2. doc \in [Tickets -> Doc]
    BY Zenon DEF Inv, TypeOK
  <2> DEFINE new == [doc[t] EXCEPT !.status = st]
  <2>3. new \in Doc /\ new.priority = doc[t].priority
    BY <2>2, Zenon DEF Doc
  <2>4. doc' = [doc EXCEPT ![t] = new]
    BY <2>1, <2>2, Zenon
  <2> HIDE DEF new
  <2> QED BY <2>2, <2>3, <2>4, Zenon
<1>2. UNCHANGED <<req, answer, messages, announced, queueVars, workerVars, spoilt, envVars, faults>>
  BY Zenon DEF Work
<1>3. TypeOK'
  BY <1>1, <1>2, Zenon DEF Inv, TypeOK, queueVars, workerVars, envVars
<1>4. MailInv'
  BY <1>2, Zenon DEF Inv, MailInv, Mailing, queueVars, workerVars
<1>5. RequestInv' /\ JobInv' /\ MonitoredIsAnnounced' /\ AnsweredIsMonitored'
  BY <1>1, <1>2, JobOK, Zenon DEF Inv, RequestInv, JobInv, MonitoredIsAnnounced,
    AnsweredIsMonitored, NextJob, queueVars, envVars
<1> QED BY <1>3, <1>4, <1>5, Zenon DEF Inv

\* Additions that were under way when the process died or Redis went away.
LEMMA AdditionsInv ==
  ASSUME Inv, NEW ts \in SUBSET {t \in Tickets : req[t] = "job"}, job' = Added(ts),
         UNCHANGED <<stalls, mails, announced, messages>>,
         \A t \in Tickets : doc'[t].priority = doc[t].priority,
         \A t \in Tickets : resent'[t] \in Nat /\ resent[t] <= resent'[t],
         (at' = at /\ current' = current) \/ (at' = "idle" /\ current' = NoJob)
  PROVE  MailInv' /\ JobInv' /\ MonitoredIsAnnounced'
<1>1. TypeOK /\ \A t \in Tickets : NextJob(t)[1] = t /\ NextJob(t)[2] = resent[t] + 1
  BY NextJobOK, Zenon DEF Inv
<1>2. \A j \in Jobs : \/ job'[j] = job[j]
                      \/ /\ job'[j] = "delayed" /\ job[j] = "none"
                         /\ j = NextJob(j[1]) /\ req[j[1]] = "job"
  BY AddedOK, Zenon
<1>3. \A j \in Jobs : j[1] \in Tickets /\ j[2] \in Nat /\ j # NoJob
  BY JobOK, Zenon
<1>4. MailInv'
  <2>1. \A j \in Jobs : job[j] = "none" => mails[j] <= stalls[j]
    <3>1. \A j \in Jobs : stalls[j] \in Nat /\ (job[j] = "none" => mails[j] = 0)
      BY <1>1, SlaAssumption DEF Inv, MailInv, TypeOK
    <3> QED BY <3>1
  <2>2. at # "idle" => current \in Jobs /\ job[current] # "none"
    BY <1>1, Zenon DEF Inv, TypeOK, MailInv
  <2>3. CASE at' = "idle" /\ current' = NoJob
    <3>1. \A j \in Jobs : ~Mailing(j)'
      BY <1>3, <2>3, Zenon DEF Mailing
    <3>2. ASSUME NEW j \in Jobs
          PROVE  /\ job'[j] = "none" => mails[j] = 0
                 /\ mails[j] <= 1 + stalls[j]
                 /\ job'[j] \in {"delayed", "wait"} => mails[j] <= stalls[j]
      BY <1>2, <2>1, Zenon DEF Inv, MailInv
    <3> QED BY <2>3, <3>1, <3>2, Zenon DEF MailInv
  <2>4. CASE at' = at /\ current' = current
    <3>1. at # "idle" => job'[current] = job[current]
      BY <1>2, <2>2, Zenon
    <3>2. \A j \in Jobs : Mailing(j) => job[j] # "none" /\ job'[j] = job[j]
      BY <2>2, <3>1, Zenon DEF Mailing
    <3>3. \A j \in Jobs : Mailing(j)' <=> Mailing(j)
      BY <2>4, Zenon DEF Mailing
    <3>4. at # "idle" => job'[current] \in {"active", "wait", "failed", "completed"}
      BY <3>1, Zenon DEF Inv, MailInv
    <3>5. ASSUME NEW j \in Jobs
          PROVE  /\ job'[j] = "none" => mails[j] = 0
                 /\ mails[j] <= 1 + stalls[j]
                 /\ job'[j] \in {"delayed", "wait"} => mails[j] <= stalls[j]
                 /\ Mailing(j) => mails[j] <= stalls[j] /\ job'[j] # "completed"
                 /\ Mailing(j) /\ job'[j] = "wait" => mails[j] <= stalls[j] - 1
      <4>1. /\ job'[j] = "none" => mails[j] = 0
            /\ mails[j] <= 1 + stalls[j]
            /\ job'[j] \in {"delayed", "wait"} => mails[j] <= stalls[j]
        BY <1>2, <2>1, Zenon DEF Inv, MailInv
      <4>2. ASSUME Mailing(j)
            PROVE  /\ mails[j] <= stalls[j] /\ job'[j] # "completed"
                   /\ job'[j] = "wait" => mails[j] <= stalls[j] - 1
        BY <3>2, <4>2, Zenon DEF Inv, MailInv
      <4> QED BY <4>1, <4>2, Zenon
    <3> QED BY <2>4, <3>3, <3>4, <3>5, Zenon DEF MailInv
  <2> QED BY <2>3, <2>4, Zenon
<1>5. JobInv'
  <2> SUFFICES ASSUME NEW j \in Jobs, job'[j] # "none" PROVE j[2] <= 1 + resent'[j[1]]
    BY Zenon DEF JobInv
  <2>1. resent[j[1]] \in Nat /\ resent'[j[1]] \in Nat /\ resent[j[1]] <= resent'[j[1]]
    BY <1>1, <1>3, SlaAssumption DEF TypeOK
  <2>2. j[2] <= 1 + resent[j[1]]
    <3>1. CASE job[j] # "none"
      BY <3>1, Zenon DEF Inv, JobInv
    <3>2. CASE job[j] = "none"
      <4>1. j[2] = resent[j[1]] + 1
        <5>1. j = NextJob(j[1])
          BY <1>2, <3>2, Zenon
        <5>2. j[1] \in Tickets /\ NextJob(j[1])[2] = resent[j[1]] + 1
          BY <1>1, <1>3, Zenon
        <5> QED BY <5>1, <5>2, Zenon
      <4> QED BY <2>1, <4>1
    <3> QED BY <3>1, <3>2, Zenon
  <2> QED BY <1>3, <2>1, <2>2
<1>6. MonitoredIsAnnounced'
  <2> SUFFICES ASSUME NEW j \in Jobs, job'[j] # "none"
               PROVE  j[1] \in announced /\ doc[j[1]].priority = "High"
    BY <1>3, Zenon DEF Inv, MonitoredIsAnnounced
  <2>1. CASE job[j] # "none"
    BY <2>1, Zenon DEF Inv, MonitoredIsAnnounced
  <2>2. CASE req[j[1]] = "job"
    BY <1>3, <2>2, Zenon DEF Inv, RequestInv
  <2> QED BY <1>2, <2>1, <2>2, Zenon
<1> QED BY <1>4, <1>5, <1>6, Zenon

LEMMA CrashInv == ASSUME Inv, Crash PROVE Inv'
<1>1. PICK ts \in SUBSET {t \in Tickets : req[t] = "job" /\ redis} : job' = Added(ts)
  BY Zenon DEF Crash
<1>2. /\ up' = FALSE /\ crashes' = crashes + 1
      /\ req' = [t \in Tickets |-> IF req[t] \in {"new"} \cup Replies THEN req[t] ELSE "lost"]
      /\ at' = "idle" /\ current' = NoJob /\ lapsed' = FALSE
      /\ UNCHANGED <<answer, doc, messages, announced, resent, stalls, mails, spoilt, redis,
                     outages, faults>>
  BY Zenon DEF Crash
<1>a. ts \in SUBSET {t \in Tickets : req[t] = "job"}
  BY Zenon
<1>b. /\ TypeOK
      /\ \A t \in Tickets : NextJob(t) \in Jobs /\ NextJob(t)[1] = t /\ NextJob(t)' = NextJob(t)
  BY <1>2, NextJobOK, Zenon DEF Inv, NextJob
<1>3. req' \in [Tickets -> Requests]
  BY <1>2, Zenon DEF Inv, TypeOK, Requests, Replies
<1>4. /\ job' \in [Jobs -> JobStates]
      /\ \A j \in Jobs : job'[j] = job[j] \/ (job[j] = "none" /\ req[j[1]] = "job")
  BY <1>1, <1>a, AddedOK, Zenon
<1>5. TypeOK'
  <2>1. {lapsed, redis, up}' \subseteq BOOLEAN
    BY <1>2, Zenon DEF Inv, TypeOK
  <2>2. {crashes, outages, faults}' \subseteq Nat
    BY <1>2 DEF Inv, TypeOK
  <2> QED BY <1>2, <1>3, <1>4, <2>1, <2>2, Zenon DEF Inv, TypeOK
<1>6. \A t \in Tickets : resent[t] \in Nat /\ resent[t] <= resent[t]
  BY <1>b, SlaAssumption DEF TypeOK
<1>7. MailInv' /\ JobInv' /\ MonitoredIsAnnounced'
  BY <1>1, <1>2, <1>a, <1>6, AdditionsInv, Zenon
<1>8. \A t \in Tickets : /\ req'[t] \in {"new", "201", "500", "lost"}
                         /\ req'[t] \in {"new", "201"} => /\ req[t] = req'[t]
                                                          /\ job'[NextJob(t)] = job[NextJob(t)]
  <2>1. \A t \in Tickets : /\ req'[t] \in {"new", "201", "500", "lost"}
                           /\ req'[t] \in {"new", "201"} => req[t] = req'[t]
    BY <1>2, Zenon DEF Replies
  <2> QED BY <1>b, <1>4, <2>1, Zenon
<1>9. RequestInv' /\ AnsweredIsMonitored'
  <2>1. AnsweredIsMonitored'
    <3> SUFFICES ASSUME NEW t \in Tickets, req'[t] = "201", doc[t].priority = "High"
                 PROVE  job'[NextJob(t)] # "none" \/ NextJob(t) \in spoilt
      BY <1>2, <1>b DEF AnsweredIsMonitored
    <3> QED BY <1>8, Zenon DEF Inv, AnsweredIsMonitored
  <2>2. \A t \in Tickets : req'[t] \in {"triage", "create", "message", "job"} => FALSE
    BY <1>8, Zenon
  <2>3. \A t \in Tickets : req'[t] = "new" => /\ t \notin announced
                                              /\ job'[NextJob(t)] = "none"
    BY <1>8, Zenon DEF Inv, RequestInv
  <2>4. RequestInv'
    <3>1. \A t \in Tickets : resent'[t] <= outages'
      BY <1>2, Zenon DEF Inv, RequestInv
    <3>2. outages' <= MaxOutages
      BY <1>2, Zenon DEF Inv, RequestInv
    <3> QED BY <1>2, <1>b, <2>2, <2>3, <3>1, <3>2, SMTT(30) DEF RequestInv
  <2> QED BY <2>1, <2>4, Zenon
<1> QED BY <1>5, <1>7, <1>9, Zenon DEF Inv

LEMMA RedisLeavesInv == ASSUME Inv, RedisLeaves PROVE Inv'
<1>1. /\ outages < MaxOutages /\ redis' = FALSE /\ outages' = outages + 1
      /\ UNCHANGED <<createVars, stalls, at, current, mails, spoilt, up, crashes, faults>>
  BY Zenon DEF RedisLeaves
<1>2. TypeOK /\ MaxOutages \in Nat /\ outages \in Nat
  BY SlaAssumption, Zenon DEF Inv, TypeOK
<1>3. \A t \in Tickets : resent[t] \in Nat /\ resent[t] <= outages
  BY <1>2 DEF Inv, RequestInv, TypeOK
<1>4. outages' <= MaxOutages /\ outages' \in Nat
  BY <1>1, <1>2
<1>5. ASSUME job' \in [Jobs -> JobStates], resent' \in [Tickets -> 0 .. MaxOutages],
             lapsed' = lapsed \/ lapsed' = TRUE,
             at # "idle" => lapsed' \/ job'[current] = "active"
      PROVE  TypeOK'
  <2>1. lapsed' \in BOOLEAN /\ redis' \in BOOLEAN /\ up' \in BOOLEAN
    BY <1>1, <1>2, <1>5, Zenon DEF TypeOK
  <2>2. {crashes, outages, faults}' \subseteq Nat
    BY <1>1, <1>2, <1>4, Zenon DEF TypeOK
  <2> QED BY <1>1, <1>2, <1>5, <2>1, <2>2, Zenon DEF TypeOK, createVars
<1>6. CASE \E ts \in SUBSET {t \in Tickets : At(t, "job")} :
             /\ job' = Added(ts)
             /\ resent' = [t \in Tickets |-> IF t \in ts THEN resent[t] + 1 ELSE resent[t]]
             /\ UNCHANGED lapsed
  <2>1. PICK ts \in SUBSET {t \in Tickets : At(t, "job")} :
             /\ job' = Added(ts)
             /\ resent' = [t \in Tickets |-> IF t \in ts THEN resent[t] + 1 ELSE resent[t]]
             /\ UNCHANGED lapsed
    BY <1>6, Zenon
  <2>2. ts \in SUBSET {t \in Tickets : req[t] = "job"}
    BY Zenon DEF At
  <2>3. /\ job' \in [Jobs -> JobStates]
        /\ \A j \in Jobs : \/ job'[j] = job[j]
                           \/ /\ job[j] = "none" /\ j[1] \in ts /\ j = NextJob(j[1])
    BY <2>1, <2>2, AddedOK, Zenon
  <2>4. \A t \in Tickets : /\ resent'[t] \in 0 .. MaxOutages
                           /\ resent[t] <= resent'[t] /\ resent'[t] <= outages'
                           /\ resent'[t] \in Nat
                           /\ t \in ts => resent'[t] = resent[t] + 1
                           /\ t \notin ts => resent'[t] = resent[t]
    BY <1>1, <1>2, <1>3, <2>1
  <2>5. resent' \in [Tickets -> 0 .. MaxOutages]
    BY <2>1, <2>4, Zenon
  <2>6. at # "idle" => current \in Jobs /\ job'[current] = job[current]
    BY <1>2, <2>3, Zenon DEF Inv, MailInv, TypeOK
  <2>7. TypeOK'
    BY <1>2, <1>5, <2>1, <2>3, <2>5, <2>6, Zenon DEF TypeOK
  <2>8. MailInv' /\ JobInv' /\ MonitoredIsAnnounced'
    <3>1. UNCHANGED <<doc, stalls, mails, announced, messages, at, current>>
      BY <1>1, Zenon DEF createVars
    <3>2. \A t \in Tickets : doc'[t].priority = doc[t].priority
      BY <3>1, Zenon
    <3>3. \A t \in Tickets : resent'[t] \in Nat /\ resent[t] <= resent'[t]
      BY <2>4, Zenon
    <3>4. job' = Added(ts) /\ at' = at /\ current' = current
      BY <2>1, <3>1, Zenon
    <3>5. UNCHANGED <<stalls, mails, announced, messages>>
      BY <3>1, Zenon
    <3> QED BY <2>2, <3>2, <3>3, <3>4, <3>5, AdditionsInv, Zenon
  <2>9. ASSUME NEW t \in ts PROVE job'[NextJob(t)'] = "none"
    <3>1. NextJob(t)' \in Jobs /\ NextJob(t)'[1] = t /\ NextJob(t)'[2] = resent'[t] + 1
      <4>1. t \in Tickets /\ resent'[t] + 1 \in 1 .. MaxOutages + 1
        BY <1>2, <2>4, <2>9
      <4> QED BY <4>1, Zenon DEF NextJob, Jobs
    <3>2. NextJob(t)[2] = resent[t] + 1
      BY <1>2, <2>9, NextJobOK, Zenon
    <3>3. NextJob(t)'[2] = resent[t] + 2 /\ resent[t] \in Nat
      BY <1>3, <2>4, <2>9, <3>1
    <3>4. NextJob(t)' # NextJob(t)
      BY <3>2, <3>3
    <3>5. ~(NextJob(t)'[2] <= 1 + resent[NextJob(t)'[1]])
      BY <3>1, <3>3
    <3>6. job[NextJob(t)'] = "none"
      BY <3>1, <3>5, Zenon DEF Inv, JobInv
    <3> QED BY <2>3, <3>1, <3>4, <3>6, Zenon
  <2>10. ASSUME NEW t \in Tickets \ ts
         PROVE  NextJob(t)' = NextJob(t) /\ job'[NextJob(t)] = job[NextJob(t)]
    <3>1. NextJob(t)' = NextJob(t)
      BY <2>4, Zenon DEF NextJob
    <3> QED BY <1>2, <2>3, <3>1, NextJobOK, Zenon
  <2>11. RequestInv' /\ AnsweredIsMonitored'
    <3>1. UNCHANGED <<req, doc, announced, spoilt>> /\ \A t \in ts : req[t] = "job"
      BY <1>1, <2>2, Zenon DEF createVars
    <3>2. AnsweredIsMonitored'
      BY <2>10, <3>1, Zenon DEF Inv, AnsweredIsMonitored
    <3>3. \A t \in Tickets : req[t] \in {"new", "triage", "create", "message", "job"} =>
                               job'[NextJob(t)'] = "none"
      BY <2>9, <2>10, Zenon DEF Inv, RequestInv
    <3>4. RequestInv'
      BY <1>4, <2>4, <3>1, <3>3, Zenon DEF Inv, RequestInv
    <3> QED BY <3>2, <3>4, Zenon
  <2> QED BY <2>7, <2>8, <2>11, Zenon DEF Inv
<1>7. ASSUME NEW j \in Jobs, NEW st \in {"active", "completed"}, job[j] \notin {"none", "delayed"},
             job' = [job EXCEPT ![j] = st], resent' = resent,
             \/ at = "idle" /\ lapsed' = lapsed /\ st = "active"
             \/ at = "complete" /\ j = current /\ lapsed' = TRUE
      PROVE  Inv'
  <2>1. job' \in [Jobs -> JobStates] /\ \A k \in Jobs : job[k] = "none" <=> job'[k] = "none"
    BY <1>2, <1>7, Zenon DEF TypeOK, JobStates
  <2>2. TypeOK'
    BY <1>2, <1>5, <1>7, <2>1, Zenon DEF TypeOK
  <2>3. MailInv'
    BY <1>1, <1>2, <1>7, Zenon DEF Inv, MailInv, Mailing, TypeOK
  <2>4. \A t \in Tickets : NextJob(t) \in Jobs /\ NextJob(t)' = NextJob(t)
    BY <1>2, <1>7, NextJobOK, Zenon DEF NextJob
  <2>5. \A t \in Tickets : resent'[t] <= outages'
    BY <1>1, <1>2, <1>3, <1>7
  <2>6. RequestInv' /\ AnsweredIsMonitored'
    BY <1>1, <1>4, <2>1, <2>4, <2>5, Zenon DEF Inv, RequestInv, AnsweredIsMonitored, createVars
  <2>7. JobInv' /\ MonitoredIsAnnounced'
    BY <1>1, <1>7, <2>1, Zenon DEF Inv, JobInv, MonitoredIsAnnounced, createVars
  <2> QED BY <2>2, <2>3, <2>6, <2>7, Zenon DEF Inv
<1>8. CASE \E j \in Jobs : /\ up /\ at = "idle" /\ job[j] = "wait"
                           /\ job' = [job EXCEPT ![j] = "active"]
                           /\ UNCHANGED <<resent, lapsed>>
  BY <1>7, <1>8, Zenon
<1>9. CASE /\ at = "complete" /\ ~lapsed
           /\ job' = [job EXCEPT ![current] = "completed"]
           /\ lapsed' = TRUE
           /\ UNCHANGED resent
  <2>1. current \in Jobs /\ job[current] = "active"
    BY <1>2, <1>9, Zenon DEF TypeOK
  <2> QED BY <1>7, <1>9, <2>1, Zenon
<1> QED BY <1>6, <1>8, <1>9, Zenon DEF RedisLeaves

LEMMA EnvironmentInv == ASSUME Inv, Restart \/ RedisReturns PROVE Inv'
<1>1. /\ UNCHANGED <<createVars, queueVars, at, current, mails, spoilt, faults>>
      /\ up' = up \/ (~up /\ up' = TRUE)
      /\ redis' = redis \/ redis' = TRUE
      /\ lapsed' = lapsed \/ lapsed' = (at # "idle")
      /\ crashes' = crashes /\ outages' = outages
  BY Zenon DEF Restart, RedisReturns, workerVars
<1>2. TypeOK'
  <2>1. lapsed \in BOOLEAN /\ redis \in BOOLEAN /\ up \in BOOLEAN
    BY Zenon DEF Inv, TypeOK
  <2>2. lapsed' \in BOOLEAN /\ redis' \in BOOLEAN /\ up' \in BOOLEAN
    BY <1>1, <2>1, Zenon
  <2>3. {lapsed, redis, up}' \subseteq BOOLEAN
    BY <2>2, Zenon
  <2>4. at # "idle" => up
    BY Zenon DEF Inv, TypeOK
  <2>5. at # "idle" => up /\ up' /\ (lapsed => lapsed')
    BY <1>1, <2>1, <2>2, <2>4, Zenon
  <2> QED BY <1>1, <2>3, <2>5, Zenon DEF Inv, TypeOK, createVars, queueVars
<1>3. MailInv'
  BY <1>1, Zenon DEF Inv, MailInv, Mailing, queueVars
<1>4. RequestInv' /\ JobInv' /\ MonitoredIsAnnounced' /\ AnsweredIsMonitored'
  BY <1>1, QueueStep, Zenon DEF queueVars
<1> QED BY <1>2, <1>3, <1>4, Zenon DEF Inv

LEMMA Invariant == Spec => []Inv
<1>1. Inv /\ [Next]_vars => Inv'
  <2> SUFFICES ASSUME Inv, [Next]_vars PROVE Inv'
    OBVIOUS
  <2>1. CASE UNCHANGED vars
    BY <2>1, Zenon DEF vars, Inv, TypeOK, RequestInv, JobInv, MailInv, Mailing,
      MonitoredIsAnnounced, AnsweredIsMonitored, NextJob
  <2>2. CASE Next
    BY <2>2, PostInv, TriageInv, CreateInv, MessageCreateInv, AddSlaJobInv, DelayOverInv,
      TakeJobInv, StalledInv, WorkInv, ProcessorInv, CompleteJobInv, CrashInv,
      RedisLeavesInv, EnvironmentInv, Zenon DEF Next
  <2> QED BY <2>1, <2>2, Zenon
<1> QED BY InitInv, <1>1, PTL DEF Spec

\* Types are kept, and the worker works on a job Redis knows as active unless its
\* lock lapsed.
THEOREM TypeCorrect == Spec => []TypeOK
BY Invariant, PTL DEF Inv

\* Only announced tickets of High priority are monitored, and what is announced has
\* its first message.
THEOREM MonitoringAnnounced == Spec => []MonitoredIsAnnounced
BY Invariant, PTL DEF Inv

\* A 201 for a ticket of High priority comes after its job, or after a swallowed error.
THEOREM AnswersMonitored == Spec => []AnsweredIsMonitored
BY Invariant, PTL DEF Inv

\* An SLA job sends one mail, and one more for each time BullMQ found it stalled;
\* a ticket has one job, and one more for each addition that was resent.
THEOREM MailsPaid == Spec => []MailsBounded
<1>1. Inv => MailsBounded
  <2> SUFFICES ASSUME Inv, NEW j \in Jobs
               PROVE  /\ mails[j] <= 1 + stalls[j]
                      /\ mails[j] > 0 => j[2] <= 1 + resent[j[1]]
    BY Zenon DEF MailsBounded
  <2>1. mails[j] <= 1 + stalls[j] /\ (job[j] = "none" => mails[j] = 0)
    BY Zenon DEF Inv, MailInv
  <2>2. job[j] # "none" => j[2] <= 1 + resent[j[1]]
    BY Zenon DEF Inv, JobInv
  <2> QED BY <2>1, <2>2
<1> QED BY <1>1, Invariant, PTL
=============================================================================
