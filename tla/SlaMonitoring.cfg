SPECIFICATION FairSpec
CONSTANTS
  Tickets = {"t1"}
  Answers = {"Low", "High", "other", "missing", "null"}
  NoJob = NoJob
  MaxStalled = 1
  MaxCrashes = 1
  MaxOutages = 2
  MaxFaults = 1
INVARIANTS TypeOK MonitoredIsAnnounced AnsweredIsMonitored MailsBounded
PROPERTIES Escalates RequestsEnd
CHECK_DEADLOCK FALSE
