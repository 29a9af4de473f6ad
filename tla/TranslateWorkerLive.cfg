SPECIFICATION FairSpec
CONSTANTS
  Jobs <- TwoJobs
  AbortSessions <- HostAbort
  Session = 5
  MaxOpens = 0
  MaxBeats = 0
  MaxBroken = 1
PROPERTIES JobsAndWorkerEnd
CHECK_DEADLOCK FALSE
