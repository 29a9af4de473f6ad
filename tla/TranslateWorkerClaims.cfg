\* The claims the worker refutes, one at a time: QueuedAbortHonored and
\* ShutdownUnwinds (invariants), MissingIsSaid and FailedSwapKeepsModel (action
\* properties) with this file; SentJobsEnd with SPECIFICATION FairSpec and
\* MaxOpens = 0
SPECIFICATION Spec
CONSTANTS
  Jobs <- TwoJobs
  AbortSessions <- HostAbort
  Session = 5
  MaxOpens = 1
  MaxBeats = 0
  MaxBroken = 0
INVARIANTS QueuedAbortHonored
CHECK_DEADLOCK FALSE
