SPECIFICATION Spec
CONSTANTS
  Jobs <- TwoJobs
  AbortSessions <- AnyAbort
  Session = 5
  MaxOpens = 1
  MaxBeats = 1
  MaxBroken = 0
INVARIANTS OneTerminal CancelIsOwn RunsOnTold
PROPERTIES AckIsLast
CHECK_DEADLOCK FALSE
