\* The claims this refutes, one at a time: UserContentKept and StaleNeverReturns
\* with this file (a copy may fall anywhere in a task); UserContentKept with
\* Exposed <- Calm and Late = TRUE, or Overlap = TRUE; EmptyReturns and
\* LatestReturns with Clipboard.cfg.
SPECIFICATION Spec
CONSTANTS
    enter = enter drag = drag
    Pipelines = {enter} Drags = {drag}
    Selection = Selection Translation = Translation
    MaxCopies = 2 MaxBlocks = 3 MaxChords = 2
    Exposed <- Anywhere
    Late = FALSE Overlap = FALSE
CHECK_DEADLOCK FALSE
INVARIANTS UserContentKept
