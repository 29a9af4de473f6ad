SPECIFICATION Spec
CONSTANTS
    enter = enter drag = drag
    Pipelines = {enter} Drags = {drag}
    Selection = Selection Translation = Translation
    MaxCopies = 2 MaxBlocks = 3 MaxChords = 2
    Exposed <- Calm
    Late = FALSE Overlap = FALSE
CHECK_DEADLOCK FALSE
INVARIANTS UserContentKept
PROPERTIES StaleNeverReturns
