\* Claims of the source that TLC refutes, one at a time: NoStartAfterExit,
\* OnlyOwnAnswers, StopsAlways, FirstRung and, as an invariant, CancelCovers.
\* StopsAlways is temporal.
SPECIFICATION FairSpec
CONSTANTS
    drag = drag again = again Nobody = Nobody
    Workers = {drag}
    MaxLaunches = 1 MaxLadder = 1 MaxMishaps = 1 MaxInputs = 2
    Settings <- WithConsent
CHECK_DEADLOCK FALSE
PROPERTY NoStartAfterExit
