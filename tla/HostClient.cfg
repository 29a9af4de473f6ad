SPECIFICATION FairSpec
CONSTANTS
    drag = drag again = again Nobody = Nobody
    Workers = {drag}
    MaxLaunches = 2 MaxLadder = 0 MaxMishaps = 1 MaxInputs = 2
    Settings <- LocalOrOther
CHECK_DEADLOCK FALSE
INVARIANTS OnDevice
PROPERTIES AnswerIsOwn Settles
