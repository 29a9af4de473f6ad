\* The claims the relay refutes, one at a time: OneJoiner, OpenedIsOwn,
\* HearsItself, InLockstep, RecordsInIdOrder, RefusedWhileBusy, DrainsTerminal, StreamingIsCounted with
\* this file; TeardownEnds with SPECIFICATION FairSpec
SPECIFICATION Spec
CONSTANTS
    c1 = c1 c2 = c2 NoConn = NoConn
    Conns = {c1, c2}
    Wire <- WirePinned
    Slack = 1 OpenFactor = 1 KeepTerminal = 0
    MaxOpens = 2 MaxFeeds = 2 MaxEvents = 2 MaxDeaths = 0
CHECK_DEADLOCK FALSE
INVARIANTS OneJoiner
