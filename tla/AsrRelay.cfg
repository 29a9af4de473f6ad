SPECIFICATION FairSpec
CONSTANTS
    c1 = c1 c2 = c2 NoConn = NoConn
    Conns = {c1, c2}
    Wire <- WireDistinct
    Slack = 1 OpenFactor = 1 KeepTerminal = 0
    MaxOpens = 2 MaxFeeds = 1 MaxEvents = 1 MaxDeaths = 1
CHECK_DEADLOCK FALSE
INVARIANTS SlotIsHeld
PROPERTIES RecordsFollowConnections SlotIsFreed
