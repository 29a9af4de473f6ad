SPECIFICATION FairSpec
CONSTANTS
    s1 = s1 s2 = s2 a = a b = b c = c ra = ra rb = rb rb2 = rb2 ra2 = ra2 rc = rc
    Slots = {s1} Clients = {a, b} Requests = {ra, ra2, rb, rb2}
    Sessions = {1} Priorities = {0} Handles = {1}
    Owner <- OwnerUsed Ids <- IdsUsed
    Profile <- ProfileUsed
    MaxQueue = 0 Depth = 1
    V1 = V1 V2 = V2 NoClient = NoClient NoSlot = NoSlot NoReq = NoReq
CHECK_DEADLOCK FALSE
INVARIANTS EpochsAreCurrent AnsweredOnce
PROPERTIES StayersAreAnswered
