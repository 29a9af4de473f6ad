SPECIFICATION Spec
CONSTANTS
    m1 = m1 m2 = m2 a = a c1 = c1 c2 = c2 c3 = c3
    Models = {m1} Boot = m1 Asr = a
    Callers = {c1, c2}
    Deployed = {m1}
    Bytes <- MCBytes
    MaxGen = 2 MaxWarm = 1
    NoFam = NoFam NoCaller = NoCaller
CHECK_DEADLOCK FALSE
INVARIANTS RunningIsCharged
