SPECIFICATION Spec
CONSTANTS a = a b = b c = c k = k boot = boot user = user
CONSTANTS Jobs = {a, c, k} Families = {boot} NoJob = NoJob
CONSTANTS V1 = V1 V2 = V2 Kick = Kick
CONSTANTS MaxGen = 1 MaxDeaths = 1 Impatient = {a, c, k}
CONSTANT Target <- AllOnBoot
CONSTANT By <- Profiles
CHECK_DEADLOCK FALSE
INVARIANTS WindowIsExclusive GiveUpIsOwn
