SPECIFICATION FairSpec
CONSTANTS a = a b = b c = c k = k boot = boot user = user
CONSTANTS Jobs = {a, b} Families = {boot} NoJob = NoJob
CONSTANTS V1 = V1 V2 = V2 Kick = Kick
CONSTANTS MaxGen = 3 MaxDeaths = 2 Impatient = {a, b}
CONSTANT Target <- AllOnBoot
CONSTANT By <- Profiles
CHECK_DEADLOCK FALSE
INVARIANTS Paired MarkedIsTold
PROPERTIES TakenIsAnswered
