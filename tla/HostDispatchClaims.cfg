\* The claims the dispatchers refute, one at a time: GiveUpIsOwn, MarkedIsTold and
\* SettleIsOwn (an action property) with this file, a sibling and a relaunch;
\* RelayWaitEnds (a temporal property) with Jobs = {a} and SPECIFICATION FairSpec;
\* Paired with Jobs = {a, b, c}, Families = {boot, user}, Target <- UserIsV2,
\* MaxGen = 1, MaxDeaths = 0 and Impatient = {}
SPECIFICATION Spec
CONSTANTS a = a b = b c = c k = k boot = boot user = user
CONSTANTS Jobs = {a, c} Families = {boot} NoJob = NoJob
CONSTANTS V1 = V1 V2 = V2 Kick = Kick
CONSTANTS MaxGen = 2 MaxDeaths = 1 Impatient = {a, c}
CONSTANT Target <- AllOnBoot
CONSTANT By <- Profiles
CHECK_DEADLOCK FALSE
INVARIANTS GiveUpIsOwn
