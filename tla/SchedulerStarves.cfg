SPECIFICATION StreamSpec
CONSTANTS i1 = i1 i2 = i2 i3 = i3 i4 = i4
CONSTANTS Ids = {i1, i2, i3} Sessions = {1}
CONSTANT Priorities <- PrioritiesUsed
CONSTANT Depth = 2
CHECK_DEADLOCK FALSE
PROPERTY ExpiredAreAnswered
