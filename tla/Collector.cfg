SPECIFICATION FairSpec
CONSTANTS
    Jobs = {j1, j2, j3}
    j1 = j1
    j2 = j2
    j3 = j3
    Keys = {k1, k2}
    k1 = k1
    k2 = k2
CHECK_DEADLOCK FALSE
INVARIANTS
    FetchedOnce KeptWhileNeeded OnlyStraysLeft
PROPERTIES
    WaitersLeave
