SPECIFICATION Spec
CONSTANTS
    Sessions = {s1, s2}
    Clients = {s1, s2}
    s1 = s1
    s2 = s2
    Keys = {k1, k2, k3, k4}
    k1 = k1
    k2 = k2
    k3 = k3
    k4 = k4
    Limit = 2
    MaxCodes = 3
    MaxProfiles = 4
    MaxDays = 2
CHECK_DEADLOCK FALSE
INVARIANTS
    LimitHolds BacktestTruth
PROPERTIES
    AccountsHold
