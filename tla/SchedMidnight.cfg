SPECIFICATION Spec
CONSTANTS
    Tasks = {t1}
    t1 = t1
    TradingDays = {1, 2}
    Concurrency = 1
    LastDay = 2
    MaxRuns = 3
    MaxManual = 0
    MaxCrashes = 0
    MaxEdits = 0
    DbMayFail = FALSE
    RunsOverMidnight = TRUE
    WritesMayOverlap = FALSE
CHECK_DEADLOCK FALSE
INVARIANTS
    OncePerDay
