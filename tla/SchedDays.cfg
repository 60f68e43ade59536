SPECIFICATION LiveSpec
CONSTANTS
    Tasks = {t1, t2}
    t1 = t1
    t2 = t2
    TradingDays = {2}
    Concurrency = 1
    LastDay = 2
    MaxRuns = 4
    MaxManual = 0
    MaxCrashes = 1
    MaxEdits = 0
    DbMayFail = FALSE
    RunsOverMidnight = FALSE
    WritesMayOverlap = TRUE
CHECK_DEADLOCK FALSE
INVARIANTS
    TypeOK OncePerDay NoDayLost SlotsConserved
PROPERTIES
    TaskSettles
