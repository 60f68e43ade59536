SPECIFICATION Spec
CONSTANTS
    Tasks = {t1}
    t1 = t1
    TradingDays = {1, 2, 3}
    Concurrency = 0
    LastDay = 3
    MaxRuns = 4
    MaxManual = 1
    MaxCrashes = 0
    MaxEdits = 1
    DbMayFail = TRUE
    RunsOverMidnight = FALSE
    WritesMayOverlap = FALSE
CHECK_DEADLOCK FALSE
INVARIANTS
    StrikesDeactivate ReportShownIsTrue
