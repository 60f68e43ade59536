SPECIFICATION LoopSpec
CONSTANTS
    Setups <- AnyJob
    DbMayFail = TRUE
CHECK_DEADLOCK FALSE
INVARIANTS
    OneVerdict RecordsAgree
PROPERTIES
    NothingTakenBack KeepsPromise HardLimitReleases WorkEnds
