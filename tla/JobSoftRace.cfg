SPECIFICATION Spec
CONSTANTS
    Setups <- SoftJob
    DbMayFail = FALSE
CHECK_DEADLOCK FALSE
INVARIANTS
    EntryAgrees
