SPECIFICATION FairSpec
CONSTANTS
    Readers = {r1, r2}
    r1 = r1
    r2 = r2
CHECK_DEADLOCK FALSE
INVARIANTS
    SuccessKept OrphansOnly DeletedReturnsFinished
PROPERTIES
    OrphanSettles
