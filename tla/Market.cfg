SPECIFICATION FairSpec
CONSTANTS
    Pool <- MCPool
    Others = {"x", "y"}
    Workers = 1
    Total = 1
    SchedMax = 1
    Setups <- MCSetups
CHECK_DEADLOCK FALSE
INVARIANTS
    SlotsKept ShownAsAnswered
PROPERTY
    FetchSettles
