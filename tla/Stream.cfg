SPECIFICATION ChatFairSpec
CONSTANTS
    MaxPolls = 2
    MaxProgress = 1
CHECK_DEADLOCK FALSE
INVARIANTS
    ToldTruth
PROPERTIES
    PanelSettles
