SPECIFICATION LoopSpec
CONSTANTS
    Clients = {c1, c2}
    c1 = c1
    c2 = c2
    Origins = {"api", "chat", "scheduler"}
    QueueMaxSize = 2
    MaxProgress = 4
    MaxWorker = 2
    TtlOvertakes = FALSE
    LateClient = FALSE
CHECK_DEADLOCK FALSE
INVARIANTS
    TypeOK OrderedOnce SomeoneTold LostOnlyToSharer
PROPERTIES
    KeepsStreamPromise StreamsEnd EntryFreed
