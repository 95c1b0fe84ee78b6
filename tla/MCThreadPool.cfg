SPECIFICATION FairSpec
CONSTANTS
    Workers <- MCWorkers
    MaxTasks = 3
    Batch = 2
INVARIANTS
    TypeOK
    OnePlace
    LiveWhenUsed
PROPERTIES
    KeepsContract
    AllServed
CHECK_DEADLOCK FALSE
