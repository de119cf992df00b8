\* Stores, lookups and loads while nothing is lost.
CONSTANTS
    k1 = k1  k2 = k2
    MaxWorkers = 2
    Keys = {k1, k2}
    KeyLists <- OneKey
    MaxKeys = 1
    Misfits = {}
    Kinds = {"store", "lookup", "load"}
    MaxTasks = 3
    Reliable = TRUE
    Shared = FALSE
    Overlap = TRUE
    Faults = TRUE
    MayClose = FALSE
SPECIFICATION Spec
INVARIANTS TypeOK NoLostWakeup NoResultLost
PROPERTIES AnsweredIsLoadable
CHECK_DEADLOCK FALSE
