\* Stores and deletes by one server, which may fail, land late or time out.
CONSTANTS
    k1 = k1  k2 = k2
    MaxWorkers = 2
    Keys = {k1, k2}
    KeyLists <- OneOrTwo
    MaxKeys = 2
    Misfits = {}
    Kinds = {"store", "delete"}
    MaxTasks = 3
    Reliable = FALSE
    Shared = FALSE
    Overlap = FALSE
    Faults = TRUE
    MayClose = FALSE
SPECIFICATION Spec
INVARIANTS ListedIsCached
CHECK_DEADLOCK FALSE
