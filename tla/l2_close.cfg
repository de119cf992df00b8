\* The adapter may be closed; other servers, failures and timeouts.
CONSTANTS
    k1 = k1  k2 = k2
    MaxWorkers = 1
    Keys = {k1}
    KeyLists <- NoneOrOne
    MaxKeys = 1
    Misfits = {k1}
    Kinds = {"store", "load", "delete"}
    MaxTasks = 2
    Reliable = FALSE
    Shared = TRUE
    Overlap = TRUE
    Faults = TRUE
    MayClose = TRUE
SPECIFICATION FairSpec
INVARIANTS NoUseAfterClose
PROPERTIES ImplementsTaskService EveryTaskFetched DeleteEnds CloseEnds
CHECK_DEADLOCK FALSE
