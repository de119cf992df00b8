\* Two calls of any kind and close() at any moment; calls fail, buffers are few.
CONSTANTS
    k1 = k1  k2 = k2
    b1 = b1  b2 = b2
    Nothing = Nothing
    MaxWorkers = 2
    Keys = {k1, k2}
    Calls <- EveryKind
    MaxKeys = 2
    Malformed = {}
    Oversized = {k2}
    Buffers = {b1, b2}
    MaxCalls = 2
    Reliable = TRUE
    Faults = TRUE
    MayClose = TRUE
    Plugins <- OneTypeTwoNames
    Values <- SomeValues
SPECIFICATION Spec
INVARIANTS TypeOK BuffersAccounted OnlyRaisingGetsLeak ResultsArePositional ReturnedPutIsStored NoUseAfterClose NobodyStuck SettingsAreTheSame SettingsFallBack
PROPERTIES CountedIsReadable
CHECK_DEADLOCK FALSE
