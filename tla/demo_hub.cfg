\* Two pages listen, completions are asked for again and again; everybody may leave.
CONSTANTS
    s1 = s1  s2 = s2  v1 = v1
    Streams = {s1, s2}
    Visits = {v1}
    Poller = Poller
    LogTail = LogTail
    Nobody = Nobody
    MaxLag = 2
SPECIFICATION Spec
INVARIANTS NothingSkipped SameOrder
PROPERTIES GoneIsForgotten StaysInformed
