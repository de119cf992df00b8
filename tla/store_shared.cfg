\* Servers share a lossy collection, calls fail and write late.
CONSTANTS
    c1 = c1  c2 = c2  c3 = c3  k1 = k1
    big = big  small = small
    Clients = {c1, c2, c3}
    Keys = {k1}
    Payloads = {big}
    NoPayload = NoPayload
    Length <- Length3
    Contents <- ByKey
    ShardSize <- BytesOf2
    MaxShards = 2
    Ops = {"store", "put", "get", "exists", "remove"}
    Lossy = TRUE
    Faults = TRUE
    MaxLate = 1
SPECIFICATION Spec
INVARIANTS Provenance PartsOK NoTornRead
PROPERTIES ReadableIsHit ImplementsChunkCache
SYMMETRY Symmetry
