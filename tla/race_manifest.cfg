\* A removal races the store that replaces the chunk.
CONSTANTS
    c1 = c1  c2 = c2  k1 = k1
    big = big  small = small
    Clients = {c1, c2}
    Keys = {k1}
    Payloads = {big}
    NoPayload = NoPayload
    Length <- Length3
    Contents <- ByKey
    ShardSize <- BytesOf2
    MaxShards = 2
    Ops = {"store", "remove"}
    Lossy = FALSE
    Faults = FALSE
    MaxLate = 1
SPECIFICATION Spec
INVARIANTS ManifestComplete
