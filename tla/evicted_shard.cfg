\* One document of a chunk is evicted before the chunk is offered again.
CONSTANTS
    c1 = c1  k1 = k1
    big = big  small = small
    Clients = {c1}
    Keys = {k1}
    Payloads = {big}
    NoPayload = NoPayload
    Length <- Length3
    Contents <- ByKey
    ShardSize <- BytesOf2
    MaxShards = 2
    Ops = {"store", "get"}
    Lossy = TRUE
    Faults = FALSE
    MaxLate = 1
SPECIFICATION Spec
PROPERTIES SkipsOnlyReadable
