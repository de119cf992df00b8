\* Two servers share a key prefix with different shard_size_bytes.
CONSTANTS
    c1 = c1  c2 = c2  c3 = c3  k1 = k1
    big = big  small = small
    Clients = {c1, c2, c3}
    Keys = {k1}
    Payloads = {big}
    NoPayload = NoPayload
    Length <- Length3
    Contents <- ByKey
    ShardSize <- BytesOf1Or2
    MaxShards = 3
    Ops = {"store", "get"}
    Lossy = FALSE
    Faults = FALSE
    MaxLate = 1
SPECIFICATION Spec
INVARIANTS NoTornRead
