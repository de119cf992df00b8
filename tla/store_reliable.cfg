\* Nothing is removed or lost; three threads write and read, calls fail.
CONSTANTS
    c1 = c1  c2 = c2  c3 = c3  k1 = k1
    big = big  small = small
    Clients = {c1, c2, c3}
    Keys = {k1}
    Payloads = {big}
    NoPayload = NoPayload
    Length <- Length5
    Contents <- ByKey
    ShardSize <- BytesOf2
    MaxShards = 3
    Ops = {"store", "put", "get", "exists"}
    Lossy = FALSE
    Faults = TRUE
    MaxLate = 2
SPECIFICATION Spec
INVARIANTS ShardsFirst ManifestComplete StoredIsReadable
PROPERTIES ImplementsChunkCache
SYMMETRY Symmetry
