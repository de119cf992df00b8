\* Two threads store, read and probe chunks, calls may fail; fairness.
CONSTANTS
    c1 = c1  c2 = c2  k1 = k1  k2 = k2
    big = big  small = small
    Clients = {c1, c2}
    Keys = {k1, k2}
    Payloads = {big, small}
    NoPayload = NoPayload
    Length <- Length3
    Contents <- ByKey
    ShardSize <- BytesOf2
    MaxShards = 2
    Ops = {"store", "put", "get", "exists"}
    Lossy = FALSE
    Faults = TRUE
    MaxLate = 1
SPECIFICATION FairSpec
PROPERTIES StoreLeadsToReadable
