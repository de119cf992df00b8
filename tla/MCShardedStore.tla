--------------------------- MODULE MCShardedStore ---------------------------
(***************************************************************************)
(* Instances of ShardedStore for TLC.                                      *)
(***************************************************************************)
EXTENDS ShardedStoreInvariant, TLC

CONSTANTS
    k1,                 \* the key whose chunk is sharded
    big, small,         \* payloads
    c1                  \* the thread whose server has its own shard size

(* Two full shards and a short one, or one byte more than a shard.         *)
Length5 == [p \in Payloads |-> IF p = small THEN 2 ELSE 5]
Length3 == [p \in Payloads |-> IF p = small THEN 2 ELSE 3]

BytesOf2 == [c \in Clients |-> 2]
BytesOf1Or2 == [c \in Clients |-> IF c = c1 THEN 1 ELSE 2]

(* k1 has a sharded payload, any other key one of exactly one shard size.  *)
ByKey == [k \in Keys |-> IF k = k1 THEN {big} ELSE {small}]

Symmetry == Permutations(Clients)
=============================================================================
