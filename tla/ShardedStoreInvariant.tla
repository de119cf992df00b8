------------------------ MODULE ShardedStoreInvariant ------------------------
(***************************************************************************)
(* The inductive invariants of ShardedStore: what makes its properties     *)
(* true in every state, and what the proofs rest on.                       *)
(***************************************************************************)
EXTENDS ShardedStore

(* put_bytes, run by some server for some payload of k, writes v at <<k, i>>. *)
Written(k, i, v) ==
    \E p \in Contents[k], c \in Clients :
        \/ i = Main /\ v = MainDoc(p, ShardSize[c])
        \/ /\ Length[p] > ShardSize[c]
           /\ i \in 0 .. ShardCount(Length[p], ShardSize[c]) - 1
           /\ v = Shard(p, i, ShardSize[c])

GoodDoc(d, v) == v = NoDoc \/ Written(d[1], d[2], v)

DocsWritten == \A d \in DocKeys : GoodDoc(d, docs[d])

LateWritten == \A m \in late : GoodDoc(m.at, m.value)

CallOK == \A c \in Clients :
    pc[c] \in {"check", "put"} => call[c].payload \in Contents[Key(c)]

FrameOK == \A c \in Clients :
    /\ pc[c] \in {"idle", "check", "exists", "getDoc", "rmGet"} =>
          frame[c] = NewFrame
    /\ pc[c] = "put" => frame[c].next <= ShardsOf(c)
    /\ pc[c] \in {"rmDoc", "getShard", "rmShard"} =>
          GoodDoc(<<Key(c), Main>>, frame[c].document)
    /\ pc[c] = "rmDoc" => frame[c].next = 0
    /\ pc[c] \in {"getShard", "rmShard"} =>
          /\ frame[c].document \in Manifests
          /\ frame[c].next < frame[c].document.shards

(* Every document, pending write and local of a call stems from a put of a *)
(* payload of its key: no sequence of failures, late writes and losses     *)
(* makes a document that put_bytes would not have written there.           *)
Provenance == TypeOK /\ DocsWritten /\ LateWritten /\ CallOK /\ FrameOK

-----------------------------------------------------------------------------
(* One shard size and one payload per key.                                 *)

TheSize == CHOOSE s \in {ShardSize[c] : c \in Clients} : TRUE
ThePayload(k) == CHOOSE p \in Contents[k] : TRUE

(* A read in progress holds the first shards of the payload of its key.    *)
FirstShards(k, n) == [i \in 1 .. n |-> Shard(ThePayload(k), i - 1, TheSize)]

HoldsFirst(c) ==
    /\ frame[c].parts = FirstShards(Key(c), frame[c].next)
    /\ frame[c].bytes = frame[c].next * TheSize

PartsOK == \A c \in Clients : pc[c] = "getShard" => HoldsFirst(c)

(* A call has no answer before it returns.                                 *)
OpenCalls == \A c \in Clients : pc[c] # "idle" => answer[c] = NoAnswer

(* What is at a key while nothing is removed or lost: a manifest implies   *)
(* all its shards, and so does a manifest that is still to be applied; a   *)
(* writer has written the shards before the one it is at.                  *)
HasShards(k, n) == \A i \in 0 .. n - 1 : docs[<<k, i>>] \in Slices

ShardsFirst ==
    /\ \A k \in Keys : docs[<<k, Main>>] \in Manifests =>
          HasShards(k, docs[<<k, Main>>].shards)
    /\ \A m \in late : m.value \in Manifests => HasShards(m.at[1], m.value.shards)
    /\ \A m \in late : m.value # NoDoc
    /\ \A c \in Clients : pc[c] = "put" => HasShards(Key(c), frame[c].next)
    /\ \A c \in Clients : pc[c] \notin {"rmGet", "rmDoc", "rmShard"}
    /\ \A c \in Clients : pc[c] = "getShard" =>
          HasShards(Key(c), frame[c].document.shards)

StoredStays == \A c \in Clients :
    /\ answer[c].kind \in {"stored", "present"} => docs[<<Key(c), Main>>] # NoDoc
    /\ pc[c] = "getShard" => docs[<<Key(c), Main>>] # NoDoc
=============================================================================
