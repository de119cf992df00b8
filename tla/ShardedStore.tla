---------------------------- MODULE ShardedStore ----------------------------
(***************************************************************************)
(* CouchbaseKVStore (store.py): the byte store that every LMCache server   *)
(* shares.  Clients are the worker threads of all servers.  Each executes  *)
(* the blocking store methods, and every SDK call of such a method is one  *)
(* atomic step on the shared collection, so the steps of any two calls     *)
(* interleave.                                                             *)
(*                                                                         *)
(* A payload is not modelled byte by byte: a binary document holds a slice *)
(* of a payload, and two slices have the same bytes only if they are       *)
(* equal.                                                                  *)
(***************************************************************************)
EXTENDS Integers, Sequences, FiniteSets

CONSTANTS
    Clients,    \* worker threads of the LMCache servers
    Keys,       \* chunk keys
    Payloads,   \* serialized chunks
    NoPayload,  \* the payload of a call that writes nothing
    Length,     \* Length[p]: bytes of payload p
    Contents,   \* Contents[k]: the payloads that may be offered under key k
    ShardSize,  \* ShardSize[c]: shard_size_bytes of the server of thread c
    MaxShards,  \* bound: no payload is cut into more shards
    Ops,        \* the operations the clients call
    Lossy,      \* documents may expire or be evicted, each on its own
    Faults,     \* SDK calls may raise, threads may die
    MaxLate     \* bound: mutations given up on that the server still holds

Operations == {"store", "put", "get", "exists", "remove"}

(* Mutant: the division rounds down. *)
FloorShardCount(len, size) == len \div size

(* The round-up division of put_bytes: -(-len(data) // shard_size).        *)
ShardCount(len, size) == -((-len) \div size)

ASSUME LengthAssumption == Length \in [Payloads -> Nat]
ASSUME ContentsAssumption == Contents \in [Keys -> SUBSET Payloads]
ASSUME NoPayloadAssumption == NoPayload \notin Payloads
(* store.py:77 refuses a shard size of 0. *)
ASSUME ShardSizeAssumption == ShardSize \in [Clients -> Nat \ {0}]
ASSUME MaxShardsAssumption ==
    /\ MaxShards \in Nat
    /\ \A c \in Clients, p \in Payloads :
          ShardCount(Length[p], ShardSize[c]) <= MaxShards
ASSUME ModeAssumption ==
    /\ Ops \subseteq Operations
    /\ Lossy \in BOOLEAN
    /\ Faults \in BOOLEAN
    /\ MaxLate \in Nat

-----------------------------------------------------------------------------
(* Documents.  <<k, Main>> is build_key(k), <<k, i>> is shard_key(_, i).   *)

Main == -1
DocKeys == Keys \X (Main .. MaxShards - 1)

NoDoc == [kind |-> "none"]
Slice(p, from, to) == [kind |-> "bytes", payload |-> p, from |-> from, to |-> to]
Manifest(shards, bytes) ==
    [kind |-> "manifest", shards |-> shards, bytes |-> bytes]

Slices == [kind : {"bytes"}, payload : Payloads, from : Nat, to : Nat]
Manifests == [kind : {"manifest"}, shards : Nat, bytes : Nat]
Docs == {NoDoc} \cup Slices \cup Manifests

(* len(document or b"") of a binary document, "bytes" of a manifest.       *)
SizeOf(d) == CASE d.kind = "bytes" -> d.to - d.from
               [] d.kind = "manifest" -> d.bytes
               [] OTHER -> 0

Least(a, b) == IF a <= b THEN a ELSE b

(* data[start : start + shard_size] with start = index * shard_size.       *)
Shard(p, i, size) ==
    Slice(p, i * size, Least((i + 1) * size, Length[p]))

(* What put_bytes leaves at the key itself.                                *)
MainDoc(p, size) ==
    IF Length[p] <= size THEN Slice(p, 0, Length[p])
                         ELSE Manifest(ShardCount(Length[p], size), Length[p])

-----------------------------------------------------------------------------
VARIABLES
    docs,    \* the collection, by document key
    late,    \* mutations whose call gave up while the server may yet apply them
    pc,      \* where each client is in the method it runs
    call,    \* the arguments of the current or last call of each client
    frame,   \* the locals of that call
    answer   \* what the last call returned, NoAnswer while one runs

vars == <<docs, late, pc, call, frame, answer>>

Mutations == [at : DocKeys, value : Docs]

PCs == {"idle", "check", "put", "exists", "getDoc", "getShard",
        "rmGet", "rmDoc", "rmShard"}

Calls == [key : Keys, payload : Payloads \cup {NoPayload}]

(* document: the result of _get(doc_key); next: the loop index; parts and  *)
(* bytes: the shards read so far and the length of their concatenation.    *)
Frames == [document : Docs, next : Nat, parts : Seq(Slices), bytes : Int]
NewFrame == [document |-> NoDoc, next |-> 0, parts |-> <<>>, bytes |-> 0]

AnswerKinds == {"none", "error", "stored", "present", "hit", "miss",
                "yes", "no", "removed", "absent"}
Answers == [kind : AnswerKinds, bytes : Int, parts : Seq(Slices)]
Answer(kind, bytes) == [kind |-> kind, bytes |-> bytes, parts |-> <<>>]
NoAnswer == Answer("none", 0)
Hit(parts, bytes) == [kind |-> "hit", bytes |-> bytes, parts |-> parts]

Init ==
    /\ docs = [d \in DocKeys |-> NoDoc]
    /\ late = {}
    /\ pc = [c \in Clients |-> "idle"]
    /\ call \in [Clients -> {[key |-> k, payload |-> NoPayload] : k \in Keys}]
    /\ frame = [c \in Clients |-> NewFrame]
    /\ answer = [c \in Clients |-> NoAnswer]

Key(c) == call[c].key
DocAt(c, i) == docs[<<Key(c), i>>]

Begin(c, k, p, first) ==
    /\ pc[c] = "idle"
    /\ pc' = [pc EXCEPT ![c] = first]
    /\ call' = [call EXCEPT ![c] = [key |-> k, payload |-> p]]
    /\ answer' = [answer EXCEPT ![c] = NoAnswer]
    /\ UNCHANGED <<docs, late, frame>>

(* Mutant: the locals of a call leak into the next one. *)
ReturnStale(c, a) ==
    /\ pc' = [pc EXCEPT ![c] = "idle"]
    /\ answer' = [answer EXCEPT ![c] = a]
    /\ UNCHANGED <<call, frame>>

Return(c, a) ==
    /\ pc' = [pc EXCEPT ![c] = "idle"]
    /\ frame' = [frame EXCEPT ![c] = NewFrame]
    /\ answer' = [answer EXCEPT ![c] = a]
    /\ UNCHANGED call

Goto(c, step) ==
    /\ pc' = [pc EXCEPT ![c] = step]
    /\ UNCHANGED <<call, frame, answer>>

Apply(m) == docs' = [docs EXCEPT ![m.at] = m.value]

-----------------------------------------------------------------------------
(* _store_one of the L2 adapter: write only what exists() denies.          *)

BeginStore(c) ==
    /\ "store" \in Ops
    /\ \E k \in Keys : \E p \in Contents[k] : Begin(c, k, p, "check")

StorePresent(c) ==
    /\ pc[c] = "check"
    /\ DocAt(c, Main) # NoDoc
    /\ Return(c, Answer("present", 0))
    /\ UNCHANGED <<docs, late>>

StoreAbsent(c) ==
    /\ pc[c] = "check"
    /\ DocAt(c, Main) = NoDoc
    /\ Goto(c, "put")
    /\ UNCHANGED <<docs, late>>

-----------------------------------------------------------------------------
(* put_bytes: one document, or the shards in order and then the manifest.  *)

BeginPut(c) ==
    /\ "put" \in Ops
    /\ \E k \in Keys : \E p \in Contents[k] : Begin(c, k, p, "put")

ShardsOf(c) ==
    LET len == Length[call[c].payload]
    IN  IF len <= ShardSize[c] THEN 0 ELSE ShardCount(len, ShardSize[c])

(* Mutant: the manifest is written before the shards. *)
ManifestFirst(c) ==
    IF frame[c].next = 0
    THEN [at |-> <<Key(c), Main>>,
          value |-> MainDoc(call[c].payload, ShardSize[c])]
    ELSE [at |-> <<Key(c), frame[c].next - 1>>,
          value |-> Shard(call[c].payload, frame[c].next - 1, ShardSize[c])]

NextUpsert(c) ==
    IF frame[c].next < ShardsOf(c)
    THEN [at |-> <<Key(c), frame[c].next>>,
          value |-> Shard(call[c].payload, frame[c].next, ShardSize[c])]
    ELSE [at |-> <<Key(c), Main>>,
          value |-> MainDoc(call[c].payload, ShardSize[c])]

PutShard(c) ==
    /\ pc[c] = "put"
    /\ frame[c].next < ShardsOf(c)
    /\ Apply(NextUpsert(c))
    /\ frame' = [frame EXCEPT ![c].next = @ + 1]
    /\ UNCHANGED <<late, pc, call, answer>>

PutMain(c) ==
    /\ pc[c] = "put"
    /\ frame[c].next >= ShardsOf(c)
    /\ Apply(NextUpsert(c))
    /\ Return(c, Answer("stored", Length[call[c].payload]))
    /\ UNCHANGED late

-----------------------------------------------------------------------------
(* exists: the key itself, whatever has become of the shards.              *)

BeginExists(c) ==
    /\ "exists" \in Ops
    /\ \E k \in Keys : Begin(c, k, NoPayload, "exists")

(* Mutant: exists looks at the first shard. *)
ExistsByShard(c) ==
    /\ pc[c] = "exists"
    /\ Return(c, Answer(IF DocAt(c, 0) # NoDoc THEN "yes" ELSE "no", 0))
    /\ UNCHANGED <<docs, late>>

Exists(c) ==
    /\ pc[c] = "exists"
    /\ Return(c, Answer(IF DocAt(c, Main) # NoDoc THEN "yes" ELSE "no", 0))
    /\ UNCHANGED <<docs, late>>

-----------------------------------------------------------------------------
(* get_bytes: the document at the key, then the shards its manifest names. *)

BeginGet(c) ==
    /\ "get" \in Ops
    /\ \E k \in Keys : Begin(c, k, NoPayload, "getDoc")

GetUnsharded(c) ==
    /\ pc[c] = "getDoc"
    /\ DocAt(c, Main) \notin Manifests
    /\ Return(c, IF DocAt(c, Main) = NoDoc
                 THEN Answer("miss", 0)
                 ELSE Hit(<<DocAt(c, Main)>>, SizeOf(DocAt(c, Main))))
    /\ UNCHANGED <<docs, late>>

(* Mutant: the loop starts at shard 1. *)
GetManifestFromOne(c) ==
    /\ pc[c] = "getDoc"
    /\ DocAt(c, Main) \in Manifests
    /\ pc' = [pc EXCEPT ![c] = "getShard"]
    /\ frame' = [frame EXCEPT ![c].document = DocAt(c, Main), ![c].next = 1]
    /\ UNCHANGED <<docs, late, call, answer>>

GetManifest(c) ==
    /\ pc[c] = "getDoc"
    /\ DocAt(c, Main) \in Manifests
    /\ pc' = [pc EXCEPT ![c] = "getShard"]
    /\ frame' = [frame EXCEPT ![c].document = DocAt(c, Main)]
    /\ UNCHANGED <<docs, late, call, answer>>

(* Mutants: shards are joined in reverse; only the last one is counted. *)
JoinedReversed(c) ==
    LET part == DocAt(c, frame[c].next)
    IN  [frame[c] EXCEPT !.next = @ + 1,
                         !.parts = <<part>> \o @,
                         !.bytes = @ + SizeOf(part)]
JoinedUncounted(c) ==
    LET part == DocAt(c, frame[c].next)
    IN  [frame[c] EXCEPT !.next = @ + 1,
                         !.parts = Append(@, part),
                         !.bytes = SizeOf(part)]

Joined(c) ==
    LET part == DocAt(c, frame[c].next)
    IN  [frame[c] EXCEPT !.next = @ + 1,
                         !.parts = Append(@, part),
                         !.bytes = @ + SizeOf(part)]

GetShardMissing(c) ==
    /\ pc[c] = "getShard"
    /\ DocAt(c, frame[c].next) \notin Slices
    /\ Return(c, Answer("miss", 0))
    /\ UNCHANGED <<docs, late>>

GetShard(c) ==
    /\ pc[c] = "getShard"
    /\ DocAt(c, frame[c].next) \in Slices
    /\ Joined(c).next < frame[c].document.shards
    /\ frame' = [frame EXCEPT ![c] = Joined(c)]
    /\ UNCHANGED <<docs, late, pc, call, answer>>

GetLastShard(c) ==
    /\ pc[c] = "getShard"
    /\ DocAt(c, frame[c].next) \in Slices
    /\ Joined(c).next >= frame[c].document.shards
    /\ Return(c, IF Joined(c).bytes = frame[c].document.bytes
                 THEN Hit(Joined(c).parts, Joined(c).bytes)
                 ELSE Answer("miss", 0))
    /\ UNCHANGED <<docs, late>>

-----------------------------------------------------------------------------
(* remove_measured: read the document at the key, remove it, then remove   *)
(* the shards that the document read named.                                *)

BeginRemove(c) ==
    /\ "remove" \in Ops
    /\ \E k \in Keys : Begin(c, k, NoPayload, "rmGet")

RemoveGet(c) ==
    /\ pc[c] = "rmGet"
    /\ pc' = [pc EXCEPT ![c] = "rmDoc"]
    /\ frame' = [frame EXCEPT ![c].document = DocAt(c, Main)]
    /\ UNCHANGED <<docs, late, call, answer>>

Removal(c) == [at |-> <<Key(c), IF pc[c] = "rmDoc" THEN Main ELSE frame[c].next>>,
               value |-> NoDoc]

RemoveAbsent(c) ==
    /\ pc[c] = "rmDoc"
    /\ DocAt(c, Main) = NoDoc
    /\ Return(c, Answer("absent", 0))
    /\ UNCHANGED <<docs, late>>

RemoveUnsharded(c) ==
    /\ pc[c] = "rmDoc"
    /\ DocAt(c, Main) # NoDoc
    /\ frame[c].document \notin Manifests
    /\ Apply(Removal(c))
    /\ Return(c, Answer("removed", SizeOf(frame[c].document)))
    /\ UNCHANGED late

RemoveManifest(c) ==
    /\ pc[c] = "rmDoc"
    /\ DocAt(c, Main) # NoDoc
    /\ frame[c].document \in Manifests
    /\ Apply(Removal(c))
    /\ Goto(c, "rmShard")
    /\ UNCHANGED late

RemoveShard(c) ==
    /\ pc[c] = "rmShard"
    /\ Apply(Removal(c))
    /\ IF frame[c].next + 1 < frame[c].document.shards
       THEN /\ frame' = [frame EXCEPT ![c].next = @ + 1]
            /\ UNCHANGED <<pc, call, answer>>
       ELSE Return(c, Answer("removed", SizeOf(frame[c].document)))
    /\ UNCHANGED late

-----------------------------------------------------------------------------
(* The environment: an SDK call raises (kv_timeout above all) or its thread *)
(* dies, and a mutation under way may still be applied later; a document    *)
(* expires or is evicted.                                                   *)

UnderWay(c) ==
    CASE pc[c] = "put" -> {NextUpsert(c)}
      [] pc[c] \in {"rmDoc", "rmShard"} -> {Removal(c)}
      [] OTHER -> {}

Fail(c) ==
    /\ Faults
    /\ pc[c] # "idle"
    /\ Return(c, Answer("error", 0))
    /\ \E lost \in SUBSET UnderWay(c) :
          /\ Cardinality(late \cup lost) <= MaxLate
          /\ late' = late \cup lost
    /\ UNCHANGED docs

ApplyLate(m) ==
    /\ Apply(m)
    /\ late' = late \ {m}
    /\ UNCHANGED <<pc, call, frame, answer>>

Lose(d) ==
    /\ Lossy
    /\ docs[d] # NoDoc
    /\ docs' = [docs EXCEPT ![d] = NoDoc]
    /\ UNCHANGED <<late, pc, call, frame, answer>>

Request(c) ==
    \/ BeginStore(c)
    \/ BeginPut(c)
    \/ BeginExists(c)
    \/ BeginGet(c)
    \/ BeginRemove(c)

Step(c) ==
    \/ StorePresent(c)
    \/ StoreAbsent(c)
    \/ PutShard(c)
    \/ PutMain(c)
    \/ Exists(c)
    \/ GetUnsharded(c)
    \/ GetManifest(c)
    \/ GetShardMissing(c)
    \/ GetShard(c)
    \/ GetLastShard(c)
    \/ RemoveGet(c)
    \/ RemoveAbsent(c)
    \/ RemoveUnsharded(c)
    \/ RemoveManifest(c)
    \/ RemoveShard(c)
    \/ Fail(c)

Next ==
    \/ \E c \in Clients : Request(c) \/ Step(c)
    \/ \E m \in late : ApplyLate(m)
    \/ \E d \in DocKeys : Lose(d)

Spec == Init /\ [][Next]_vars

(* Every SDK call returns or raises within kv_timeout, and a running thread *)
(* goes on to its next call.                                                *)
FairSpec == Spec /\ \A c \in Clients : WF_vars(Step(c))

-----------------------------------------------------------------------------
(* Properties.                                                             *)

(* All servers of a key prefix are configured with one shard_size_bytes.   *)
UniformShardSize == \A c, d \in Clients : ShardSize[c] = ShardSize[d]

(* Chunk keys are content hashes: a key determines its payload.            *)
ContentAddressed == \A k \in Keys : \A p, q \in Contents[k] : p = q

(* Documents go away only when they are overwritten.                       *)
Reliable == ~Lossy /\ "remove" \notin Ops

TypeOK ==
    /\ docs \in [DocKeys -> Docs]
    /\ late \subseteq Mutations
    /\ pc \in [Clients -> PCs]
    /\ call \in [Clients -> Calls]
    /\ frame \in [Clients -> Frames]
    /\ answer \in [Clients -> Answers]

(* The slices, joined in order, are the bytes of p and nothing else.       *)
Reassembles(slices, p) ==
    /\ slices # <<>>
    /\ slices[1].from = 0
    /\ slices[Len(slices)].to = Length[p]
    /\ \A i \in DOMAIN slices : slices[i].payload = p
    /\ \A i \in 1 .. Len(slices) - 1 : slices[i].to = slices[i + 1].from

(* What an undisturbed get_bytes would return a payload from.              *)
Readable(k) ==
    LET d == docs[<<k, Main>>]
    IN  \/ /\ d \in Slices
           /\ \E p \in Contents[k] : Reassembles(<<d>>, p)
        \/ /\ d \in Manifests
           /\ \A i \in 0 .. d.shards - 1 : docs[<<k, i>>] \in Slices
           /\ \E p \in Contents[k] :
                 /\ d.bytes = Length[p]
                 /\ Reassembles([i \in 1 .. d.shards |-> docs[<<k, i - 1>>]], p)

HitIsWhole(c) ==
    \E p \in Contents[Key(c)] : Reassembles(answer[c].parts, p)

(* A read that hits returns a payload that was offered under its key, whole *)
(* and in order, whatever other calls, losses and late writes did to the    *)
(* documents between its SDK calls (get_bytes: the check of every shard and *)
(* of the total length is all that protects it).                            *)
NoTornRead ==
    \A c \in Clients : answer[c].kind = "hit" => HitIsWhole(c)

(* Shards are written before the manifest, so that nobody sees a manifest   *)
(* with a shard missing (class docstring of CouchbaseKVStore).              *)
ManifestComplete ==
    \A k \in Keys : docs[<<k, Main>>] \in Manifests =>
        \A i \in 0 .. docs[<<k, Main>>].shards - 1 : docs[<<k, i>>] \in Slices

(* Once a store was answered with its size, or skipped because the chunk is *)
(* present, the chunk can be read, also while others rewrite it.            *)
StoredIsReadable ==
    \A c \in Clients :
        answer[c].kind \in {"stored", "present"} => Readable(Key(c))

(* _store_one skips only chunks that can be read: the manifest it finds is  *)
(* no remnant of a chunk that lost a shard.                                 *)
SkipsOnlyReadable ==
    [][\A c \in Clients : pc[c] = "check" /\ answer'[c].kind = "present"
          => Readable(Key(c))]_vars

(* A read misses a chunk only if it cannot be read at that very moment: one *)
(* that stays readable for as long as a read takes is never missed,         *)
(* whatever the read saw of other stores and removals before.               *)
ReadableIsHit ==
    [][\A c \in Clients : pc[c] \in {"getDoc", "getShard"}
          /\ answer'[c].kind = "miss" => ~Readable(Key(c))]_vars

(* A chunk a server offers becomes readable and stays so, unless the store  *)
(* failed.                                                                  *)
StoreLeadsToReadable ==
    \A c \in Clients, k \in Keys :
        pc[c] = "check" /\ Key(c) = k ~>
            answer[c].kind = "error" \/ []Readable(k)

-----------------------------------------------------------------------------
(* The store implements ChunkCache: a chunk is cached when the document at  *)
(* its key exists, and a read found it when it has read the manifest.       *)

AbstractRequest(step) ==
    CASE step = "idle" -> "none"
      [] step = "check" -> "offer"
      [] step = "put" -> "write"
      [] step = "exists" -> "ask"
      [] step \in {"getDoc", "getShard"} -> "fetch"
      [] step = "rmGet" -> "measure"
      [] step = "rmDoc" -> "remove"
      [] OTHER -> "sweep"

(* A torn hit, or a removed chunk of unknown size, is no reply of a cache   *)
(* that found the chunk.                                                    *)
AbstractReply(c) ==
    CASE answer[c].kind = "hit" /\ ~HitIsWhole(c) -> "torn"
      [] answer[c].kind = "removed" /\ answer[c].bytes = 0 -> "unmeasured"
      [] OTHER -> answer[c].kind

AbstractFound(c) ==
    pc[c] \in {"getShard", "rmDoc", "rmShard"} /\ frame[c].document # NoDoc

AbstractCached == {k \in Keys : docs[<<k, Main>>] # NoDoc}
AbstractInDoubt ==
    {k \in Keys : \E m \in late : m.at = <<k, Main>> /\ m.value # NoDoc}
AbstractRequests == [c \in Clients |-> AbstractRequest(pc[c])]
AbstractKeys == [c \in Clients |-> Key(c)]
AbstractFounds == [c \in Clients |-> AbstractFound(c)]
AbstractReplies == [c \in Clients |-> AbstractReply(c)]

Cache == INSTANCE ChunkCache WITH
    cached <- AbstractCached,
    inDoubt <- AbstractInDoubt,
    request <- AbstractRequests,
    key <- AbstractKeys,
    found <- AbstractFounds,
    reply <- AbstractReplies

(* Every behaviour of the store is one that LMCache may rely on: chunks     *)
(* appear whole, a hit is right, and nothing cached is missed unless        *)
(* documents can go away.                                                   *)
ImplementsChunkCache == Cache!Spec
=============================================================================
