------------------------- MODULE ShardedStoreProofs -------------------------
(***************************************************************************)
(* Theorems about ShardedStore, for any clients, keys, payloads, lengths   *)
(* and shard sizes.                                                        *)
(***************************************************************************)
EXTENDS ShardedStoreInvariant, TLAPS

-----------------------------------------------------------------------------
(* Arithmetic of put_bytes.                                                *)

(* The rounded-up quotient is the number of shards that just holds the     *)
(* payload: one fewer would not.                                           *)
LEMMA ShardCountBounds ==
    ASSUME NEW len \in Nat, NEW size \in Nat \ {0}
    PROVE  /\ ShardCount(len, size) \in Nat
           /\ len <= ShardCount(len, size) * size
           /\ (ShardCount(len, size) - 1) * size < len \/ len = 0
           /\ len > size => ShardCount(len, size) > 1
<1> DEFINE q == (-len) \div size
<1>1. q \in Int /\ q * size <= -len /\ -len < q * size + size
  BY Z3
<1>2. ShardCount(len, size) = -q
  BY DEF ShardCount
<1>3. q <= 0
  BY <1>1, Z3
<1>4. QED
  BY <1>1, <1>2, <1>3, Z3

-----------------------------------------------------------------------------
(* Documents.                                                              *)

LEMMA MainIsDocKey ==
    ASSUME NEW k \in Keys
    PROVE  <<k, Main>> \in DocKeys
BY MaxShardsAssumption DEF DocKeys, Main

(* What put_bytes writes is a document: a manifest, with at least one      *)
(* shard and at most MaxShards, only at the key itself.                    *)
LEMMA WrittenIsDoc ==
    ASSUME NEW k \in Keys, NEW i \in Int, NEW v, Written(k, i, v)
    PROVE  /\ <<k, i>> \in DocKeys
           /\ v \in Docs
           /\ v # NoDoc
           /\ v \in Manifests => i = Main /\ v.shards \in 1 .. MaxShards
           /\ v \notin Manifests => v \in Slices
<1>1. PICK p \in Contents[k], c \in Clients :
         \/ i = Main /\ v = MainDoc(p, ShardSize[c])
         \/ /\ Length[p] > ShardSize[c]
            /\ i \in 0 .. ShardCount(Length[p], ShardSize[c]) - 1
            /\ v = Shard(p, i, ShardSize[c])
  BY DEF Written
<1> DEFINE n == ShardCount(Length[p], ShardSize[c])
<1>2. p \in Payloads /\ Length[p] \in Nat /\ ShardSize[c] \in Nat \ {0}
  BY ContentsAssumption, LengthAssumption, ShardSizeAssumption
<1>3. n \in Nat /\ n <= MaxShards /\ MaxShards \in Nat
      /\ (Length[p] > ShardSize[c] => n > 1)
  BY <1>2, ShardCountBounds, MaxShardsAssumption
<1>4. CASE i = Main /\ v = MainDoc(p, ShardSize[c])
  <2>1. CASE Length[p] <= ShardSize[c]
    <3>1. v = [kind |-> "bytes", payload |-> p, from |-> 0, to |-> Length[p]]
      BY <1>4, <2>1 DEF MainDoc, Slice
    <3>2. v \in Slices /\ v \notin Manifests /\ v # NoDoc
      BY <3>1, <1>2 DEF Slices, Manifests, NoDoc
    <3>3. QED
      BY <3>2, <1>4, MainIsDocKey DEF Docs
  <2>2. CASE ~(Length[p] <= ShardSize[c])
    <3>1. v = [kind |-> "manifest", shards |-> n, bytes |-> Length[p]] /\ n > 1
      BY <1>2, <1>3, <1>4, <2>2 DEF MainDoc, Manifest
    <3>2. v \in Manifests /\ v # NoDoc /\ v.shards = n
      BY <3>1, <1>2, <1>3 DEF Manifests, NoDoc
    <3>3. QED
      BY <3>1, <3>2, <1>3, <1>4, MainIsDocKey DEF Docs
  <2>3. QED
    BY <2>1, <2>2
<1>5. CASE /\ i \in 0 .. n - 1
           /\ v = Shard(p, i, ShardSize[c])
  <2>1. i * ShardSize[c] \in Nat /\ (i + 1) * ShardSize[c] \in Nat
    BY <1>2, <1>3, <1>5
  <2>2. v \in Slices /\ v \notin Manifests /\ v # NoDoc
    BY <1>2, <1>5, <2>1 DEF Shard, Slice, Least, Slices, Manifests, NoDoc
  <2>3. <<k, i>> \in DocKeys
    BY <1>3, <1>5 DEF DocKeys, Main
  <2>4. QED
    BY <2>2, <2>3 DEF Docs
<1>6. QED
  BY <1>1, <1>4, <1>5

LEMMA GoodDocIsDoc ==
    ASSUME NEW d \in DocKeys, NEW v, GoodDoc(d, v)
    PROVE  /\ v \in Docs
           /\ v \in Manifests => d[2] = Main /\ v.shards \in 1 .. MaxShards
           /\ v \notin Manifests /\ v # NoDoc => v \in Slices
<1>1. d[1] \in Keys /\ d[2] \in Int
  BY MaxShardsAssumption DEF DocKeys, Main
<1>2. NoDoc \in Docs /\ NoDoc \notin Manifests
  BY DEF Docs, NoDoc, Manifests
<1>3. QED
  BY <1>1, <1>2, WrittenIsDoc DEF GoodDoc

-----------------------------------------------------------------------------
(* Type correctness and the provenance of every document.                  *)

(* The mutation a call is about to issue is one that put_bytes or a        *)
(* removal issues at a document key of its chunk.                          *)
LEMMA NextUpsertGood ==
    ASSUME Provenance, NEW c \in Clients, pc[c] = "put"
    PROVE  /\ NextUpsert(c) \in Mutations
           /\ GoodDoc(NextUpsert(c).at, NextUpsert(c).value)
           /\ NextUpsert(c).at[1] = Key(c)
           /\ Key(c) \in Keys
           /\ NextUpsert(c).value # NoDoc
           /\ frame[c].next \in Nat
           /\ ShardsOf(c) \in Nat
           /\ Length[call[c].payload] \in Nat
<1> DEFINE k == Key(c)
           p == call[c].payload
           i == IF frame[c].next < ShardsOf(c) THEN frame[c].next ELSE Main
           v == NextUpsert(c).value
<1>1. k \in Keys /\ p \in Contents[k] /\ p \in Payloads /\ frame[c].next \in Nat
  BY ContentsAssumption
  DEF Provenance, TypeOK, CallOK, Key, Calls, Frames
<1>2. Length[p] \in Nat /\ ShardSize[c] \in Nat \ {0}
  BY <1>1, LengthAssumption, ShardSizeAssumption
<1>3. ShardsOf(c) \in Nat
  BY <1>2, ShardCountBounds DEF ShardsOf
<1>4. NextUpsert(c) = [at |-> <<k, i>>, value |-> v] /\ i \in Int
  BY <1>1, <1>3 DEF NextUpsert, Main
<1>5. Written(k, i, v)
  <2>1. CASE frame[c].next < ShardsOf(c)
    <3>1. i = frame[c].next /\ v = Shard(p, i, ShardSize[c])
      BY <2>1 DEF NextUpsert
    <3>2. Length[p] > ShardSize[c]
          /\ ShardsOf(c) = ShardCount(Length[p], ShardSize[c])
      BY <1>1, <1>2, <2>1 DEF ShardsOf
    <3>3. QED
      BY <1>1, <1>3, <2>1, <3>1, <3>2 DEF Written
  <2>2. CASE ~(frame[c].next < ShardsOf(c))
    BY <1>1, <2>2 DEF NextUpsert, Written
  <2>3. QED
    BY <2>1, <2>2
<1>6. <<k, i>> \in DocKeys /\ v \in Docs /\ v # NoDoc
  BY <1>1, <1>4, <1>5, WrittenIsDoc
<1>7. QED
  BY <1>1, <1>2, <1>3, <1>4, <1>5, <1>6 DEF Mutations, GoodDoc

LEMMA RemovalGood ==
    ASSUME Provenance, NEW c \in Clients, pc[c] \in {"rmDoc", "rmShard"}
    PROVE  /\ Removal(c) \in Mutations
           /\ GoodDoc(Removal(c).at, Removal(c).value)
           /\ Key(c) \in Keys
<1>1. Key(c) \in Keys /\ frame[c].next \in Nat
  BY DEF Provenance, TypeOK, Key, Calls, Frames
<1>2. NoDoc \in Docs
  BY DEF Docs
<1>3. CASE pc[c] = "rmDoc"
  BY <1>1, <1>2, <1>3, MainIsDocKey DEF Removal, Mutations, GoodDoc
<1>4. CASE pc[c] = "rmShard"
  <2>1. frame[c].document.shards \in 1 .. MaxShards
        /\ frame[c].next < frame[c].document.shards
    BY <1>1, <1>4, MainIsDocKey, GoodDocIsDoc DEF Provenance, FrameOK
  <2>2. <<Key(c), frame[c].next>> \in DocKeys
    BY <1>1, <2>1, MaxShardsAssumption DEF DocKeys, Main
  <2>3. QED
    BY <1>1, <1>4, <1>2, <2>2 DEF Removal, Mutations, GoodDoc
<1>5. QED
  BY <1>3, <1>4

LEMMA ApplyGood ==
    ASSUME Provenance, NEW m \in Mutations, GoodDoc(m.at, m.value), Apply(m)
    PROVE  docs' \in [DocKeys -> Docs] /\ DocsWritten'
BY DEF Provenance, TypeOK, DocsWritten, Apply, Mutations

LEMMA ReturnKeeps ==
    ASSUME Provenance, NEW c \in Clients, NEW a \in Answers, Return(c, a)
    PROVE  /\ pc' \in [Clients -> PCs]
           /\ call' \in [Clients -> Calls]
           /\ frame' \in [Clients -> Frames]
           /\ answer' \in [Clients -> Answers]
           /\ CallOK'
           /\ FrameOK'
<1>1. NewFrame \in Frames
  BY DEF NewFrame, Frames, Docs
<1>2. /\ pc' \in [Clients -> PCs]
      /\ call' \in [Clients -> Calls]
      /\ frame' \in [Clients -> Frames]
      /\ answer' \in [Clients -> Answers]
  BY <1>1 DEF Provenance, TypeOK, Return, PCs
<1>3. CallOK'
  BY DEF Provenance, TypeOK, CallOK, Return, Key
<1>4. FrameOK'
  BY DEF Provenance, TypeOK, FrameOK, Return, Key, ShardsOf
<1>5. QED
  BY <1>2, <1>3, <1>4

LEMMA BeginKeeps ==
    ASSUME Provenance, NEW c \in Clients, NEW k \in Keys,
           NEW p \in Payloads \cup {NoPayload},
           NEW first \in {"check", "put", "exists", "getDoc", "rmGet"},
           first \in {"check", "put"} => p \in Contents[k],
           Begin(c, k, p, first)
    PROVE  Provenance'
<1> USE DEF Provenance
<1>1. TypeOK'
  BY DEF TypeOK, Begin, PCs, Calls, Answers, Answer, NoAnswer, AnswerKinds
<1>2. DocsWritten' /\ LateWritten'
  BY DEF Begin, DocsWritten, LateWritten
<1>3. CallOK'
  BY DEF TypeOK, CallOK, Begin, Key
<1>4. FrameOK'
  <2>1. SUFFICES ASSUME NEW d \in Clients
                 PROVE  /\ pc'[d] \in {"idle", "check", "exists", "getDoc", "rmGet"}
                              => frame'[d] = NewFrame
                        /\ pc'[d] = "put" => frame'[d].next <= ShardsOf(d)'
                        /\ pc'[d] \in {"rmDoc", "getShard", "rmShard"} =>
                              GoodDoc(<<Key(d)', Main>>, frame'[d].document)
                        /\ pc'[d] = "rmDoc" => frame'[d].next = 0
                        /\ pc'[d] \in {"getShard", "rmShard"} =>
                              /\ frame'[d].document \in Manifests
                              /\ frame'[d].next < frame'[d].document.shards
    BY DEF FrameOK
  <2>2. CASE d = c
    <3>1. frame'[c] = NewFrame /\ NewFrame.next = 0 /\ pc'[c] = first
      BY DEF Begin, TypeOK, FrameOK, NewFrame
    <3>2. first = "put" => ShardsOf(c)' \in Nat
      <4>1. SUFFICES ASSUME first = "put" PROVE ShardsOf(c)' \in Nat
        OBVIOUS
      <4>2. call'[c].payload = p /\ p \in Payloads
        BY <4>1, ContentsAssumption DEF Begin, TypeOK
      <4>3. Length[p] \in Nat /\ ShardSize[c] \in Nat \ {0}
        BY <4>2, LengthAssumption, ShardSizeAssumption
      <4>4. QED
        BY <4>2, <4>3, ShardCountBounds DEF ShardsOf
    <3>3. QED
      BY <2>2, <3>1, <3>2
  <2>3. CASE d # c
    <3>1. /\ pc'[d] = pc[d] /\ frame'[d] = frame[d] /\ call'[d] = call[d]
      BY <2>3 DEF Begin, TypeOK
    <3>2. Key(d)' = Key(d) /\ ShardsOf(d)' = ShardsOf(d)
      BY <3>1 DEF Key, ShardsOf
    <3>3. QED
      BY <3>1, <3>2 DEF FrameOK
  <2>4. QED
    BY <2>2, <2>3
<1>5. QED
  BY <1>1, <1>2, <1>3, <1>4

(* A step inside a method, which leaves the frame f.                       *)
LEMMA FrameStepKeeps ==
    ASSUME Provenance, NEW c \in Clients, NEW f \in Frames,
           NEW step \in {"put", "getShard", "rmDoc", "rmShard"},
           step = "put" => /\ call[c].payload \in Contents[Key(c)]
                           /\ f.next <= ShardsOf(c),
           step # "put" => GoodDoc(<<Key(c), Main>>, f.document),
           step = "rmDoc" => f.next = 0,
           step \in {"getShard", "rmShard"} =>
              f.document \in Manifests /\ f.next < f.document.shards,
           pc' = [pc EXCEPT ![c] = step],
           frame' = [frame EXCEPT ![c] = f],
           UNCHANGED <<late, call, answer>>,
           docs' \in [DocKeys -> Docs],
           DocsWritten'
    PROVE  Provenance'
<1> USE DEF Provenance
<1>1. TypeOK'
  BY DEF TypeOK, PCs
<1>2. LateWritten' /\ CallOK'
  BY DEF TypeOK, LateWritten, CallOK, Key
<1>3. FrameOK'
  <2>1. \A d \in Clients : Key(d)' = Key(d) /\ ShardsOf(d)' = ShardsOf(d)
    BY DEF Key, ShardsOf
  <2>2. QED
    BY <2>1 DEF TypeOK, FrameOK
<1>4. QED
  BY <1>1, <1>2, <1>3

LEMMA StepKeepsProvenance == Provenance /\ [Next]_vars => Provenance'
<1> SUFFICES ASSUME Provenance, [Next]_vars
             PROVE  Provenance'
  OBVIOUS
<1>a. TypeOK /\ DocsWritten /\ LateWritten /\ CallOK /\ FrameOK
  BY DEF Provenance
<1>b. ASSUME NEW c \in Clients, NEW kind \in AnswerKinds, NEW bytes \in Int
      PROVE  Answer(kind, bytes) \in Answers
  BY DEF Answer, Answers
<1>c. ASSUME NEW c \in Clients
      PROVE  Key(c) \in Keys /\ DocAt(c, Main) \in Docs
             /\ GoodDoc(<<Key(c), Main>>, DocAt(c, Main))
  BY <1>a, MainIsDocKey DEF TypeOK, DocsWritten, Calls, Key, DocAt
<1>d. ASSUME NEW d \in Docs
      PROVE  SizeOf(d) \in Int
  BY DEF SizeOf, Docs, NoDoc, Slices, Manifests
<1>1. ASSUME NEW c \in Clients, Request(c)
      PROVE  Provenance'
  <2>1. \A k \in Keys : Contents[k] \subseteq Payloads
    BY ContentsAssumption
  <2>2. CASE BeginStore(c)
    BY <2>1, <2>2, BeginKeeps DEF BeginStore
  <2>3. CASE BeginPut(c)
    BY <2>1, <2>3, BeginKeeps DEF BeginPut
  <2>4. CASE BeginExists(c)
    BY <2>4, BeginKeeps DEF BeginExists
  <2>5. CASE BeginGet(c)
    BY <2>5, BeginKeeps DEF BeginGet
  <2>6. CASE BeginRemove(c)
    BY <2>6, BeginKeeps DEF BeginRemove
  <2>7. QED
    BY <1>1, <2>2, <2>3, <2>4, <2>5, <2>6 DEF Request
<1>2. ASSUME NEW c \in Clients, NEW a \in Answers, Return(c, a),
             UNCHANGED <<docs, late>>
      PROVE  Provenance'
  BY <1>2, <1>a, ReturnKeeps
  DEF Provenance, TypeOK, DocsWritten, LateWritten
<1>3. ASSUME NEW c \in Clients, NEW a \in Answers, Return(c, a),
             NEW m \in Mutations, GoodDoc(m.at, m.value), Apply(m),
             UNCHANGED late
      PROVE  Provenance'
  BY <1>3, <1>a, ReturnKeeps, ApplyGood
  DEF Provenance, TypeOK, LateWritten
<1>4. ASSUME NEW c \in Clients, Step(c)
      PROVE  Provenance'
  <2> USE <1>a
  <2>1. CASE StorePresent(c)
    BY <2>1, <1>b, <1>2 DEF StorePresent, AnswerKinds
  <2>2. CASE StoreAbsent(c)
    <3>1. /\ pc[c] = "check" /\ frame[c] \in Frames /\ frame[c] = NewFrame
          /\ call[c].payload \in Contents[Key(c)]
      BY <2>2 DEF StoreAbsent, CallOK, FrameOK, TypeOK
    <3>2. call[c].payload \in Payloads
      BY <3>1, <1>c, ContentsAssumption
    <3>3. ShardsOf(c) \in Nat
      BY <3>2, ShardCountBounds, LengthAssumption, ShardSizeAssumption DEF ShardsOf
    <3>4. frame[c].next <= ShardsOf(c)
      BY <3>1, <3>3 DEF NewFrame
    <3>5. frame' = [frame EXCEPT ![c] = frame[c]]
      BY <2>2 DEF StoreAbsent, Goto, TypeOK
    <3>6. docs' \in [DocKeys -> Docs] /\ DocsWritten'
      BY <2>2 DEF StoreAbsent, TypeOK, DocsWritten
    <3>7. QED
      BY <2>2, <3>1, <3>4, <3>5, <3>6, FrameStepKeeps DEF StoreAbsent, Goto
  <2>3. CASE PutShard(c)
    <3> DEFINE f == [frame[c] EXCEPT !.next = @ + 1]
    <3>1. pc[c] = "put" /\ frame[c] \in Frames /\ frame[c].next < ShardsOf(c)
          /\ call[c].payload \in Contents[Key(c)]
      BY <2>3 DEF PutShard, CallOK, TypeOK
    <3>2. ShardsOf(c) \in Nat
      BY <3>1, NextUpsertGood
    <3>3. f \in Frames /\ f.next <= ShardsOf(c)
      BY <3>1, <3>2 DEF Frames
    <3>4. docs' \in [DocKeys -> Docs] /\ DocsWritten'
      BY <2>3, <3>1, NextUpsertGood, ApplyGood DEF PutShard
    <3>5. pc' = [pc EXCEPT ![c] = "put"] /\ frame' = [frame EXCEPT ![c] = f]
      BY <2>3, <3>1 DEF PutShard, TypeOK
    <3>6. QED
      BY <2>3, <3>1, <3>3, <3>4, <3>5, FrameStepKeeps DEF PutShard
  <2>4. CASE PutMain(c)
    <3>1. pc[c] = "put"
      BY <2>4 DEF PutMain
    <3>2. Answer("stored", Length[call[c].payload]) \in Answers
      BY <3>1, <1>b, NextUpsertGood DEF AnswerKinds
    <3>3. QED
      BY <2>4, <3>1, <3>2, <1>3, NextUpsertGood DEF PutMain
  <2>5. CASE Exists(c)
    <3>1. Answer(IF DocAt(c, Main) # NoDoc THEN "yes" ELSE "no", 0) \in Answers
      BY <1>b DEF AnswerKinds
    <3>2. QED
      BY <2>5, <3>1, <1>2 DEF Exists
  <2>6. CASE GetUnsharded(c)
    <3>1. ASSUME DocAt(c, Main) # NoDoc
          PROVE  Hit(<<DocAt(c, Main)>>, SizeOf(DocAt(c, Main))) \in Answers
      <4>1. DocAt(c, Main) \in Slices
        BY <2>6, <3>1, <1>c DEF GetUnsharded, Docs
      <4>2. SizeOf(DocAt(c, Main)) \in Int
        BY <1>c, <1>d
      <4>3. QED
        BY <4>1, <4>2 DEF Hit, Answers, AnswerKinds
    <3>2. Answer("miss", 0) \in Answers
      BY <1>b DEF AnswerKinds
    <3>3. QED
      BY <2>6, <3>1, <3>2, <1>2 DEF GetUnsharded
  <2>7. CASE GetManifest(c)
    <3> DEFINE f == [frame[c] EXCEPT !.document = DocAt(c, Main)]
    <3>1. pc[c] = "getDoc" /\ frame[c] \in Frames /\ frame[c] = NewFrame
          /\ DocAt(c, Main) \in Manifests
      BY <2>7 DEF GetManifest, FrameOK, TypeOK
    <3>2. f \in Frames /\ f.document = DocAt(c, Main) /\ f.next = 0
      <4>1. f \in Frames /\ f.document = DocAt(c, Main) /\ f.next = frame[c].next
        BY <3>1, <1>c DEF Frames
      <4>2. frame[c].next = 0
        BY <3>1 DEF NewFrame
      <4>3. QED
        BY <4>1, <4>2
    <3>3. DocAt(c, Main).shards \in 1 .. MaxShards
      BY <3>1, <1>c, MainIsDocKey, GoodDocIsDoc
    <3>4. docs' \in [DocKeys -> Docs] /\ DocsWritten'
      BY <2>7 DEF GetManifest, TypeOK, DocsWritten
    <3>5. frame' = [frame EXCEPT ![c] = f]
      BY <2>7 DEF GetManifest, TypeOK
    <3>6. f.next < f.document.shards
      BY <3>2, <3>3, MaxShardsAssumption
    <3>7. QED
      BY <2>7, <1>c, <3>1, <3>2, <3>4, <3>5, <3>6, FrameStepKeeps DEF GetManifest
  <2>8. CASE GetShardMissing(c)
    BY <2>8, <1>b, <1>2 DEF GetShardMissing, AnswerKinds
  <2>9. CASE GetShard(c) \/ GetLastShard(c)
    <3> DEFINE part == DocAt(c, frame[c].next)
               f == Joined(c)
    <3>1. pc[c] = "getShard" /\ frame[c] \in Frames /\ part \in Slices
      BY <2>9 DEF GetShard, GetLastShard, TypeOK
    <3>2. SizeOf(part) \in Int
      BY <3>1, <1>d DEF Docs
    <3>3. f \in Frames /\ f.document = frame[c].document
      <4>1. Append(frame[c].parts, part) \in Seq(Slices)
        BY <3>1 DEF Frames
      <4>2. frame[c].next + 1 \in Nat /\ frame[c].bytes + SizeOf(part) \in Int
        BY <3>1, <3>2 DEF Frames
      <4>3. f = [frame[c] EXCEPT !.next = frame[c].next + 1,
                                 !.parts = Append(frame[c].parts, part),
                                 !.bytes = frame[c].bytes + SizeOf(part)]
        BY <3>1 DEF Joined, Frames
      <4> HIDE DEF f, part
      <4>4. QED
        BY <3>1, <4>1, <4>2, <4>3 DEF Frames
    <3>4. CASE GetShard(c)
      <4>1. docs' \in [DocKeys -> Docs] /\ DocsWritten'
        BY <3>4 DEF GetShard, TypeOK, DocsWritten
      <4>2. pc' = [pc EXCEPT ![c] = "getShard"]
        BY <3>1, <3>4 DEF GetShard, TypeOK
      <4>3. /\ GoodDoc(<<Key(c), Main>>, f.document)
            /\ f.document \in Manifests
            /\ f.next < f.document.shards
        BY <3>1, <3>3, <3>4 DEF GetShard, FrameOK
      <4>4. QED
        BY <3>3, <3>4, <4>1, <4>2, <4>3, FrameStepKeeps DEF GetShard
    <3>5. CASE GetLastShard(c)
      <4>1. Hit(f.parts, f.bytes) \in Answers /\ Answer("miss", 0) \in Answers
        BY <3>3, <1>b DEF Hit, Answers, AnswerKinds, Frames
      <4>2. QED
        BY <3>5, <4>1, <1>2 DEF GetLastShard
    <3>6. QED
      BY <2>9, <3>4, <3>5
  <2>10. CASE RemoveGet(c)
    <3> DEFINE f == [frame[c] EXCEPT !.document = DocAt(c, Main)]
    <3>1. pc[c] = "rmGet" /\ frame[c] \in Frames /\ frame[c] = NewFrame
      BY <2>10 DEF RemoveGet, FrameOK, TypeOK
    <3>2. f \in Frames /\ f.document = DocAt(c, Main) /\ f.next = 0
      <4>1. f \in Frames /\ f.document = DocAt(c, Main) /\ f.next = frame[c].next
        BY <3>1, <1>c DEF Frames
      <4>2. frame[c].next = 0
        BY <3>1 DEF NewFrame
      <4>3. QED
        BY <4>1, <4>2
    <3>3. docs' \in [DocKeys -> Docs] /\ DocsWritten'
      BY <2>10 DEF RemoveGet, TypeOK, DocsWritten
    <3>4. frame' = [frame EXCEPT ![c] = f]
      BY <2>10 DEF RemoveGet, TypeOK
    <3>5. QED
      BY <2>10, <1>c, <3>2, <3>3, <3>4, FrameStepKeeps DEF RemoveGet
  <2>11. CASE RemoveAbsent(c)
    BY <2>11, <1>b, <1>2 DEF RemoveAbsent, AnswerKinds
  <2>12. CASE RemoveUnsharded(c)
    <3>1. pc[c] = "rmDoc" /\ frame[c].document \in Docs
      BY <2>12 DEF RemoveUnsharded, TypeOK, Frames
    <3>2. Answer("removed", SizeOf(frame[c].document)) \in Answers
      BY <3>1, <1>b, <1>d DEF AnswerKinds
    <3>3. QED
      BY <2>12, <3>1, <3>2, <1>3, RemovalGood DEF RemoveUnsharded
  <2>13. CASE RemoveManifest(c)
    <3>1. /\ pc[c] = "rmDoc" /\ frame[c] \in Frames /\ frame[c].next = 0
          /\ GoodDoc(<<Key(c), Main>>, frame[c].document)
          /\ frame[c].document \in Manifests
      BY <2>13 DEF RemoveManifest, FrameOK, TypeOK
    <3>2. frame[c].document.shards \in 1 .. MaxShards
      BY <3>1, <1>c, MainIsDocKey, GoodDocIsDoc
    <3>3. frame[c].next < frame[c].document.shards
      BY <3>1, <3>2, MaxShardsAssumption
    <3>4. docs' \in [DocKeys -> Docs] /\ DocsWritten'
      BY <2>13, <3>1, RemovalGood, ApplyGood DEF RemoveManifest
    <3>5. frame' = [frame EXCEPT ![c] = frame[c]]
      BY <2>13 DEF RemoveManifest, Goto, TypeOK
    <3>6. QED
      BY <2>13, <3>1, <3>3, <3>4, <3>5, FrameStepKeeps DEF RemoveManifest, Goto
  <2>14. CASE RemoveShard(c)
    <3>1. /\ pc[c] = "rmShard" /\ frame[c] \in Frames
          /\ GoodDoc(<<Key(c), Main>>, frame[c].document)
          /\ frame[c].document \in Manifests
      BY <2>14 DEF RemoveShard, FrameOK, TypeOK
    <3>2. CASE frame[c].next + 1 < frame[c].document.shards
      <4> DEFINE f == [frame[c] EXCEPT !.next = @ + 1]
      <4>1. f \in Frames /\ f.document = frame[c].document
            /\ f.next < f.document.shards
        BY <3>1, <3>2 DEF Frames
      <4>2. docs' \in [DocKeys -> Docs] /\ DocsWritten'
        BY <2>14, <3>1, RemovalGood, ApplyGood DEF RemoveShard
      <4>3. pc' = [pc EXCEPT ![c] = "rmShard"] /\ frame' = [frame EXCEPT ![c] = f]
            /\ UNCHANGED <<late, call, answer>>
        BY <2>14, <3>1, <3>2 DEF RemoveShard, TypeOK
      <4>4. QED
        BY <3>1, <4>1, <4>2, <4>3, FrameStepKeeps
    <3>3. CASE ~(frame[c].next + 1 < frame[c].document.shards)
      <4>1. Answer("removed", SizeOf(frame[c].document)) \in Answers
        BY <3>1, <1>b, <1>d DEF AnswerKinds, Frames
      <4>2. QED
        BY <2>14, <3>1, <3>3, <4>1, <1>3, RemovalGood DEF RemoveShard
    <3>4. QED
      BY <3>2, <3>3
  <2>15. CASE Fail(c)
    <3>1. PICK lost \in SUBSET UnderWay(c) : late' = late \cup lost
      BY <2>15 DEF Fail
    <3>2. \A m \in UnderWay(c) : m \in Mutations /\ GoodDoc(m.at, m.value)
      <4>1. CASE pc[c] = "put"
        BY <4>1, NextUpsertGood DEF UnderWay
      <4>2. CASE pc[c] \in {"rmDoc", "rmShard"}
        BY <4>2, RemovalGood DEF UnderWay
      <4>3. CASE pc[c] \notin {"put", "rmDoc", "rmShard"}
        BY <4>3 DEF UnderWay
      <4>4. QED
        BY <4>1, <4>2, <4>3
    <3>3. late' \subseteq Mutations /\ LateWritten'
      BY <3>1, <3>2 DEF TypeOK, LateWritten
    <3>4. Answer("error", 0) \in Answers
      BY <1>b DEF AnswerKinds
    <3>5. QED
      BY <2>15, <3>3, <3>4, ReturnKeeps DEF Fail, Provenance, TypeOK, DocsWritten
  <2>16. QED
    BY <1>4, <2>1, <2>2, <2>3, <2>4, <2>5, <2>6, <2>7, <2>8, <2>9, <2>10, <2>11,
       <2>12, <2>13, <2>14, <2>15 DEF Step
<1>5. ASSUME NEW m \in late, ApplyLate(m)
      PROVE  Provenance'
  <2>1. m \in Mutations /\ GoodDoc(m.at, m.value)
    BY <1>a DEF TypeOK, LateWritten
  <2>2. docs' \in [DocKeys -> Docs] /\ DocsWritten'
    BY <1>5, <2>1, ApplyGood DEF ApplyLate
  <2>3. TypeOK' /\ LateWritten'
    BY <1>5, <1>a, <2>2 DEF ApplyLate, TypeOK, LateWritten
  <2>4. CallOK' /\ FrameOK'
    BY <1>5, <1>a DEF ApplyLate, CallOK, FrameOK, Key, ShardsOf
  <2>5. QED
    BY <2>2, <2>3, <2>4 DEF Provenance
<1>6. ASSUME NEW d \in DocKeys, Lose(d)
      PROVE  Provenance'
  <2>1. TypeOK' /\ DocsWritten' /\ LateWritten'
    BY <1>6, <1>a DEF Lose, TypeOK, DocsWritten, LateWritten, GoodDoc, Docs
  <2>2. CallOK' /\ FrameOK'
    BY <1>6, <1>a DEF Lose, CallOK, FrameOK, Key, ShardsOf
  <2>3. QED
    BY <2>1, <2>2 DEF Provenance
<1>7. CASE UNCHANGED vars
  BY <1>7, <1>a DEF vars, Provenance, TypeOK, DocsWritten, LateWritten, CallOK,
     FrameOK, Key, ShardsOf
<1>8. QED
  BY <1>1, <1>4, <1>5, <1>6, <1>7 DEF Next

LEMMA InitProvenance == Init => Provenance
<1> SUFFICES ASSUME Init PROVE Provenance
  OBVIOUS
<1>1. NoDoc \in Docs /\ NewFrame \in Frames
  BY DEF Docs, NewFrame, Frames
<1>2. NoAnswer \in Answers
  BY DEF NoAnswer, Answer, Answers, AnswerKinds
<1>3. TypeOK
  BY <1>1, <1>2 DEF Init, TypeOK, Calls, PCs
<1>4. DocsWritten /\ LateWritten /\ CallOK /\ FrameOK
  BY DEF Init, DocsWritten, GoodDoc, LateWritten, CallOK, FrameOK
<1>5. QED
  BY <1>3, <1>4 DEF Provenance

(* Type correctness, and every document, late write and local of a call    *)
(* stems from a put of a payload of its key (store.py: put_bytes,          *)
(* get_bytes, remove_measured with their failures).                        *)
THEOREM SpecProvenance == Spec => []Provenance
<1>1. Init => Provenance
  BY InitProvenance
<1>2. QED
  BY <1>1, StepKeepsProvenance, PTL DEF Spec

-----------------------------------------------------------------------------
(* Reads: with one shard size and content-addressed keys no read is torn.  *)

LEMMA TimesMonotone ==
    ASSUME NEW a \in Int, NEW b \in Int, a <= b, NEW s \in Nat
    PROVE  a * s <= b * s
OBVIOUS

(* All the shards of a payload, in order, are the payload.                 *)
LEMMA ShardsReassemble ==
    ASSUME NEW p, NEW size \in Nat \ {0}, Length[p] \in Nat, Length[p] > size,
           NEW parts,
           parts = [i \in 1 .. ShardCount(Length[p], size) |-> Shard(p, i - 1, size)]
    PROVE  Reassembles(parts, p)
<1> DEFINE len == Length[p]
           n == ShardCount(len, size)
<1>1. n \in Nat /\ n > 1 /\ len <= n * size /\ (n - 1) * size < len
  <2>1. len \in Nat /\ len > size /\ len # 0
    OBVIOUS
  <2>2. /\ n \in Nat
        /\ len <= n * size
        /\ (n - 1) * size < len \/ len = 0
        /\ len > size => n > 1
    <3> HIDE DEF len
    <3>1. QED
      BY <2>1, ShardCountBounds
  <2> HIDE DEF len, n
  <2>3. QED
    BY <2>1, <2>2
<1>2. DOMAIN parts = 1 .. n /\ Len(parts) = n /\ parts # <<>>
  BY <1>1
<1>3. ASSUME NEW i \in 1 .. n
      PROVE  /\ parts[i].payload = p
             /\ parts[i].from = (i - 1) * size
             /\ parts[i].to = Least(i * size, len)
  BY <1>3 DEF Shard, Slice
<1>len. len \in Nat
  OBVIOUS
<1> HIDE DEF len, n
<1>mul. /\ \A i \in Int : i * size \in Int
        /\ 0 * size = 0
        /\ \A i \in Int : i <= n - 1 => i * size <= (n - 1) * size
  <2>1. size \in Nat /\ n - 1 \in Int
    BY <1>1
  <2>2. \A i \in Int : i <= n - 1 => i * size <= (n - 1) * size
    BY <2>1, TimesMonotone
  <2>3. (\A i \in Int : i * size \in Int) /\ 0 * size = 0
    BY <2>1
  <2>4. QED
    BY <2>2, <2>3
<1>4. parts[1].from = 0 /\ parts[n].to = len
  <2>1. 1 \in 1 .. n /\ n \in 1 .. n /\ 1 - 1 = 0
    BY <1>1
  <2>2. parts[1].from = 0 * size /\ parts[n].to = Least(n * size, len)
    BY <1>3, <2>1
  <2>3. Least(n * size, len) = len
    BY <1>1, <1>len, <1>mul DEF Least
  <2>4. QED
    BY <2>2, <2>3, <1>mul
<1>5. ASSUME NEW i \in 1 .. n - 1
      PROVE  parts[i].to = parts[i + 1].from
  <2>1. i \in Int /\ n - 1 \in Int /\ i <= n - 1
        /\ i \in 1 .. n /\ i + 1 \in 1 .. n /\ (i + 1) - 1 = i
    BY <1>1
  <2>2. i * size \in Int /\ (n - 1) * size \in Int /\ i * size <= (n - 1) * size
    BY <2>1, <1>mul
  <2>3. Least(i * size, len) = i * size
    BY <1>1, <1>len, <2>2 DEF Least
  <2>4. parts[i + 1].from = i * size
    BY <1>3, <2>1
  <2>5. QED
    BY <1>3, <2>1, <2>3, <2>4
<1>6. QED
  BY <1>2, <1>3, <1>4, <1>5 DEF Reassembles, len

(* What is written at a document key is then determined by the key.        *)
LEMMA UniformWritten ==
    ASSUME UniformShardSize, ContentAddressed,
           NEW k \in Keys, NEW i \in Int, NEW v, Written(k, i, v)
    PROVE  LET p == ThePayload(k)
           IN  /\ p \in Contents[k] /\ p \in Payloads
               /\ Length[p] \in Nat
               /\ TheSize \in Nat \ {0}
               /\ \/ i = Main /\ v = MainDoc(p, TheSize)
                  \/ /\ Length[p] > TheSize
                     /\ i \in 0 .. ShardCount(Length[p], TheSize) - 1
                     /\ v = Shard(p, i, TheSize)
<1>1. PICK p \in Contents[k], c \in Clients :
         \/ i = Main /\ v = MainDoc(p, ShardSize[c])
         \/ /\ Length[p] > ShardSize[c]
            /\ i \in 0 .. ShardCount(Length[p], ShardSize[c]) - 1
            /\ v = Shard(p, i, ShardSize[c])
  BY DEF Written
<1>2. p = ThePayload(k)
  BY DEF ContentAddressed, ThePayload
<1>3. ShardSize[c] = TheSize
  BY DEF UniformShardSize, TheSize
<1>4. p \in Payloads /\ Length[p] \in Nat /\ ShardSize[c] \in Nat \ {0}
  BY ContentsAssumption, LengthAssumption, ShardSizeAssumption
<1>5. QED
  BY <1>1, <1>2, <1>3, <1>4

LEMMA SizeOfShard ==
    ASSUME NEW p, NEW i \in Nat, NEW size \in Nat \ {0}, Length[p] \in Nat,
           (i + 1) * size <= Length[p]
    PROVE  i * size + SizeOf(Shard(p, i, size)) = (i + 1) * size
<1>1. i * size \in Int /\ (i + 1) * size \in Int
  OBVIOUS
<1>2. Shard(p, i, size) = [kind |-> "bytes", payload |-> p,
                           from |-> i * size, to |-> (i + 1) * size]
  BY <1>1 DEF Shard, Slice, Least
<1> DEFINE d == Shard(p, i, size)
<1>3. d.kind = "bytes" /\ d.from = i * size /\ d.to = (i + 1) * size
  BY <1>2
<1> HIDE DEF d
<1>4. SizeOf(d) = d.to - d.from
  BY <1>3 DEF SizeOf
<1>5. QED
  BY <1>1, <1>3, <1>4 DEF d

(* A step of c leaves the reads and the hits of the others as they are.    *)
LEMMA OthersKeep ==
    ASSUME TypeOK, PartsOK, NoTornRead, NEW c \in Clients,
           \A d \in Clients \ {c} :
              /\ pc'[d] = pc[d] /\ call'[d] = call[d]
              /\ frame'[d] = frame[d] /\ answer'[d] = answer[d],
           pc'[c] = "getShard" => HoldsFirst(c)',
           answer'[c].kind = "hit" => HitIsWhole(c)'
    PROVE  PartsOK' /\ NoTornRead'
<1>1. ASSUME NEW d \in Clients \ {c}
      PROVE  /\ pc'[d] = "getShard" => HoldsFirst(d)'
             /\ answer'[d].kind = "hit" => HitIsWhole(d)'
  <2>1. pc'[d] = pc[d] /\ frame'[d] = frame[d] /\ answer'[d] = answer[d]
        /\ Key(d)' = Key(d)
    BY DEF Key
  <2>2. HoldsFirst(d)' <=> HoldsFirst(d)
    BY <2>1 DEF HoldsFirst, FirstShards
  <2>3. HitIsWhole(d)' <=> HitIsWhole(d)
    BY <2>1 DEF HitIsWhole, Reassembles
  <2>4. QED
    BY <2>1, <2>2, <2>3 DEF PartsOK, NoTornRead
<1>2. QED
  BY <1>1 DEF PartsOK, NoTornRead

LEMMA ReturnNoHit ==
    ASSUME TypeOK, PartsOK, NoTornRead, NEW c \in Clients, NEW a,
           Return(c, a), a.kind = "hit" => HitIsWhole(c)'
    PROVE  PartsOK' /\ NoTornRead'
<1>1. /\ \A d \in Clients \ {c} :
             /\ pc'[d] = pc[d] /\ call'[d] = call[d]
             /\ frame'[d] = frame[d] /\ answer'[d] = answer[d]
      /\ pc'[c] = "idle" /\ answer'[c] = a
  BY DEF Return, TypeOK
<1>2. QED
  BY <1>1, OthersKeep

LEMMA StepKeepsReads ==
    ASSUME UniformShardSize, ContentAddressed, Provenance, PartsOK, NoTornRead,
           [Next]_vars
    PROVE  PartsOK' /\ NoTornRead'
<1>a. TypeOK /\ DocsWritten /\ FrameOK
  BY DEF Provenance
<1>b. ASSUME NEW c \in Clients
      PROVE  /\ Key(c) \in Keys
             /\ frame[c] \in Frames
             /\ GoodDoc(<<Key(c), Main>>, DocAt(c, Main))
  BY <1>a, MainIsDocKey DEF TypeOK, DocsWritten, Calls, Key, DocAt
<1>c. ASSUME NEW c \in Clients, NEW kind, NEW bytes, kind # "hit",
             Return(c, Answer(kind, bytes))
      PROVE  PartsOK' /\ NoTornRead'
  <2>1. Answer(kind, bytes).kind # "hit"
    BY <1>c DEF Answer
  <2>2. QED
    BY <2>1, <1>a, <1>c, ReturnNoHit
<1>d. ASSUME NEW c \in Clients, NEW step, step # "getShard",
             pc' = [pc EXCEPT ![c] = step],
             \A d \in Clients \ {c} : frame'[d] = frame[d],
             UNCHANGED <<call, answer>>
      PROVE  PartsOK' /\ NoTornRead'
  <2>1. /\ \A d \in Clients \ {c} :
             /\ pc'[d] = pc[d] /\ call'[d] = call[d]
             /\ frame'[d] = frame[d] /\ answer'[d] = answer[d]
        /\ pc'[c] # "getShard"
    BY <1>a, <1>d DEF TypeOK
  <2>2. answer'[c].kind = "hit" => HitIsWhole(c)'
    BY <1>d DEF NoTornRead, HitIsWhole, Key, Reassembles
  <2>3. QED
    BY <1>a, <2>1, <2>2, OthersKeep
<1>1. ASSUME NEW c \in Clients, Request(c)
      PROVE  PartsOK' /\ NoTornRead'
  <2>1. ASSUME NEW k, NEW p, NEW first, first # "getShard", Begin(c, k, p, first)
        PROVE  PartsOK' /\ NoTornRead'
    <3>1. /\ \A d \in Clients \ {c} :
             /\ pc'[d] = pc[d] /\ call'[d] = call[d]
             /\ frame'[d] = frame[d] /\ answer'[d] = answer[d]
          /\ pc'[c] = first /\ answer'[c].kind = "none"
      BY <1>a, <2>1 DEF Begin, TypeOK, NoAnswer, Answer
    <3>2. QED
      BY <1>a, <2>1, <3>1, OthersKeep
  <2>2. QED
    BY <1>1, <2>1
    DEF Request, BeginStore, BeginPut, BeginExists, BeginGet, BeginRemove
<1>2. ASSUME NEW c \in Clients, Step(c)
      PROVE  PartsOK' /\ NoTornRead'
  <2> USE <1>a
  <2> DEFINE k == Key(c)
             p == ThePayload(Key(c))
             n == frame[c].next
  <2>1. CASE GetUnsharded(c)
    <3>1. CASE DocAt(c, Main) = NoDoc
      BY <2>1, <3>1, <1>c DEF GetUnsharded
    <3>2. CASE DocAt(c, Main) # NoDoc
      <4>1. DocAt(c, Main) \notin Manifests
            /\ Return(c, Hit(<<DocAt(c, Main)>>, SizeOf(DocAt(c, Main))))
        BY <2>1, <3>2 DEF GetUnsharded
      <4>2. /\ p \in Contents[k] /\ Length[p] \in Nat /\ TheSize \in Nat \ {0}
            /\ DocAt(c, Main) = MainDoc(p, TheSize)
        BY <1>b, <3>2, UniformWritten DEF GoodDoc, Main
      <4>3. DocAt(c, Main) = Slice(p, 0, Length[p])
        <5>1. CASE Length[p] <= TheSize
          BY <4>2, <5>1 DEF MainDoc
        <5>2. CASE ~(Length[p] <= TheSize)
          <6>1. ShardCount(Length[p], TheSize) \in Nat
            BY <4>2, ShardCountBounds
          <6>2. DocAt(c, Main) \in Manifests
            BY <4>2, <5>2, <6>1 DEF MainDoc, Manifest, Manifests
          <6>3. QED
            BY <4>1, <6>2
        <5>3. QED
          BY <5>1, <5>2
      <4>4. Reassembles(<<DocAt(c, Main)>>, p)
        BY <4>3, <4>2 DEF Reassembles, Slice
      <4>5. answer'[c].parts = <<DocAt(c, Main)>> /\ Key(c)' = k
        BY <4>1 DEF Return, Hit, TypeOK, Key
      <4>6. HitIsWhole(c)'
        BY <4>2, <4>4, <4>5 DEF HitIsWhole, Reassembles
      <4>7. QED
        BY <4>1, <4>6, ReturnNoHit
    <3>3. QED
      BY <3>1, <3>2
  <2>2. CASE GetManifest(c)
    <3>1. frame[c] = NewFrame /\ UNCHANGED <<call, answer>>
          /\ pc' = [pc EXCEPT ![c] = "getShard"]
          /\ frame' = [frame EXCEPT ![c].document = DocAt(c, Main)]
      BY <2>2 DEF GetManifest, FrameOK
    <3>2. /\ \A d \in Clients \ {c} :
             /\ pc'[d] = pc[d] /\ call'[d] = call[d]
             /\ frame'[d] = frame[d] /\ answer'[d] = answer[d]
      BY <3>1 DEF TypeOK
    <3>3. frame'[c].next = 0 /\ frame'[c].parts = <<>> /\ frame'[c].bytes = 0
      BY <3>1, <1>b DEF NewFrame, Frames, TypeOK
    <3>4. FirstShards(k, 0) = <<>> /\ 0 * TheSize = 0
      <4>1. TheSize \in Nat \ {0}
        BY <1>b, <2>2, UniformWritten DEF GetManifest, GoodDoc, Manifests, NoDoc, Main
      <4>2. QED
        BY <4>1 DEF FirstShards
    <3>5. HoldsFirst(c)'
      BY <3>1, <3>3, <3>4 DEF HoldsFirst, Key, FirstShards
    <3>6. answer'[c].kind = "hit" => HitIsWhole(c)'
      BY <3>1 DEF NoTornRead, HitIsWhole, Key, Reassembles
    <3>7. QED
      BY <3>2, <3>5, <3>6, OthersKeep
  <2>3. CASE GetShard(c) \/ GetLastShard(c)
    <3> DEFINE part == DocAt(c, n)
    <3>1. /\ pc[c] = "getShard" /\ part \in Slices /\ HoldsFirst(c)
          /\ n \in Nat /\ frame[c].document \in Manifests
          /\ n < frame[c].document.shards
          /\ GoodDoc(<<k, Main>>, frame[c].document)
      BY <1>b, <2>3 DEF GetShard, GetLastShard, PartsOK, FrameOK, Frames
    <3>2. /\ p \in Contents[k] /\ Length[p] \in Nat /\ TheSize \in Nat \ {0}
          /\ frame[c].document = MainDoc(p, TheSize)
      BY <1>b, <3>1, UniformWritten DEF GoodDoc, Main, NoDoc, Manifests
    <3>3. /\ Length[p] > TheSize
          /\ frame[c].document.shards = ShardCount(Length[p], TheSize)
          /\ frame[c].document.bytes = Length[p]
      BY <3>1, <3>2 DEF MainDoc, Manifest, Manifests, Slice
    <3> DEFINE s == ShardCount(Length[p], TheSize)
    <3>4. s \in Nat /\ s <= MaxShards /\ MaxShards \in Nat
      <4>1. frame[c].document.shards \in 1 .. MaxShards
        BY <1>b, <3>1, MainIsDocKey, GoodDocIsDoc
      <4>2. QED
        BY <3>3, <4>1, MaxShardsAssumption
    <3>5. part = Shard(p, n, TheSize)
      <4>1. <<k, n>> \in DocKeys
        BY <1>b, <3>1, <3>3, <3>4 DEF DocKeys, Main
      <4>2. Written(k, n, part)
        BY <4>1, <3>1 DEF DocsWritten, GoodDoc, DocAt, NoDoc, Slices
      <4>3. QED
        BY <4>2, <1>b, <3>1, UniformWritten DEF Main
    <3>6. Append(frame[c].parts, part) = FirstShards(k, n + 1)
      BY <3>1, <3>5 DEF HoldsFirst, FirstShards
    <3>7. /\ Joined(c).next = n + 1
          /\ Joined(c).parts = FirstShards(k, n + 1)
          /\ Joined(c).bytes = n * TheSize + SizeOf(part)
      BY <1>b, <3>1, <3>6 DEF Joined, Frames, HoldsFirst
    <3>8. CASE GetShard(c)
      <4>1. n + 1 < s
        BY <3>3, <3>7, <3>8 DEF GetShard
      <4>2. (n + 1) * TheSize <= Length[p]
        <5>1. (s - 1) * TheSize < Length[p]
          <6>1. (s - 1) * TheSize < Length[p] \/ Length[p] = 0
            BY <3>2, ShardCountBounds
          <6> HIDE DEF n, s, p
          <6>2. Length[p] # 0
            BY <3>2, <3>3
          <6>3. QED
            BY <6>1, <6>2
        <5>2. (n + 1) * TheSize <= (s - 1) * TheSize
          BY <3>1, <3>2, <3>4, <4>1, TimesMonotone
        <5>3. (n + 1) * TheSize \in Int /\ (s - 1) * TheSize \in Int
          BY <3>1, <3>2, <3>4
        <5> DEFINE x == (n + 1) * TheSize
                   y == (s - 1) * TheSize
                   len == Length[p]
        <5>4. x \in Int /\ y \in Int /\ len \in Int /\ x <= y /\ y < len
          BY <3>2, <5>1, <5>2, <5>3
        <5>5. x <= len
          <6> HIDE DEF x, y, len
          <6>1. QED
            BY <5>4
        <5>6. QED
          BY <5>5
      <4>3. Joined(c).bytes = (n + 1) * TheSize
        <5>1. n * TheSize + SizeOf(Shard(p, n, TheSize)) = (n + 1) * TheSize
          <6>1. n \in Nat /\ TheSize \in Nat \ {0} /\ Length[p] \in Nat
            BY <3>1, <3>2
          <6> HIDE DEF n, p
          <6>2. QED
            BY <6>1, <4>2, SizeOfShard
        <5>2. QED
          BY <3>5, <3>7, <5>1
      <4>4. /\ frame' = [frame EXCEPT ![c] = Joined(c)]
            /\ UNCHANGED <<pc, call, answer>>
        BY <3>8 DEF GetShard
      <4>5. HoldsFirst(c)'
        BY <3>7, <4>3, <4>4 DEF HoldsFirst, Key, FirstShards, TypeOK
      <4>6. answer'[c].kind = "hit" => HitIsWhole(c)'
        BY <4>4 DEF NoTornRead, HitIsWhole, Key, Reassembles
      <4>7. QED
        BY <4>4, <4>5, <4>6, OthersKeep DEF TypeOK
    <3>9. CASE GetLastShard(c)
      <4>1. n + 1 = s
        BY <3>1, <3>3, <3>4, <3>7, <3>9 DEF GetLastShard
      <4>2. Reassembles(Joined(c).parts, p)
        BY <3>2, <3>3, <3>7, <4>1, ShardsReassemble DEF FirstShards
      <4>3. CASE Joined(c).bytes = frame[c].document.bytes
        <5>1. Return(c, Hit(Joined(c).parts, Joined(c).bytes))
          BY <3>9, <4>3 DEF GetLastShard
        <5>2. answer'[c].parts = Joined(c).parts /\ Key(c)' = k
          BY <5>1 DEF Return, Hit, TypeOK, Key
        <5>3. HitIsWhole(c)'
          BY <3>2, <4>2, <5>2 DEF HitIsWhole, Reassembles
        <5>4. QED
          BY <5>1, <5>3, ReturnNoHit
      <4>4. CASE Joined(c).bytes # frame[c].document.bytes
        BY <3>9, <4>4, <1>c DEF GetLastShard
      <4>5. QED
        BY <4>3, <4>4
    <3>10. QED
      BY <2>3, <3>8, <3>9
  <2>4. CASE StorePresent(c) \/ Exists(c) \/ GetShardMissing(c) \/ RemoveAbsent(c)
    BY <2>4, <1>c DEF StorePresent, Exists, GetShardMissing, RemoveAbsent
  <2>5. CASE PutMain(c) \/ RemoveUnsharded(c) \/ Fail(c)
    BY <2>5, <1>c DEF PutMain, RemoveUnsharded, Fail
  <2>6. CASE StoreAbsent(c) \/ RemoveGet(c) \/ RemoveManifest(c)
    BY <2>6, <1>d DEF StoreAbsent, RemoveGet, RemoveManifest, Goto, TypeOK
  <2>7. CASE PutShard(c)
    <3>1. pc' = [pc EXCEPT ![c] = "put"]
      BY <2>7 DEF PutShard, TypeOK
    <3>2. QED
      BY <2>7, <3>1, <1>d DEF PutShard, TypeOK
  <2>8. CASE RemoveShard(c)
    <3>1. CASE frame[c].next + 1 < frame[c].document.shards
      <4>1. /\ pc' = [pc EXCEPT ![c] = "rmShard"] /\ UNCHANGED <<call, answer>>
            /\ frame' = [frame EXCEPT ![c].next = @ + 1]
        BY <2>8, <3>1 DEF RemoveShard, TypeOK
      <4>2. QED
        BY <4>1, <1>d DEF TypeOK
    <3>2. CASE ~(frame[c].next + 1 < frame[c].document.shards)
      BY <2>8, <3>2, <1>c DEF RemoveShard
    <3>3. QED
      BY <3>1, <3>2
  <2>9. QED
    BY <1>2, <2>1, <2>2, <2>3, <2>4, <2>5, <2>6, <2>7, <2>8 DEF Step
<1>3. ASSUME NEW m \in late, ApplyLate(m)
      PROVE  PartsOK' /\ NoTornRead'
  BY <1>3 DEF ApplyLate, PartsOK, NoTornRead, HoldsFirst, HitIsWhole, Key, Reassembles
<1>4. ASSUME NEW d \in DocKeys, Lose(d)
      PROVE  PartsOK' /\ NoTornRead'
  BY <1>4 DEF Lose, PartsOK, NoTornRead, HoldsFirst, HitIsWhole, Key, Reassembles
<1>5. CASE UNCHANGED vars
  BY <1>5 DEF vars, PartsOK, NoTornRead, HoldsFirst, HitIsWhole, Key, Reassembles
<1>6. QED
  BY <1>1, <1>2, <1>3, <1>4, <1>5 DEF Next

(* With one shard size on all servers and content-addressed keys, a read   *)
(* that hits returns the payload of its key, whole and in order, under any *)
(* interleaving with writers and removals, losses of single documents,     *)
(* failing calls and late writes (get_bytes, store.py:149-166).            *)
THEOREM ReadsAreWhole ==
    ASSUME UniformShardSize, ContentAddressed
    PROVE  Spec => []NoTornRead
<1>1. Init => PartsOK /\ NoTornRead
  BY DEF Init, PartsOK, NoTornRead, NoAnswer, Answer
<1>2. Provenance /\ PartsOK /\ NoTornRead /\ [Next]_vars
         => PartsOK' /\ NoTornRead'
  BY StepKeepsReads
<1>3. QED
  BY <1>1, <1>2, SpecProvenance, PTL DEF Spec

-----------------------------------------------------------------------------
(* Without removals and losses: shards before the manifest.                *)

(* Documents then change only by upserts of put_bytes, in time or late.    *)
LEMMA DocsChange ==
    ASSUME ShardsFirst, Reliable, [Next]_vars
    PROVE  \/ UNCHANGED docs
           \/ \E c \in Clients : pc[c] = "put" /\ Apply(NextUpsert(c))
           \/ \E m \in late : Apply(m)
<1>1. ASSUME NEW c \in Clients, Request(c) \/ Step(c)
      PROVE  UNCHANGED docs \/ (pc[c] = "put" /\ Apply(NextUpsert(c)))
  <2>1. CASE PutShard(c) \/ PutMain(c)
    BY <2>1 DEF PutShard, PutMain
  <2>2. CASE RemoveGet(c) \/ RemoveAbsent(c) \/ RemoveUnsharded(c)
             \/ RemoveManifest(c) \/ RemoveShard(c)
    BY <2>2 DEF ShardsFirst, RemoveGet, RemoveAbsent, RemoveUnsharded,
       RemoveManifest, RemoveShard
  <2>3. CASE Request(c)
    BY <2>3 DEF Request, BeginStore, BeginPut, BeginExists, BeginGet, BeginRemove, Begin
  <2>4. CASE StorePresent(c) \/ StoreAbsent(c) \/ Exists(c) \/ GetUnsharded(c)
             \/ GetManifest(c) \/ GetShardMissing(c) \/ GetShard(c)
             \/ GetLastShard(c) \/ Fail(c)
    BY <2>4 DEF StorePresent, StoreAbsent, Exists, GetUnsharded, GetManifest,
       GetShardMissing, GetShard, GetLastShard, Fail
  <2>5. QED
    BY <1>1, <2>1, <2>2, <2>3, <2>4 DEF Step
<1>2. ASSUME NEW m \in late, ApplyLate(m)
      PROVE  Apply(m)
  BY <1>2 DEF ApplyLate
<1>3. ASSUME NEW e \in DocKeys, Lose(e)
      PROVE  FALSE
  BY <1>3 DEF Lose, Reliable
<1>4. CASE UNCHANGED vars
  BY <1>4 DEF vars
<1>5. QED
  BY <1>1, <1>2, <1>3, <1>4 DEF Next

(* A call that fails leaves at most its own upsert to be applied late.     *)
LEMMA LateChange ==
    ASSUME ShardsFirst, [Next]_vars, NEW m \in late', m \notin late
    PROVE  \E c \in Clients : pc[c] = "put" /\ m = NextUpsert(c)
<1>1. ASSUME NEW c \in Clients, Request(c) \/ Step(c)
      PROVE  pc[c] = "put" /\ m = NextUpsert(c)
  <2>1. CASE Fail(c)
    BY <2>1 DEF Fail, UnderWay, ShardsFirst
  <2>2. CASE Request(c)
    BY <2>2 DEF Request, BeginStore, BeginPut, BeginExists, BeginGet, BeginRemove, Begin
  <2>3. CASE ~Request(c) /\ ~Fail(c)
    BY <1>1, <2>3 DEF Step, StorePresent, StoreAbsent, PutShard, PutMain, Exists,
       GetUnsharded, GetManifest, GetShardMissing, GetShard, GetLastShard,
       RemoveGet, RemoveAbsent, RemoveUnsharded, RemoveManifest, RemoveShard
  <2>4. QED
    BY <2>1, <2>2, <2>3
<1>2. QED
  BY <1>1 DEF Next, ApplyLate, Lose, vars

(* The calls of the other clients are where they were.                     *)
LEMMA OthersStay ==
    ASSUME TypeOK, NEW c \in Clients, NEW d \in Clients, c # d,
           Request(c) \/ Step(c)
    PROVE  /\ pc'[d] = pc[d] /\ call'[d] = call[d]
           /\ frame'[d] = frame[d] /\ answer'[d] = answer[d]
<1>1. CASE Request(c)
  BY <1>1 DEF TypeOK, Request, BeginStore, BeginPut, BeginExists, BeginGet,
     BeginRemove, Begin
<1>2. CASE StorePresent(c) \/ StoreAbsent(c) \/ PutShard(c) \/ PutMain(c)
           \/ Exists(c)
  BY <1>2 DEF TypeOK, StorePresent, StoreAbsent, PutShard, PutMain, Exists,
     Return, Goto
<1>3. CASE GetUnsharded(c) \/ GetManifest(c) \/ GetShardMissing(c)
           \/ GetShard(c) \/ GetLastShard(c)
  BY <1>3 DEF TypeOK, GetUnsharded, GetManifest, GetShardMissing, GetShard,
     GetLastShard, Return
<1>4. CASE RemoveGet(c) \/ RemoveAbsent(c) \/ RemoveUnsharded(c)
           \/ RemoveManifest(c) \/ RemoveShard(c) \/ Fail(c)
  BY <1>4 DEF TypeOK, RemoveGet, RemoveAbsent, RemoveUnsharded, RemoveManifest,
     RemoveShard, Fail, Return, Goto
<1>5. QED
  BY <1>1, <1>2, <1>3, <1>4 DEF Step

(* What a server wrote is never undone when nothing removes or loses       *)
(* documents.                                                              *)
LEMMA DocsStay ==
    ASSUME Provenance, ShardsFirst, Reliable, [Next]_vars,
           NEW d \in DocKeys, docs[d] # NoDoc
    PROVE  docs'[d] # NoDoc
<1>1. ASSUME NEW m \in Mutations, m.value # NoDoc, Apply(m)
      PROVE  docs'[d] # NoDoc
  BY <1>1 DEF Apply, Provenance, TypeOK, Mutations
<1>2. \A m \in late : m \in Mutations /\ m.value # NoDoc
  BY DEF Provenance, TypeOK, ShardsFirst
<1>3. QED
  BY <1>1, <1>2, DocsChange, NextUpsertGood

LEMMA ShardsStay ==
    ASSUME Provenance, ShardsFirst, Reliable, [Next]_vars,
           NEW k \in Keys, NEW n \in Int, n <= MaxShards, HasShards(k, n)
    PROVE  HasShards(k, n)'
<1>1. Provenance'
  BY StepKeepsProvenance
<1>2. SUFFICES ASSUME NEW i \in 0 .. n - 1
               PROVE  docs'[<<k, i>>] \in Slices
  BY DEF HasShards
<1>3. <<k, i>> \in DocKeys /\ i # Main
  BY MaxShardsAssumption DEF DocKeys, Main
<1>4. docs[<<k, i>>] # NoDoc
  BY DEF HasShards, Slices, NoDoc
<1>5. docs'[<<k, i>>] # NoDoc
  BY <1>3, <1>4, DocsStay
<1>6. GoodDoc(<<k, i>>, docs'[<<k, i>>])
  BY <1>1, <1>3 DEF Provenance, DocsWritten
<1>7. QED
  BY <1>3, <1>5, <1>6, GoodDocIsDoc

(* Only the last upsert of put_bytes can be a manifest, and then the       *)
(* caller has written the shards it names.                                 *)
LEMMA ManifestUpsert ==
    ASSUME Provenance, ShardsFirst, NEW c \in Clients, pc[c] = "put",
           NextUpsert(c).value \in Manifests
    PROVE  /\ NextUpsert(c).value.shards \in 1 .. MaxShards
           /\ NextUpsert(c).at = <<Key(c), Main>>
           /\ HasShards(Key(c), NextUpsert(c).value.shards)
<1> DEFINE p == call[c].payload
           s == ShardSize[c]
<1>1. NextUpsert(c).at \in DocKeys /\ NextUpsert(c).at[1] = Key(c)
      /\ Key(c) \in Keys /\ frame[c].next \in Nat /\ ShardsOf(c) \in Nat
      /\ GoodDoc(NextUpsert(c).at, NextUpsert(c).value)
  BY NextUpsertGood DEF Mutations
<1>2. NextUpsert(c).at[2] = Main /\ NextUpsert(c).value.shards \in 1 .. MaxShards
  BY <1>1, GoodDocIsDoc
<1>3. ~(frame[c].next < ShardsOf(c))
  BY <1>1, <1>2 DEF NextUpsert, Main
<1>4. NextUpsert(c) = [at |-> <<Key(c), Main>>, value |-> MainDoc(p, s)]
  BY <1>3 DEF NextUpsert
<1>5. ~(Length[p] <= s)
  BY <1>4 DEF MainDoc, Slice, Manifests
<1>6. NextUpsert(c).value.shards = ShardsOf(c)
  BY <1>4, <1>5 DEF MainDoc, Manifest, ShardsOf
<1>7. HasShards(Key(c), frame[c].next)
  BY DEF ShardsFirst
<1>8. HasShards(Key(c), ShardsOf(c))
  BY <1>1, <1>3, <1>7 DEF HasShards
<1>9. QED
  BY <1>2, <1>4, <1>6, <1>8

LEMMA StepKeepsShardsFirst ==
    ASSUME Provenance, ShardsFirst, Reliable, [Next]_vars
    PROVE  ShardsFirst'
<1> DEFINE HasShardsNext(k, n) == \A i \in 0 .. n - 1 : docs'[<<k, i>>] \in Slices
<1>a. TypeOK /\ DocsWritten /\ LateWritten /\ FrameOK
  BY DEF Provenance
<1>b. Provenance'
  BY StepKeepsProvenance
<1>c. ASSUME NEW k \in Keys, NEW n \in 1 .. MaxShards, HasShards(k, n)
      PROVE  HasShardsNext(k, n)
  BY <1>c, ShardsStay, MaxShardsAssumption DEF HasShards
<1>d. ASSUME NEW k \in Keys, NEW v \in Manifests, GoodDoc(<<k, Main>>, v),
             HasShards(k, v.shards)
      PROVE  HasShardsNext(k, v.shards)
  <2>1. v.shards \in 1 .. MaxShards
    BY <1>d, MainIsDocKey, GoodDocIsDoc
  <2>2. QED
    BY <1>c, <1>d, <2>1
<1>e. ASSUME NEW c \in Clients
      PROVE  Key(c) \in Keys /\ frame[c] \in Frames
  BY <1>a DEF TypeOK, Calls, Key
<1>f. ASSUME NEW m \in late
      PROVE  /\ m.at \in DocKeys /\ m.at[1] \in Keys /\ m.value # NoDoc
             /\ GoodDoc(m.at, m.value)
             /\ m.value \in Manifests => /\ m.at = <<m.at[1], Main>>
                                         /\ HasShards(m.at[1], m.value.shards)
  <2>1. m.at \in DocKeys /\ m.value # NoDoc /\ GoodDoc(m.at, m.value)
    BY <1>a DEF TypeOK, Mutations, ShardsFirst, LateWritten
  <2>2. m.at[1] \in Keys /\ m.at = <<m.at[1], m.at[2]>>
    BY <2>1 DEF DocKeys
  <2>3. m.value \in Manifests => m.at[2] = Main
    BY <2>1, GoodDocIsDoc
  <2>4. QED
    BY <2>1, <2>2, <2>3 DEF ShardsFirst
<1> HIDE DEF HasShardsNext
<1>1. ASSUME NEW k \in Keys, docs'[<<k, Main>>] \in Manifests
      PROVE  HasShardsNext(k, docs'[<<k, Main>>].shards)
  <2> DEFINE d == <<k, Main>>
  <2>a. d \in DocKeys
    BY MainIsDocKey
  <2>b. GoodDoc(d, docs'[d])
    BY <2>a, <1>b DEF Provenance, DocsWritten
  <2>1. CASE docs'[d] = docs[d]
    BY <1>1, <1>d, <2>1, <2>b DEF ShardsFirst
  <2>2. CASE docs'[d] # docs[d]
    <3>1. HasShards(k, docs'[d].shards)
      <4>1. ASSUME NEW c \in Clients, pc[c] = "put", Apply(NextUpsert(c))
            PROVE  HasShards(k, docs'[d].shards)
        <5>1. NextUpsert(c).at = d /\ docs'[d] = NextUpsert(c).value
          BY <1>a, <2>2, <2>a, <4>1 DEF Apply, TypeOK
        <5>2. Key(c) = k
          BY <5>1, <4>1, NextUpsertGood
        <5>3. QED
          BY <1>1, <4>1, <5>1, <5>2, ManifestUpsert
      <4>2. ASSUME NEW m \in late, Apply(m)
            PROVE  HasShards(k, docs'[d].shards)
        <5>1. m.at = d /\ docs'[d] = m.value
          BY <1>a, <2>2, <2>a, <4>2 DEF Apply, TypeOK
        <5>2. QED
          BY <1>1, <1>f, <5>1
      <4>3. QED
        BY <2>2, <4>1, <4>2, DocsChange
    <3>2. QED
      BY <1>1, <1>d, <2>b, <3>1
  <2>3. QED
    BY <2>1, <2>2
<1>2. ASSUME NEW m \in late'
      PROVE  /\ m.value # NoDoc
             /\ m.value \in Manifests => HasShardsNext(m.at[1], m.value.shards)
  <2>1. CASE m \in late
    BY <2>1, <1>d, <1>f
  <2>2. CASE m \notin late
    <3>1. PICK c \in Clients : pc[c] = "put" /\ m = NextUpsert(c)
      BY <2>2, LateChange
    <3>2. m.value # NoDoc /\ m.at[1] = Key(c) /\ GoodDoc(m.at, m.value)
      BY <3>1, NextUpsertGood
    <3>3. m.value \in Manifests => HasShards(Key(c), m.value.shards)
                                   /\ m.at = <<Key(c), Main>>
      BY <3>1, ManifestUpsert
    <3>4. QED
      BY <1>d, <1>e, <3>2, <3>3
  <2>3. QED
    BY <2>1, <2>2
<1>3. ASSUME NEW c \in Clients
      PROVE  /\ pc'[c] = "put" => HasShardsNext(Key(c)', frame'[c].next)
             /\ pc'[c] \notin {"rmGet", "rmDoc", "rmShard"}
             /\ pc'[c] = "getShard" =>
                   HasShardsNext(Key(c)', frame'[c].document.shards)
  <2>a. /\ pc[c] = "put" => HasShards(Key(c), frame[c].next)
        /\ pc[c] \notin {"rmGet", "rmDoc", "rmShard"}
        /\ pc[c] = "getShard" => HasShards(Key(c), frame[c].document.shards)
    BY DEF ShardsFirst
  <2>b. ASSUME pc[c] = "put"
        PROVE  frame[c].next \in Nat /\ frame[c].next <= ShardsOf(c)
               /\ ShardsOf(c) \in Nat /\ ShardsOf(c) <= MaxShards
    <3>1. call[c].payload \in Payloads
      BY <1>e, <2>b, ContentsAssumption DEF Provenance, CallOK
    <3>2. ShardsOf(c) <= MaxShards
      BY <3>1, MaxShardsAssumption DEF ShardsOf
    <3>3. QED
      BY <1>a, <2>b, <3>2, NextUpsertGood DEF FrameOK
  <2>c. ASSUME NEW n \in Int, n <= MaxShards, HasShards(Key(c), n)
        PROVE  HasShardsNext(Key(c), n)
    <3>1. CASE n \in 1 .. MaxShards
      BY <1>c, <1>e, <2>c, <3>1
    <3>2. CASE n < 1
      BY <3>2 DEF HasShardsNext
    <3>3. QED
      BY <2>c, <3>1, <3>2, MaxShardsAssumption
  <2>d. ASSUME pc[c] = "getShard"
        PROVE  HasShardsNext(Key(c), frame[c].document.shards)
    BY <1>a, <1>d, <1>e, <2>a, <2>d DEF FrameOK
  <2>1. CASE pc'[c] = pc[c] /\ frame'[c] = frame[c] /\ call'[c] = call[c]
    <3>1. Key(c)' = Key(c)
      BY <2>1 DEF Key
    <3>2. QED
      BY <2>1, <2>a, <2>b, <2>c, <2>d, <3>1, MaxShardsAssumption
  <2>2. CASE Request(c)
    <3>1. pc'[c] \in {"check", "put", "exists", "getDoc"}
          /\ frame' = frame /\ pc[c] = "idle"
      BY <1>a, <2>2 DEF TypeOK, Reliable, Request, BeginStore, BeginPut,
         BeginExists, BeginGet, BeginRemove, Begin
    <3>2. frame'[c] = NewFrame
      BY <1>a, <3>1 DEF FrameOK
    <3>3. frame'[c].next = 0
      BY <3>2 DEF NewFrame
    <3>4. QED
      BY <3>1, <3>3 DEF HasShardsNext
  <2>3. CASE StoreAbsent(c)
    <3>1. pc'[c] = "put" /\ frame'[c] = NewFrame
      BY <1>a, <2>3 DEF TypeOK, StoreAbsent, Goto, FrameOK
    <3>2. frame'[c].next = 0
      BY <3>1 DEF NewFrame
    <3>3. QED
      BY <3>1, <3>2 DEF HasShardsNext
  <2>4. CASE PutShard(c)
    <3> DEFINE n == frame[c].next
    <3>1. pc[c] = "put" /\ pc'[c] = "put" /\ frame'[c].next = n + 1
          /\ Key(c)' = Key(c) /\ n < ShardsOf(c) /\ Apply(NextUpsert(c))
      BY <1>a, <1>e, <2>4 DEF TypeOK, PutShard, Key, Frames
    <3>2. HasShardsNext(Key(c), n)
      BY <2>a, <2>b, <2>c, <3>1, MaxShardsAssumption
    <3>3. NextUpsert(c).at = <<Key(c), n>> /\ NextUpsert(c).at \in DocKeys
          /\ NextUpsert(c).value # NoDoc
          /\ GoodDoc(NextUpsert(c).at, NextUpsert(c).value)
      BY <3>1, NextUpsertGood DEF NextUpsert, Mutations
    <3>4. docs'[<<Key(c), n>>] \in Slices
      <4>1. docs'[<<Key(c), n>>] = NextUpsert(c).value
        BY <1>a, <3>1, <3>3 DEF Apply, TypeOK
      <4>2. n # Main
        BY <2>b, <3>1 DEF Main
      <4>3. QED
        BY <3>3, <4>1, <4>2, GoodDocIsDoc
    <3>5. HasShardsNext(Key(c), n + 1)
      BY <2>b, <3>1, <3>2, <3>4 DEF HasShardsNext
    <3>6. QED
      BY <3>1, <3>5
  <2>5. CASE GetManifest(c)
    <3>1. /\ pc'[c] = "getShard" /\ Key(c)' = Key(c)
          /\ frame'[c].document = docs[<<Key(c), Main>>]
          /\ docs[<<Key(c), Main>>] \in Manifests
      BY <1>a, <1>e, <2>5 DEF TypeOK, GetManifest, Key, DocAt, Frames
    <3>2. GoodDoc(<<Key(c), Main>>, docs[<<Key(c), Main>>])
      BY <1>a, <1>e, MainIsDocKey DEF DocsWritten
    <3>3. HasShardsNext(Key(c), frame'[c].document.shards)
      BY <1>d, <1>e, <3>1, <3>2 DEF ShardsFirst
    <3>4. QED
      BY <3>1, <3>3
  <2>6. CASE GetShard(c)
    <3>1. /\ pc[c] = "getShard" /\ pc'[c] = "getShard" /\ Key(c)' = Key(c)
          /\ frame'[c].document = frame[c].document
      BY <1>a, <1>e, <2>6 DEF TypeOK, GetShard, Key, Joined, Frames
    <3>2. QED
      BY <2>d, <3>1
  <2>7. CASE StorePresent(c) \/ PutMain(c) \/ Exists(c) \/ GetUnsharded(c)
             \/ GetShardMissing(c) \/ GetLastShard(c) \/ Fail(c)
    <3>1. pc'[c] = "idle"
      BY <1>a, <2>7 DEF TypeOK, StorePresent, PutMain, Exists, GetUnsharded,
         GetShardMissing, GetLastShard, Fail, Return
    <3>2. QED
      BY <3>1
  <2>8. CASE RemoveGet(c) \/ RemoveAbsent(c) \/ RemoveUnsharded(c)
             \/ RemoveManifest(c) \/ RemoveShard(c)
    BY <2>a, <2>8 DEF RemoveGet, RemoveAbsent, RemoveUnsharded, RemoveManifest,
       RemoveShard
  <2>9. CASE ~(Request(c) \/ Step(c))
    <3>1. pc'[c] = pc[c] /\ frame'[c] = frame[c] /\ call'[c] = call[c]
      BY <1>a, <2>9, OthersStay DEF Next, ApplyLate, Lose, vars
    <3>2. QED
      BY <2>1, <3>1
  <2>10. QED
    BY <2>2, <2>3, <2>4, <2>5, <2>6, <2>7, <2>8, <2>9 DEF Step
<1>4. QED
  BY <1>1, <1>2, <1>3 DEF ShardsFirst, HasShards, HasShardsNext, Key

(* While nothing is removed or lost, a manifest implies all its shards,    *)
(* whatever calls fail and whenever their upserts are applied, and also if *)
(* servers use different shard sizes (put_bytes writes the manifest last,  *)
(* store.py:141-147).                                                      *)
THEOREM ManifestsAreComplete ==
    ASSUME Reliable
    PROVE  Spec => []ManifestComplete
<1>1. Init => ShardsFirst
  <2> SUFFICES ASSUME Init PROVE ShardsFirst
    OBVIOUS
  <2>1. \A k \in Keys : docs[<<k, Main>>] \notin Manifests
    BY MainIsDocKey DEF Init, Manifests, NoDoc
  <2>2. QED
    BY <2>1 DEF Init, ShardsFirst
<1>2. Provenance /\ ShardsFirst /\ [Next]_vars => ShardsFirst'
  BY StepKeepsShardsFirst
<1>3. ShardsFirst => ManifestComplete
  BY DEF ShardsFirst, HasShards, ManifestComplete
<1>4. QED
  BY <1>1, <1>2, <1>3, SpecProvenance, PTL DEF Spec

-----------------------------------------------------------------------------
(* What was stored can be read, and what can be read is not missed.        *)

(* What a read holds are the first shards of the payload of its key.       *)
THEOREM ReadsHoldFirstShards ==
    ASSUME UniformShardSize, ContentAddressed
    PROVE  Spec => []PartsOK
<1>1. Init => PartsOK /\ NoTornRead
  BY DEF Init, PartsOK, NoTornRead, NoAnswer, Answer
<1>2. Provenance /\ PartsOK /\ NoTornRead /\ [Next]_vars
         => PartsOK' /\ NoTornRead'
  BY StepKeepsReads
<1>3. QED
  BY <1>1, <1>2, SpecProvenance, PTL DEF Spec

(* Initially the store is empty.                                          *)
LEMMA InitShardsFirst == ASSUME Reliable, Init PROVE ShardsFirst
<1>1. \A k \in Keys : docs[<<k, Main>>] \notin Manifests
  BY MainIsDocKey DEF Init, Manifests, NoDoc
<1>2. QED
  BY <1>1 DEF Init, ShardsFirst

(* Whatever waits to be written, is being written or is being read: the    *)
(* shards of a manifest are there before it is.                            *)
THEOREM ShardsAreFirst ==
    ASSUME Reliable
    PROVE  Spec => []ShardsFirst
<1>1. Init => ShardsFirst
  BY InitShardsFirst
<1>2. Provenance /\ ShardsFirst /\ [Next]_vars => ShardsFirst'
  BY StepKeepsShardsFirst
<1>3. QED
  BY <1>1, <1>2, SpecProvenance, PTL DEF Spec

-----------------------------------------------------------------------------
(* What was stored can be read.                                            *)

(* The document at a key is what put_bytes leaves there for its payload.   *)
LEMMA PresentIsMainDoc ==
    ASSUME UniformShardSize, ContentAddressed, NEW k \in Keys, NEW d,
           GoodDoc(<<k, Main>>, d), d # NoDoc
    PROVE  LET p == ThePayload(k)
           IN  /\ p \in Contents[k] /\ p \in Payloads /\ Length[p] \in Nat
               /\ TheSize \in Nat \ {0}
               /\ d = MainDoc(p, TheSize)
               /\ d \in Slices <=> Length[p] <= TheSize
               /\ d \in Slices => d = Slice(p, 0, Length[p])
               /\ d \notin Slices =>
                     /\ d \in Manifests
                     /\ d.shards = ShardCount(Length[p], TheSize)
                     /\ d.bytes = Length[p]
                     /\ d.shards \in 1 .. MaxShards
<1> DEFINE p == ThePayload(k)
<1>1. /\ p \in Contents[k] /\ p \in Payloads /\ Length[p] \in Nat
      /\ TheSize \in Nat \ {0}
      /\ d = MainDoc(p, TheSize)
  BY UniformWritten DEF GoodDoc, Main
<1>2. CASE Length[p] <= TheSize
  <2>1. d = Slice(p, 0, Length[p])
    BY <1>1, <1>2 DEF MainDoc
  <2>2. d \in Slices
    BY <1>1, <2>1 DEF Slice, Slices
  <2>3. QED
    BY <1>1, <1>2, <2>1, <2>2
<1>3. CASE ~(Length[p] <= TheSize)
  <2>1. ShardCount(Length[p], TheSize) \in Nat
    BY <1>1, ShardCountBounds
  <2>2. d = Manifest(ShardCount(Length[p], TheSize), Length[p])
    BY <1>1, <1>3 DEF MainDoc
  <2>3. d \in Manifests /\ d \notin Slices
    BY <1>1, <2>1, <2>2 DEF Manifest, Manifests, Slices
  <2>4. d.shards = ShardCount(Length[p], TheSize) /\ d.bytes = Length[p]
    BY <2>2 DEF Manifest
  <2>5. d.shards \in 1 .. MaxShards
    BY <2>3, MainIsDocKey, GoodDocIsDoc
  <2>6. QED
    BY <1>1, <1>3, <2>3, <2>4, <2>5
<1>4. QED
  BY <1>2, <1>3

(* A shard that is there is the shard of the payload of its key.           *)
LEMMA PresentIsShard ==
    ASSUME UniformShardSize, ContentAddressed, Provenance,
           NEW k \in Keys, NEW i \in 0 .. MaxShards - 1,
           docs[<<k, i>>] \in Slices
    PROVE  docs[<<k, i>>] = Shard(ThePayload(k), i, TheSize)
<1>1. <<k, i>> \in DocKeys /\ i # Main /\ i \in Int
  BY MaxShardsAssumption DEF DocKeys, Main
<1>2. Written(k, i, docs[<<k, i>>])
  BY <1>1 DEF Provenance, DocsWritten, GoodDoc, Slices, NoDoc
<1>3. QED
  BY <1>1, <1>2, UniformWritten

(* With all the shards of the manifest there, the chunk can be read.       *)
LEMMA PresentIsReadable ==
    ASSUME UniformShardSize, ContentAddressed, Provenance, NEW k \in Keys,
           docs[<<k, Main>>] # NoDoc,
           docs[<<k, Main>>] \in Manifests => HasShards(k, docs[<<k, Main>>].shards)
    PROVE  Readable(k)
<1> DEFINE p == ThePayload(k)
           d == docs[<<k, Main>>]
           n == ShardCount(Length[p], TheSize)
<1>1. GoodDoc(<<k, Main>>, d)
  BY MainIsDocKey DEF Provenance, DocsWritten
<1>2. /\ p \in Contents[k] /\ Length[p] \in Nat /\ TheSize \in Nat \ {0}
      /\ d \in Slices <=> Length[p] <= TheSize
      /\ d \in Slices => d = Slice(p, 0, Length[p])
      /\ d \notin Slices => /\ d \in Manifests /\ d.shards = n
                            /\ d.bytes = Length[p]
                            /\ d.shards \in 1 .. MaxShards
  BY <1>1, PresentIsMainDoc
<1>3. CASE d \in Slices
  <2>1. Reassembles(<<d>>, p)
    BY <1>2, <1>3 DEF Reassembles, Slice
  <2>2. QED
    BY <1>2, <1>3, <2>1 DEF Readable
<1>4. CASE d \notin Slices
  <2>1. HasShards(k, n) /\ n \in Nat /\ n <= MaxShards /\ Length[p] > TheSize
    BY <1>2, <1>4
  <2>2. ASSUME NEW i \in 1 .. n
        PROVE  docs[<<k, i - 1>>] = Shard(p, i - 1, TheSize)
    <3>1. i - 1 \in 0 .. n - 1 /\ i - 1 \in 0 .. MaxShards - 1
      BY <2>1, MaxShardsAssumption
    <3>2. docs[<<k, i - 1>>] \in Slices
      BY <2>1, <3>1 DEF HasShards
    <3>3. QED
      BY <3>1, <3>2, PresentIsShard
  <2> DEFINE parts == [i \in 1 .. n |-> docs[<<k, i - 1>>]]
  <2>3. parts = [i \in 1 .. n |-> Shard(p, i - 1, TheSize)]
    BY <2>2
  <2>4. Reassembles(parts, p)
    BY <1>2, <2>1, <2>3, ShardsReassemble
  <2>5. \A i \in 0 .. d.shards - 1 : docs[<<k, i>>] \in Slices
    BY <1>2, <1>4, <2>1 DEF HasShards
  <2>6. QED
    BY <1>2, <1>4, <2>4, <2>5 DEF Readable
<1>5. QED
  BY <1>3, <1>4

(* Nothing takes away the document of a chunk that was stored, was found    *)
(* present, or is being read.                                               *)
LEMMA StepKeepsStored ==
    ASSUME Provenance, ShardsFirst, Reliable, StoredStays, [Next]_vars
    PROVE  StoredStays'
<1>a. TypeOK
  BY DEF Provenance
<1>b. ASSUME NEW d \in Clients
      PROVE  <<Key(d), Main>> \in DocKeys
  BY <1>a, MainIsDocKey DEF TypeOK, Calls, Key
<1>c. ASSUME NEW d \in Clients, docs[<<Key(d), Main>>] # NoDoc
      PROVE  docs'[<<Key(d), Main>>] # NoDoc
  BY <1>b, <1>c, DocsStay
<1> DEFINE Stays(d) ==
             /\ answer'[d].kind \in {"stored", "present"} =>
                   docs'[<<call'[d].key, Main>>] # NoDoc
             /\ pc'[d] = "getShard" => docs'[<<call'[d].key, Main>>] # NoDoc
<1>d. ASSUME NEW d \in Clients, pc'[d] = pc[d], call'[d] = call[d],
             answer'[d] = answer[d]
      PROVE  Stays(d)
  BY <1>c, <1>d DEF StoredStays, Key
<1>e. ASSUME NEW c \in Clients, NEW kind, NEW bytes,
             kind \notin {"stored", "present"},
             Return(c, Answer(kind, bytes))
      PROVE  Stays(c)
  BY <1>a, <1>e DEF Return, Answer, TypeOK
<1>f. ASSUME NEW c \in Clients, Request(c)
      PROVE  Stays(c)
  BY <1>a, <1>f DEF Request, BeginStore, BeginPut, BeginExists, BeginGet,
     BeginRemove, Begin, NoAnswer, Answer, TypeOK
<1>g. ASSUME NEW c \in Clients, Step(c)
      PROVE  Stays(c)
  <2>1. CASE StorePresent(c)
    <3>1. docs'[<<Key(c), Main>>] # NoDoc
      BY <2>1 DEF StorePresent, DocAt
    <3>2. call'[c] = call[c] /\ pc'[c] = "idle"
      BY <1>a, <2>1 DEF StorePresent, Return, TypeOK
    <3>3. QED
      BY <3>1, <3>2 DEF Key
  <2>2. CASE PutMain(c)
    <3>1. /\ NextUpsert(c).value # NoDoc
          /\ NextUpsert(c).at = <<Key(c), Main>>
      BY <2>2, NextUpsertGood DEF PutMain, NextUpsert
    <3>2. docs'[<<Key(c), Main>>] # NoDoc
      BY <1>a, <1>b, <2>2, <3>1 DEF PutMain, Apply, TypeOK
    <3>3. call'[c] = call[c] /\ pc'[c] = "idle"
      BY <1>a, <2>2 DEF PutMain, Return, TypeOK
    <3>4. QED
      BY <3>2, <3>3 DEF Key
  <2>3. CASE GetManifest(c)
    <3>1. docs'[<<Key(c), Main>>] # NoDoc
      BY <2>3 DEF GetManifest, DocAt, Manifests, NoDoc
    <3>2. QED
      BY <2>3, <3>1 DEF GetManifest, Key
  <2>4. CASE StoreAbsent(c) \/ PutShard(c)
    BY <1>a, <1>c, <2>4 DEF StoreAbsent, PutShard, Goto, TypeOK, StoredStays, Key
  <2>5. CASE GetShard(c)
    BY <1>d, <2>5 DEF GetShard
  <2>6. CASE Exists(c) \/ GetShardMissing(c) \/ Fail(c)
    BY <1>e, <2>6 DEF Exists, GetShardMissing, Fail
  <2>7. CASE GetUnsharded(c) \/ GetLastShard(c)
    <3>1. ASSUME NEW a, a.kind \in {"hit", "miss"}, Return(c, a)
          PROVE  Stays(c)
      BY <1>a, <3>1 DEF Return, TypeOK
    <3>2. QED
      BY <2>7, <3>1 DEF GetUnsharded, GetLastShard, Hit, Answer
  <2>8. CASE RemoveGet(c) \/ RemoveAbsent(c) \/ RemoveUnsharded(c)
             \/ RemoveManifest(c) \/ RemoveShard(c)
    BY <2>8 DEF ShardsFirst, RemoveGet, RemoveAbsent, RemoveUnsharded,
       RemoveManifest, RemoveShard
  <2>9. QED
    BY <1>g, <2>1, <2>2, <2>3, <2>4, <2>5, <2>6, <2>7, <2>8 DEF Step
<1>1. ASSUME NEW d \in Clients
      PROVE  Stays(d)
  <2>1. CASE \E c \in Clients : Request(c) \/ Step(c)
    BY <1>a, <1>d, <1>f, <1>g, <2>1, OthersStay
  <2>2. CASE UNCHANGED <<pc, call, answer>>
    BY <1>d, <2>2
  <2>3. QED
    BY <2>1, <2>2 DEF Next, ApplyLate, Lose, vars
<1>2. QED
  BY <1>1 DEF StoredStays, Key

(* Without removals and losses, and with one shard size and content-        *)
(* addressed keys, a chunk whose store was answered, or skipped because the *)
(* chunk is present, can be read from then on, while others rewrite it,     *)
(* fail, and late writes land (put_bytes, _store_one).                      *)
THEOREM WhatIsStoredIsReadable ==
    ASSUME Reliable, UniformShardSize, ContentAddressed
    PROVE  Spec => []StoredIsReadable
<1>1. Init => ShardsFirst /\ StoredStays
  BY InitShardsFirst DEF Init, StoredStays, NoAnswer, Answer
<1>2. Provenance /\ ShardsFirst /\ StoredStays /\ [Next]_vars
         => ShardsFirst' /\ StoredStays'
  BY StepKeepsShardsFirst, StepKeepsStored
<1>3. Provenance /\ ShardsFirst /\ StoredStays => StoredIsReadable
  <2> SUFFICES ASSUME Provenance, ShardsFirst, StoredStays, NEW c \in Clients,
                      answer[c].kind \in {"stored", "present"}
               PROVE  Readable(Key(c))
    BY DEF StoredIsReadable
  <2>1. Key(c) \in Keys /\ docs[<<Key(c), Main>>] # NoDoc
    BY DEF Provenance, TypeOK, Calls, Key, StoredStays
  <2>2. QED
    BY <2>1, PresentIsReadable DEF ShardsFirst
<1>4. QED
  BY <1>1, <1>2, <1>3, SpecProvenance, PTL DEF Spec

-----------------------------------------------------------------------------
(* What is readable is not missed.                                          *)

(* Calls are answered when they return, not before.                         *)
LEMMA StepKeepsOpenCalls ==
    ASSUME TypeOK, OpenCalls, [Next]_vars
    PROVE  OpenCalls'
<1> DEFINE Open(c) == pc'[c] # "idle" => answer'[c] = NoAnswer
<1>a. ASSUME NEW c \in Clients, NEW a, Return(c, a)
      PROVE  Open(c)
  BY <1>a DEF Return, TypeOK
<1>1. ASSUME NEW c \in Clients, Request(c)
      PROVE  Open(c)
  BY <1>1 DEF Request, BeginStore, BeginPut, BeginExists, BeginGet,
     BeginRemove, Begin, TypeOK
<1>2. ASSUME NEW c \in Clients, Step(c)
      PROVE  Open(c)
  <2>1. CASE StoreAbsent(c) \/ PutShard(c) \/ GetManifest(c) \/ GetShard(c)
             \/ RemoveGet(c) \/ RemoveManifest(c)
    BY <2>1 DEF StoreAbsent, PutShard, GetManifest, GetShard, RemoveGet,
       RemoveManifest, Goto, OpenCalls
  <2>2. CASE StorePresent(c) \/ PutMain(c) \/ Exists(c) \/ GetUnsharded(c)
             \/ GetShardMissing(c) \/ GetLastShard(c)
    BY <1>a, <2>2 DEF StorePresent, PutMain, Exists, GetUnsharded,
       GetShardMissing, GetLastShard
  <2>3. CASE RemoveAbsent(c) \/ RemoveUnsharded(c) \/ RemoveShard(c) \/ Fail(c)
    BY <1>a, <2>3 DEF RemoveAbsent, RemoveUnsharded, RemoveShard, Fail, OpenCalls
  <2>4. QED
    BY <1>2, <2>1, <2>2, <2>3 DEF Step
<1>3. ASSUME NEW d \in Clients
      PROVE  Open(d)
  <2>1. CASE \E c \in Clients : Request(c) \/ Step(c)
    BY <1>1, <1>2, <2>1, OthersStay DEF OpenCalls
  <2>2. CASE UNCHANGED <<pc, call, answer>>
    BY <2>2 DEF OpenCalls
  <2>3. QED
    BY <2>1, <2>2 DEF Next, ApplyLate, Lose, vars
<1>4. QED
  BY <1>3 DEF OpenCalls

LEMMA SpecOpenCalls == Spec => []OpenCalls
<1>1. Init => OpenCalls
  BY DEF Init, OpenCalls
<1>2. Provenance /\ OpenCalls /\ [Next]_vars => OpenCalls'
  BY StepKeepsOpenCalls DEF Provenance
<1>3. QED
  BY <1>1, <1>2, SpecProvenance, PTL DEF Spec

(* The manifest of a read is the one manifest its key can have.             *)
LEMMA ReadingManifest ==
    ASSUME UniformShardSize, ContentAddressed, Provenance,
           NEW c \in Clients, pc[c] \in {"getShard", "rmShard"}
    PROVE  LET p == ThePayload(Key(c))
               n == ShardCount(Length[p], TheSize)
           IN  /\ Key(c) \in Keys
               /\ Length[p] \in Nat /\ TheSize \in Nat \ {0}
               /\ Length[p] > TheSize
               /\ n \in 1 .. MaxShards
               /\ frame[c].document = MainDoc(p, TheSize)
               /\ frame[c].document \in Manifests
               /\ frame[c].document.shards = n
               /\ frame[c].document.bytes = Length[p]
               /\ frame[c].next \in 0 .. n - 1
<1>1. /\ Key(c) \in Keys
      /\ GoodDoc(<<Key(c), Main>>, frame[c].document)
      /\ frame[c].document \in Manifests
      /\ frame[c].next \in Nat
      /\ frame[c].next < frame[c].document.shards
  BY DEF Provenance, TypeOK, FrameOK, Calls, Frames, Key
<1>2. frame[c].document # NoDoc /\ frame[c].document \notin Slices
  BY <1>1 DEF Manifests, NoDoc, Slices
<1>3. QED
  BY <1>1, <1>2, PresentIsMainDoc

(* With its last shard, a read has as many bytes as the manifest names.     *)
LEMMA LastShardMatches ==
    ASSUME UniformShardSize, ContentAddressed, Provenance, PartsOK,
           NEW c \in Clients, GetLastShard(c)
    PROVE  Joined(c).bytes = frame[c].document.bytes
<1> DEFINE p == ThePayload(Key(c))
           s == ShardCount(Length[p], TheSize)
           n == frame[c].next
           part == DocAt(c, n)
<1>1. /\ Key(c) \in Keys
      /\ Length[p] \in Nat /\ TheSize \in Nat \ {0} /\ Length[p] > TheSize
      /\ s \in 1 .. MaxShards
      /\ frame[c].document.shards = s /\ frame[c].document.bytes = Length[p]
      /\ n \in 0 .. s - 1
  BY ReadingManifest DEF GetLastShard
<1>2. /\ Joined(c).next = n + 1
      /\ Joined(c).bytes = n * TheSize + SizeOf(part)
  BY DEF Joined, GetLastShard, PartsOK, HoldsFirst, Provenance, TypeOK, Frames
<1>3. s = n + 1
  BY <1>1, <1>2, MaxShardsAssumption DEF GetLastShard
<1>4. part = Shard(p, n, TheSize)
  BY <1>1, PresentIsShard, MaxShardsAssumption DEF GetLastShard, DocAt
<1>5. Length[p] <= (n + 1) * TheSize
  BY <1>1, <1>3, ShardCountBounds
<1>6. n * TheSize + SizeOf(Shard(p, n, TheSize)) = Length[p]
  <2>1. n * TheSize \in Int /\ (n + 1) * TheSize \in Int /\ Length[p] \in Int
    BY <1>1, MaxShardsAssumption
  <2> DEFINE d == Shard(p, n, TheSize)
  <2>2. d = [kind |-> "bytes", payload |-> p, from |-> n * TheSize,
             to |-> Least((n + 1) * TheSize, Length[p])]
    BY DEF Shard, Slice
  <2>3. Least((n + 1) * TheSize, Length[p]) = Length[p]
    <3> DEFINE x == (n + 1) * TheSize
               y == Length[p]
    <3>1. x \in Int /\ y \in Int /\ y <= x
      BY <1>5, <2>1
    <3> HIDE DEF x, y
    <3>2. Least(x, y) = y
      BY <3>1 DEF Least
    <3>3. QED
      BY <3>2 DEF x, y
  <2>4. d.kind = "bytes" /\ d.from = n * TheSize /\ d.to = Length[p]
    BY <2>2, <2>3
  <2> HIDE DEF d
  <2>5. SizeOf(d) = d.to - d.from
    BY <2>4 DEF SizeOf
  <2> DEFINE x == n * TheSize
             y == Length[p]
  <2>6. x \in Int /\ y \in Int /\ SizeOf(d) = y - x
    BY <2>1, <2>4, <2>5
  <2>7. x + SizeOf(d) = y
    <3> HIDE DEF x, y
    <3>1. QED
      BY <2>6
  <2>8. QED
    BY <2>7 DEF d
<1>7. QED
  BY <1>1, <1>2, <1>4, <1>6

(* While a chunk is readable, no read of it in progress misses a shard.     *)
LEMMA ReadableHasShard ==
    ASSUME UniformShardSize, ContentAddressed, Provenance,
           NEW c \in Clients, pc[c] = "getShard", Readable(Key(c))
    PROVE  DocAt(c, frame[c].next) \in Slices
<1> DEFINE k == Key(c)
           p == ThePayload(k)
           d == docs[<<k, Main>>]
<1>1. /\ k \in Keys
      /\ frame[c].document = MainDoc(p, TheSize)
      /\ frame[c].document \in Manifests
      /\ frame[c].next \in 0 .. frame[c].document.shards - 1
  BY ReadingManifest
<1>2. d \in Slices \/ d \in Manifests
  BY DEF Readable
<1>3. d # NoDoc /\ GoodDoc(<<k, Main>>, d)
  BY <1>1, <1>2, MainIsDocKey DEF Provenance, DocsWritten, Slices, Manifests, NoDoc
<1>4. d = frame[c].document
  BY <1>1, <1>3, PresentIsMainDoc
<1>5. d \notin Slices
  BY <1>1, <1>4 DEF Slices, Manifests
<1>6. QED
  BY <1>1, <1>4, <1>5 DEF Readable, DocAt

LEMMA MissIsUnreadable ==
    ASSUME UniformShardSize, ContentAddressed, Provenance, PartsOK, OpenCalls,
           [Next]_vars, NEW c \in Clients, pc[c] \in {"getDoc", "getShard"},
           answer'[c].kind = "miss"
    PROVE  ~Readable(Key(c))
<1>a. TypeOK /\ answer[c].kind # "miss"
  BY DEF Provenance, OpenCalls, NoAnswer, Answer
<1>b. ASSUME answer'[c] = answer[c]
      PROVE  FALSE
  BY <1>a, <1>b
<1>1. PICK d \in Clients : Request(d) \/ Step(d)
  BY <1>b DEF Next, ApplyLate, Lose, vars
<1>2. d = c
  BY <1>a, <1>b, <1>1, OthersStay
<1>3. Step(c)
  BY <1>1, <1>2 DEF Request, BeginStore, BeginPut, BeginExists, BeginGet,
     BeginRemove, Begin
<1>c. ASSUME NEW kind, NEW bytes, kind # "miss", Return(c, Answer(kind, bytes))
      PROVE  FALSE
  BY <1>a, <1>c DEF Return, Answer, TypeOK
<1>4. CASE GetUnsharded(c)
  <2>1. CASE DocAt(c, Main) = NoDoc
    BY <2>1 DEF DocAt, Readable, NoDoc, Slices, Manifests
  <2>2. CASE DocAt(c, Main) # NoDoc
    BY <1>a, <1>4, <2>2 DEF GetUnsharded, Return, Hit, TypeOK
  <2>3. QED
    BY <2>1, <2>2
<1>5. CASE GetShardMissing(c)
  BY <1>5, ReadableHasShard DEF GetShardMissing
<1>6. CASE GetLastShard(c)
  <2>1. Return(c, Hit(Joined(c).parts, Joined(c).bytes))
    BY <1>6, LastShardMatches DEF GetLastShard
  <2>2. QED
    BY <1>a, <2>1 DEF Return, Hit, TypeOK
<1>7. CASE GetManifest(c) \/ GetShard(c)
  BY <1>b, <1>7 DEF GetManifest, GetShard
<1>8. CASE Fail(c)
  BY <1>8, <1>c DEF Fail
<1>9. QED
  BY <1>3, <1>4, <1>5, <1>6, <1>7, <1>8 DEF Step, StorePresent, StoreAbsent,
     PutShard, PutMain, Exists, RemoveGet, RemoveAbsent, RemoveUnsharded,
     RemoveManifest, RemoveShard

(* With one shard size and content-addressed keys, a read misses only when  *)
(* the chunk cannot be read at that moment, also under losses, removals and *)
(* failures: never because it mixed two manifests, nor at its last shard    *)
(* because of the total (get_bytes).                                        *)
THEOREM WhatIsReadableIsHit ==
    ASSUME UniformShardSize, ContentAddressed
    PROVE  Spec => ReadableIsHit
<1>1. Provenance /\ PartsOK /\ OpenCalls /\ [Next]_vars
         => [\A c \in Clients : pc[c] \in {"getDoc", "getShard"}
                /\ answer'[c].kind = "miss" => ~Readable(Key(c))]_vars
  BY MissIsUnreadable
<1>2. QED
  BY <1>1, SpecProvenance, ReadsHoldFirstShards, SpecOpenCalls, PTL
  DEF Spec, ReadableIsHit
=============================================================================
