----------------------- MODULE ShardedStoreRefinement -----------------------
(***************************************************************************)
(* Proof that CouchbaseKVStore implements ChunkCache: every SDK call is a  *)
(* step of the cache or none.                                              *)
(***************************************************************************)
EXTENDS ShardedStoreProofs

(* A serialized chunk is never empty: pack_metadata precedes its bytes.    *)
NoEmptyPayload == \A p \in Payloads : Length[p] > 0

Inv ==
    /\ Provenance
    /\ PartsOK
    /\ NoTornRead
    /\ Reliable => ShardsFirst

-----------------------------------------------------------------------------
(* The abstract state of a client.                                         *)

LEMMA AbstractAt ==
    ASSUME NEW c \in Clients
    PROVE  /\ AbstractRequests[c] = AbstractRequest(pc[c])
           /\ AbstractKeys[c] = Key(c)
           /\ AbstractFounds[c] = AbstractFound(c)
           /\ AbstractReplies[c] = AbstractReply(c)
BY DEF AbstractRequests, AbstractKeys, AbstractFounds, AbstractReplies

LEMMA CachedIffPresent ==
    ASSUME TypeOK, NEW c \in Clients
    PROVE  Key(c) \in AbstractCached <=> DocAt(c, Main) # NoDoc
BY DEF AbstractCached, DocAt, Key, TypeOK, Calls

(* Of the clients, a step of c changes the abstract state of c only.       *)
LEMMA OneClient ==
    ASSUME TypeOK, NEW c \in Clients, Request(c) \/ Step(c)
    PROVE  /\ AbstractRequests' =
                 [AbstractRequests EXCEPT ![c] = AbstractRequest(pc'[c])]
           /\ AbstractKeys' = [AbstractKeys EXCEPT ![c] = Key(c)']
           /\ AbstractFounds' = [AbstractFounds EXCEPT ![c] = AbstractFound(c)']
           /\ AbstractReplies' = [AbstractReplies EXCEPT ![c] = AbstractReply(c)']
<1>1. ASSUME NEW d \in Clients, d # c
      PROVE  /\ pc'[d] = pc[d] /\ call'[d] = call[d]
             /\ frame'[d] = frame[d] /\ answer'[d] = answer[d]
  BY <1>1, OthersStay
<1>2. AbstractRequests' = [AbstractRequests EXCEPT ![c] = AbstractRequest(pc'[c])]
  BY <1>1 DEF AbstractRequests
<1>3. AbstractKeys' = [AbstractKeys EXCEPT ![c] = Key(c)']
  <2>1. \A d \in Clients : d # c => Key(d)' = Key(d)
    BY <1>1 DEF Key
  <2>2. QED
    BY <2>1 DEF AbstractKeys
<1>4. AbstractFounds' = [AbstractFounds EXCEPT ![c] = AbstractFound(c)']
  BY <1>1 DEF AbstractFounds, AbstractFound
<1>5. AbstractReplies' = [AbstractReplies EXCEPT ![c] = AbstractReply(c)']
  <2>1. ASSUME NEW d \in Clients, d # c
        PROVE  AbstractReply(d)' = AbstractReply(d)
    <3>1. answer'[d] = answer[d] /\ call'[d] = call[d]
      BY <1>1, <2>1
    <3>2. HitIsWhole(d)' <=> HitIsWhole(d)
      BY <3>1 DEF HitIsWhole, Reassembles, Key
    <3>3. QED
      BY <3>1, <3>2 DEF AbstractReply
  <2>2. QED
    BY <2>1 DEF AbstractReplies
<1>6. QED
  BY <1>2, <1>3, <1>4, <1>5

(* A call returns: its client waits for nothing and has found nothing.     *)
LEMMA ReplyIs ==
    ASSUME TypeOK, NEW c \in Clients, NEW a, Return(c, a), Step(c),
           NEW outcome, AbstractReply(c)' = outcome
    PROVE  Cache!Reply(c, outcome)
<1>1. /\ pc'[c] = "idle" /\ Key(c)' = Key(c)
  BY DEF Return, TypeOK, Key
<1>2. AbstractRequest(pc'[c]) = "none" /\ AbstractFound(c)' = FALSE
  BY <1>1 DEF AbstractRequest, AbstractFound
<1>3. AbstractKeys' = AbstractKeys
  BY DEF Return, AbstractKeys, Key
<1>4. QED
  BY <1>1, <1>2, <1>3, OneClient DEF Cache!Reply

LEMMA PlainReply ==
    ASSUME TypeOK, NEW c \in Clients, NEW kind \in AnswerKinds \ {"hit", "removed"},
           NEW bytes, Return(c, Answer(kind, bytes)), Step(c)
    PROVE  Cache!Reply(c, kind)
<1>1. answer'[c].kind = kind /\ Answer(kind, bytes).kind = kind
  BY DEF Return, Answer, TypeOK
<1>2. AbstractReply(c)' = kind
  BY <1>1 DEF AbstractReply
<1>3. QED
  BY <1>2, ReplyIs

LEMMA HitReply ==
    ASSUME Inv, NoTornRead', NEW c \in Clients, NEW a, a.kind = "hit",
           Return(c, a), Step(c)
    PROVE  Cache!Reply(c, "hit")
<1>1. answer'[c] = a /\ TypeOK
  BY DEF Return, Inv, Provenance, TypeOK
<1>2. HitIsWhole(c)'
  BY <1>1 DEF NoTornRead
<1>3. AbstractReply(c)' = "hit"
  BY <1>1, <1>2 DEF AbstractReply
<1>4. QED
  BY <1>1, <1>3, ReplyIs

(* What was measured before it was removed has a size.                     *)
LEMMA RemovedReply ==
    ASSUME UniformShardSize, ContentAddressed, NoEmptyPayload, Inv,
           NEW c \in Clients, pc[c] \in {"rmDoc", "rmShard"},
           Return(c, Answer("removed", SizeOf(frame[c].document))), Step(c)
    PROVE  Cache!Reply(c, Cache!Outcome(c))
<1> DEFINE d == frame[c].document
           a == Answer("removed", SizeOf(d))
<1>1. /\ TypeOK /\ Key(c) \in Keys /\ GoodDoc(<<Key(c), Main>>, d)
  BY DEF Inv, Provenance, TypeOK, FrameOK, Key, Calls
<1>2. answer'[c] = a /\ a.kind = "removed" /\ a.bytes = SizeOf(d)
  BY <1>1 DEF Return, TypeOK, Answer
<1>3. AbstractFounds[c] <=> d # NoDoc
  BY DEF AbstractFounds, AbstractFound
<1>4. d = NoDoc => SizeOf(d) = 0
  BY DEF NoDoc, SizeOf
<1>5. d # NoDoc => SizeOf(d) # 0
  <2> SUFFICES ASSUME d # NoDoc
               PROVE  SizeOf(d) # 0
    OBVIOUS
  <2> DEFINE p == ThePayload(Key(c))
  <2>1. /\ p \in Payloads /\ Length[p] \in Nat
        /\ d \in Slices => d = Slice(p, 0, Length[p])
        /\ d \notin Slices => d \in Manifests /\ d.bytes = Length[p]
    BY <1>1, PresentIsMainDoc
  <2>2. Length[p] > 0
    BY <2>1 DEF NoEmptyPayload
  <2>3. CASE d \in Slices
    <3>1. d.kind = "bytes" /\ d.from = 0 /\ d.to = Length[p]
      BY <2>1, <2>3 DEF Slice
    <3>2. SizeOf(d) = d.to - d.from
      BY <3>1 DEF SizeOf
    <3>3. QED
      BY <2>1, <2>2, <3>1, <3>2
  <2>4. CASE d \notin Slices
    <3>1. d.kind = "manifest" /\ d.bytes = Length[p]
      BY <2>1, <2>4 DEF Manifests
    <3>2. SizeOf(d) = d.bytes
      BY <3>1 DEF SizeOf
    <3>3. QED
      BY <2>1, <2>2, <3>1, <3>2
  <2>5. QED
    BY <2>3, <2>4
<1>6. CASE d = NoDoc
  <2>1. AbstractReply(c)' = "unmeasured" /\ Cache!Outcome(c) = "unmeasured"
    BY <1>2, <1>3, <1>4, <1>6 DEF AbstractReply, Cache!Outcome
  <2>2. QED
    BY <1>1, <1>2, <2>1, ReplyIs
<1>7. CASE d # NoDoc
  <2>1. AbstractReply(c)' = "removed" /\ Cache!Outcome(c) = "removed"
    BY <1>2, <1>3, <1>5, <1>7 DEF AbstractReply, Cache!Outcome
  <2>2. QED
    BY <1>1, <1>2, <2>1, ReplyIs
<1>8. QED
  BY <1>6, <1>7

LEMMA SameFounds ==
    ASSUME TypeOK, NEW c \in Clients, Request(c) \/ Step(c),
           AbstractFound(c)' <=> AbstractFound(c)
    PROVE  UNCHANGED AbstractFounds
<1>1. ASSUME NEW d \in Clients
      PROVE  AbstractFound(d)' <=> AbstractFound(d)
  <2>1. CASE d # c
    BY <2>1, OthersStay DEF AbstractFound
  <2>2. QED
    BY <2>1
<1>2. ASSUME NEW d \in Clients
      PROVE  AbstractFound(d)' = AbstractFound(d)
  BY <1>1 DEF AbstractFound
<1>3. QED
  BY <1>2 DEF AbstractFounds

-----------------------------------------------------------------------------
(* The steps of a client.                                                  *)

LEMMA RequestIsBegin ==
    ASSUME Inv, NEW c \in Clients, Request(c)
    PROVE  \E r \in Cache!Requests, k \in Keys : Cache!Begin(c, r, k)
<1>a. TypeOK
  BY DEF Inv, Provenance
<1>1. PICK k \in Keys, p \in Payloads \cup {NoPayload},
           first \in {"check", "put", "exists", "getDoc", "rmGet"} :
              Begin(c, k, p, first)
  BY ContentsAssumption
  DEF Request, BeginStore, BeginPut, BeginExists, BeginGet, BeginRemove
<1>2. /\ pc[c] = "idle" /\ pc'[c] = first /\ Key(c)' = k
      /\ answer'[c] = NoAnswer /\ UNCHANGED <<docs, late>>
  BY <1>a, <1>1 DEF Begin, TypeOK, Key
<1>3. /\ AbstractRequest(pc[c]) = "none" /\ ~AbstractFound(c)
      /\ ~AbstractFound(c)' /\ AbstractReply(c)' = "none"
      /\ AbstractRequest(first) \in Cache!Requests
  BY <1>2 DEF AbstractRequest, AbstractFound, AbstractReply, NoAnswer, Answer,
     Cache!Requests
<1>4. AbstractFounds' = AbstractFounds
  BY <1>a, <1>3, SameFounds
<1>5. UNCHANGED <<AbstractCached, AbstractInDoubt>>
  BY <1>2 DEF AbstractCached, AbstractInDoubt
<1>6. Cache!Begin(c, AbstractRequest(first), k)
  BY <1>a, <1>2, <1>3, <1>4, <1>5, OneClient, AbstractAt DEF Cache!Begin
<1>7. QED
  BY <1>3, <1>6

(* A step that writes no document at a key and gives nothing up.           *)
LEMMA SameCache ==
    ASSUME \A k \in Keys : docs'[<<k, Main>>] = docs[<<k, Main>>], UNCHANGED late
    PROVE  UNCHANGED <<AbstractCached, AbstractInDoubt>>
BY DEF AbstractCached, AbstractInDoubt

(* A call that goes on, for the cache, where it was.                       *)
LEMMA SameClient ==
    ASSUME TypeOK, NEW c \in Clients, Step(c), UNCHANGED <<call, answer>>,
           AbstractRequest(pc'[c]) = AbstractRequest(pc[c]),
           AbstractFound(c)' <=> AbstractFound(c)
    PROVE  UNCHANGED <<AbstractRequests, AbstractKeys, AbstractFounds, AbstractReplies>>
<1>1. UNCHANGED <<AbstractKeys, AbstractReplies>>
  BY DEF AbstractKeys, AbstractReplies, AbstractReply, HitIsWhole, Reassembles, Key
<1>2. UNCHANGED AbstractRequests
  BY OneClient DEF AbstractRequests
<1>3. UNCHANGED AbstractFounds
  BY SameFounds
<1>4. QED
  BY <1>1, <1>2, <1>3

(* The same, on to a request of the cache that has, or has not, found.     *)
LEMMA NextRequest ==
    ASSUME TypeOK, NEW c \in Clients, Step(c), UNCHANGED <<call, answer>>,
           NEW next, AbstractRequest(pc'[c]) = next,
           NEW found \in BOOLEAN, AbstractFound(c)' = found
    PROVE  /\ AbstractRequests' = [AbstractRequests EXCEPT ![c] = next]
           /\ AbstractFounds' = [AbstractFounds EXCEPT ![c] = found]
           /\ UNCHANGED <<AbstractKeys, AbstractReplies>>
<1>1. UNCHANGED <<AbstractKeys, AbstractReplies>>
  BY DEF AbstractKeys, AbstractReplies, AbstractReply, HitIsWhole, Reassembles, Key
<1>2. QED
  BY <1>1, OneClient

LEMMA StoreSteps ==
    ASSUME Inv, NEW c \in Clients,
           StorePresent(c) \/ StoreAbsent(c) \/ Exists(c)
    PROVE  Cache!Answer(c)
<1>a. TypeOK /\ Step(c)
  BY DEF Inv, Provenance, Step
<1>b. UNCHANGED <<AbstractCached, AbstractInDoubt>>
  BY SameCache DEF StorePresent, StoreAbsent, Exists
<1>1. CASE StorePresent(c)
  <2>1. Cache!Reply(c, "present")
    BY <1>a, <1>1, PlainReply DEF StorePresent, AnswerKinds
  <2>2. AbstractRequests[c] = "offer" /\ AbstractKeys[c] \in AbstractCached
    BY <1>a, <1>1, AbstractAt, CachedIffPresent DEF StorePresent, AbstractRequest
  <2>3. QED
    BY <1>b, <2>1, <2>2 DEF Cache!Answer, Cache!Present
<1>2. CASE StoreAbsent(c)
  <2>1. /\ UNCHANGED <<call, answer>> /\ pc[c] = "check" /\ pc'[c] = "put"
        /\ ~AbstractFound(c) /\ AbstractFound(c)' = FALSE
    BY <1>a, <1>2 DEF StoreAbsent, Goto, TypeOK, AbstractFound
  <2>2. AbstractRequests[c] = "offer" /\ AbstractKeys[c] \notin AbstractCached
    BY <1>a, <1>2, AbstractAt, CachedIffPresent DEF StoreAbsent, AbstractRequest
  <2>3. AbstractRequest(pc'[c]) = "write"
    BY <2>1 DEF AbstractRequest
  <2>4. AbstractFounds' = AbstractFounds
    BY <1>a, <2>1, SameFounds
  <2>5. QED
    BY <1>a, <1>b, <2>1, <2>2, <2>3, <2>4, NextRequest
    DEF Cache!Answer, Cache!Lacking
<1>3. CASE Exists(c)
  <2>1. CASE DocAt(c, Main) # NoDoc
    <3>1. Cache!Reply(c, "yes")
      BY <1>a, <1>3, <2>1, PlainReply DEF Exists, AnswerKinds
    <3>2. AbstractRequests[c] = "ask" /\ AbstractKeys[c] \in AbstractCached
      BY <1>a, <1>3, <2>1, AbstractAt, CachedIffPresent DEF Exists, AbstractRequest
    <3>3. QED
      BY <1>b, <3>1, <3>2 DEF Cache!Answer, Cache!Tell
  <2>2. CASE DocAt(c, Main) = NoDoc
    <3>1. Cache!Reply(c, "no")
      BY <1>a, <1>3, <2>2, PlainReply DEF Exists, AnswerKinds
    <3>2. AbstractRequests[c] = "ask" /\ AbstractKeys[c] \notin AbstractCached
      BY <1>a, <1>3, <2>2, AbstractAt, CachedIffPresent DEF Exists, AbstractRequest
    <3>3. QED
      BY <1>b, <3>1, <3>2 DEF Cache!Answer, Cache!Tell
  <2>3. QED
    BY <2>1, <2>2
<1>4. QED
  BY <1>1, <1>2, <1>3

(* A document at a shard key is not the one at the key.                    *)
LEMMA ShardIsNotMain ==
    ASSUME Inv, NEW j \in Keys, NEW i \in Nat, NEW v,
           docs' = [docs EXCEPT ![<<j, i>>] = v]
    PROVE  \A k \in Keys : docs'[<<k, Main>>] = docs[<<k, Main>>]
<1>1. \A k \in Keys : <<k, Main>> # <<j, i>>
  BY DEF Main
<1>2. QED
  BY <1>1, MainIsDocKey DEF Inv, Provenance, TypeOK

LEMMA PutSteps ==
    ASSUME Inv, NEW c \in Clients
    PROVE  /\ PutShard(c) => UNCHANGED Cache!cacheVars
           /\ PutMain(c) => Cache!Answer(c)
<1>a. TypeOK /\ Provenance /\ Key(c) \in Keys
  BY DEF Inv, Provenance, TypeOK, Calls, Key
<1>1. ASSUME PutShard(c)
      PROVE  UNCHANGED Cache!cacheVars
  <2>1. docs' = [docs EXCEPT ![<<Key(c), frame[c].next>>] = NextUpsert(c).value]
    BY <1>1 DEF PutShard, Apply, NextUpsert
  <2>2. frame[c].next \in Nat
    BY <1>a DEF TypeOK, Frames
  <2>3. UNCHANGED <<AbstractCached, AbstractInDoubt>>
    BY <1>1, <1>a, <2>1, <2>2, ShardIsNotMain, SameCache DEF PutShard
  <2>4. Step(c) /\ ~AbstractFound(c) /\ ~AbstractFound(c)' /\ pc' = pc
    BY <1>1 DEF PutShard, Step, AbstractFound
  <2>5. UNCHANGED <<AbstractRequests, AbstractKeys, AbstractFounds, AbstractReplies>>
    BY <1>1, <1>a, <2>4, SameClient DEF PutShard
  <2>6. QED
    BY <2>3, <2>5 DEF Cache!cacheVars
<1>2. ASSUME PutMain(c)
      PROVE  Cache!Answer(c)
  <2>1. Cache!Reply(c, "stored")
    BY <1>a, <1>2, PlainReply DEF PutMain, Step, AnswerKinds
  <2>2. NextUpsert(c).at = <<Key(c), Main>> /\ NextUpsert(c).value # NoDoc
    BY <1>a, <1>2, NextUpsertGood DEF PutMain, NextUpsert
  <2>3. docs' = [docs EXCEPT ![<<Key(c), Main>>] = NextUpsert(c).value]
    BY <1>2, <2>2 DEF PutMain, Apply
  <2>4. AbstractCached' = AbstractCached \cup {Key(c)}
    BY <1>a, <2>2, <2>3, MainIsDocKey DEF AbstractCached, TypeOK
  <2>5. AbstractInDoubt' = AbstractInDoubt /\ AbstractRequests[c] = "write"
    BY <1>2, AbstractAt DEF PutMain, AbstractInDoubt, AbstractRequest
  <2>6. QED
    BY <2>1, <2>4, <2>5, AbstractAt DEF Cache!Answer, Cache!Commit
<1>3. QED
  BY <1>1, <1>2

(* Under Reliable no read in progress lacks a shard.                       *)
LEMMA ReliableHasShard ==
    ASSUME Inv, Reliable, NEW c \in Clients, pc[c] = "getShard"
    PROVE  DocAt(c, frame[c].next) \in Slices
<1>1. HasShards(Key(c), frame[c].document.shards)
  BY DEF Inv, ShardsFirst
<1>2. frame[c].next \in Nat /\ frame[c].next < frame[c].document.shards
  BY DEF Inv, Provenance, TypeOK, FrameOK, Frames
<1>3. frame[c].document.shards \in Nat
  BY DEF Inv, Provenance, FrameOK, Manifests
<1>4. QED
  BY <1>1, <1>2, <1>3 DEF HasShards, DocAt

LEMMA GetSteps ==
    ASSUME UniformShardSize, ContentAddressed, Inv, NoTornRead', NEW c \in Clients
    PROVE  /\ GetShard(c) => UNCHANGED Cache!cacheVars
           /\ GetUnsharded(c) \/ GetManifest(c) \/ GetShardMissing(c)
              \/ GetLastShard(c) => Cache!Answer(c)
<1>a. TypeOK /\ Provenance /\ Key(c) \in Keys
  BY DEF Inv, Provenance, TypeOK, Calls, Key
<1>b. ASSUME GetUnsharded(c) \/ GetManifest(c) \/ GetShardMissing(c)
             \/ GetLastShard(c)
      PROVE  /\ Step(c)
             /\ UNCHANGED <<AbstractCached, AbstractInDoubt>>
             /\ AbstractRequests[c] = "fetch"
             /\ AbstractFounds[c] <=> pc[c] = "getShard"
  <2>1. Step(c) /\ pc[c] \in {"getDoc", "getShard"} /\ UNCHANGED <<docs, late>>
    BY <1>b DEF Step, GetUnsharded, GetManifest, GetShardMissing, GetLastShard
  <2>2. pc[c] = "getShard" => frame[c].document # NoDoc
    <3>1. pc[c] = "getShard" => frame[c].document \in Manifests
      BY <1>a DEF Provenance, FrameOK
    <3>2. NoDoc \notin Manifests
      BY DEF Manifests, NoDoc
    <3>3. QED
      BY <3>1, <3>2
  <2>3. AbstractFound(c) <=> pc[c] = "getShard"
    BY <2>1, <2>2 DEF AbstractFound
  <2>4. AbstractRequest(pc[c]) = "fetch"
    BY <2>1 DEF AbstractRequest
  <2>5. QED
    BY <2>1, <2>3, <2>4, SameCache, AbstractAt
<1>1. ASSUME GetShard(c)
      PROVE  UNCHANGED Cache!cacheVars
  <2>1. frame'[c].document = frame[c].document
    <3>1. frame[c] \in Frames /\ frame'[c] = Joined(c)
      BY <1>1, <1>a DEF GetShard, TypeOK
    <3>2. Joined(c).document = frame[c].document
      BY <3>1 DEF Joined, Frames
    <3>3. QED
      BY <3>1, <3>2
  <2>2. Step(c) /\ pc' = pc /\ (AbstractFound(c)' <=> AbstractFound(c))
    BY <1>1, <2>1 DEF GetShard, Step, AbstractFound
  <2>3. UNCHANGED <<AbstractRequests, AbstractKeys, AbstractFounds, AbstractReplies>>
    BY <1>1, <1>a, <2>2, SameClient DEF GetShard
  <2>4. UNCHANGED <<AbstractCached, AbstractInDoubt>>
    BY <1>1, SameCache DEF GetShard
  <2>5. QED
    BY <2>3, <2>4 DEF Cache!cacheVars
<1>2. ASSUME GetUnsharded(c)
      PROVE  Cache!Answer(c)
  <2>1. CASE DocAt(c, Main) = NoDoc
    <3>1. Cache!Reply(c, "miss")
      BY <1>a, <1>b, <1>2, <2>1, PlainReply DEF GetUnsharded, AnswerKinds
    <3>2. AbstractKeys[c] \notin AbstractCached /\ ~AbstractFounds[c]
      BY <1>a, <1>b, <1>2, <2>1, AbstractAt, CachedIffPresent DEF GetUnsharded
    <3>3. QED
      BY <1>b, <1>2, <3>1, <3>2 DEF Cache!Answer, Cache!Miss
  <2>2. CASE DocAt(c, Main) # NoDoc
    <3>1. Cache!Reply(c, "hit")
      BY <1>b, <1>2, <2>2, HitReply DEF GetUnsharded, Hit
    <3>2. AbstractKeys[c] \in AbstractCached
      BY <1>a, <2>2, AbstractAt, CachedIffPresent
    <3>3. QED
      BY <1>b, <1>2, <3>1, <3>2 DEF Cache!Answer, Cache!Hit
  <2>3. QED
    BY <2>1, <2>2
<1>3. ASSUME GetManifest(c)
      PROVE  Cache!Answer(c)
  <2>1. DocAt(c, Main) # NoDoc
    BY <1>3 DEF GetManifest, Manifests, NoDoc
  <2>2. /\ pc[c] = "getDoc" /\ pc'[c] = "getShard" /\ UNCHANGED <<call, answer>>
        /\ frame'[c].document = DocAt(c, Main)
    BY <1>a, <1>3 DEF GetManifest, TypeOK, Frames
  <2>3. AbstractFound(c)' = TRUE
    BY <2>1, <2>2 DEF AbstractFound
  <2>4. AbstractRequest(pc'[c]) = "fetch"
    BY <2>2 DEF AbstractRequest
  <2>5. AbstractRequests' = AbstractRequests
    BY <1>a, <1>b, <1>3, <2>2, <2>3, <2>4, NextRequest DEF AbstractRequests
  <2>6. AbstractKeys[c] \in AbstractCached
    BY <1>a, <2>1, AbstractAt, CachedIffPresent
  <2>7. QED
    BY <1>a, <1>b, <1>3, <2>2, <2>3, <2>4, <2>5, <2>6, NextRequest
    DEF Cache!Answer, Cache!Find
<1>4. ASSUME GetShardMissing(c)
      PROVE  Cache!Answer(c)
  <2>1. Cache!Reply(c, "miss")
    BY <1>a, <1>b, <1>4, PlainReply DEF GetShardMissing, AnswerKinds
  <2>2. ~Reliable
    BY <1>4, ReliableHasShard DEF GetShardMissing
  <2>3. QED
    BY <1>b, <1>4, <2>1, <2>2 DEF Cache!Answer, Cache!Miss
<1>5. ASSUME GetLastShard(c)
      PROVE  Cache!Answer(c)
  <2>1. Return(c, Hit(Joined(c).parts, Joined(c).bytes))
    BY <1>5, LastShardMatches DEF GetLastShard, Inv
  <2>2. Cache!Reply(c, "hit")
    BY <1>b, <1>5, <2>1, HitReply DEF Hit
  <2>3. QED
    BY <1>b, <1>5, <2>2 DEF GetLastShard, Cache!Answer, Cache!Hit
<1>6. QED
  BY <1>1, <1>2, <1>3, <1>4, <1>5

LEMMA RemoveSteps ==
    ASSUME UniformShardSize, ContentAddressed, NoEmptyPayload, Inv, NEW c \in Clients
    PROVE  /\ RemoveGet(c) \/ RemoveAbsent(c) \/ RemoveUnsharded(c)
              \/ RemoveManifest(c) => Cache!Answer(c)
           /\ RemoveShard(c) => Cache!Answer(c) \/ UNCHANGED Cache!cacheVars
<1>a. TypeOK /\ Provenance /\ Key(c) \in Keys /\ <<Key(c), Main>> \in DocKeys
  BY MainIsDocKey DEF Inv, Provenance, TypeOK, Calls, Key
<1>b. AbstractKeys[c] = Key(c)
  BY AbstractAt
<1>c. ASSUME pc[c] = "rmDoc", DocAt(c, Main) # NoDoc, Apply(Removal(c))
      PROVE  /\ AbstractCached' = AbstractCached \ {Key(c)}
             /\ Key(c) \in AbstractCached
             /\ AbstractRequests[c] = "remove"
  <2>1. docs' = [docs EXCEPT ![<<Key(c), Main>>] = NoDoc]
    BY <1>c DEF Apply, Removal
  <2>2. AbstractCached' = AbstractCached \ {Key(c)}
    BY <1>a, <2>1, MainIsDocKey DEF AbstractCached, TypeOK
  <2>3. QED
    BY <1>a, <1>c, <2>2, AbstractAt, CachedIffPresent DEF AbstractRequest
<1>1. ASSUME RemoveGet(c)
      PROVE  Cache!Answer(c)
  <2>1. /\ pc[c] = "rmGet" /\ pc'[c] = "rmDoc" /\ UNCHANGED <<docs, late, call, answer>>
        /\ frame'[c].document = DocAt(c, Main) /\ Step(c)
    BY <1>a, <1>1 DEF RemoveGet, TypeOK, Frames, Step
  <2>2. AbstractFound(c)' = (Key(c) \in AbstractCached)
    <3>1. AbstractFound(c)' <=> DocAt(c, Main) # NoDoc
      BY <2>1 DEF AbstractFound
    <3>2. AbstractFound(c)' <=> Key(c) \in AbstractCached
      BY <1>a, <3>1, CachedIffPresent
    <3>3. QED
      BY <3>2 DEF AbstractFound
  <2>3. AbstractRequest(pc'[c]) = "remove" /\ AbstractRequests[c] = "measure"
    BY <2>1, AbstractAt DEF AbstractRequest
  <2>4. UNCHANGED <<AbstractCached, AbstractInDoubt>>
    BY <2>1, SameCache
  <2> DEFINE present == Key(c) \in AbstractCached
  <2>5. AbstractFound(c)' = present /\ present \in BOOLEAN
    BY <2>2
  <2>6. /\ AbstractRequests' = [AbstractRequests EXCEPT ![c] = "remove"]
        /\ AbstractFounds' = [AbstractFounds EXCEPT ![c] = present]
        /\ UNCHANGED <<AbstractKeys, AbstractReplies>>
    <3> HIDE DEF present
    <3>1. QED
      BY <1>a, <2>1, <2>3, <2>5, NextRequest
  <2>7. Cache!Measure(c)
    BY <1>b, <2>3, <2>4, <2>6 DEF Cache!Measure
  <2>8. QED
    BY <2>7 DEF Cache!Answer
<1>2. ASSUME RemoveAbsent(c)
      PROVE  Cache!Answer(c)
  <2>1. Cache!Reply(c, "absent")
    BY <1>a, <1>2, PlainReply DEF RemoveAbsent, AnswerKinds, Step
  <2>2. AbstractRequests[c] = "remove" /\ Key(c) \notin AbstractCached
    BY <1>a, <1>2, AbstractAt, CachedIffPresent DEF RemoveAbsent, AbstractRequest
  <2>3. UNCHANGED <<AbstractCached, AbstractInDoubt>>
    BY <1>2, SameCache DEF RemoveAbsent
  <2>4. QED
    BY <1>b, <2>1, <2>2, <2>3 DEF Cache!Answer, Cache!Absent
<1>3. ASSUME RemoveUnsharded(c)
      PROVE  Cache!Answer(c)
  <2>1. Cache!Reply(c, Cache!Outcome(c))
    BY <1>3, RemovedReply DEF RemoveUnsharded, Step
  <2>2. AbstractInDoubt' = AbstractInDoubt
    BY <1>3 DEF RemoveUnsharded, AbstractInDoubt
  <2>3. QED
    BY <1>b, <1>c, <1>3, <2>1, <2>2
    DEF RemoveUnsharded, Cache!Answer, Cache!Remove
<1>4. ASSUME RemoveManifest(c)
      PROVE  Cache!Answer(c)
  <2>1. /\ pc[c] = "rmDoc" /\ pc'[c] = "rmShard" /\ UNCHANGED <<call, frame, answer, late>>
        /\ Step(c)
    BY <1>a, <1>4 DEF RemoveManifest, Goto, TypeOK, Step
  <2>2. AbstractFound(c)' <=> AbstractFound(c)
    BY <2>1 DEF AbstractFound
  <2>3. AbstractRequest(pc'[c]) = "sweep"
    BY <2>1 DEF AbstractRequest
  <2>4. AbstractFounds' = AbstractFounds /\ AbstractInDoubt' = AbstractInDoubt
    BY <1>a, <2>1, <2>2, SameFounds DEF AbstractInDoubt
  <2>5. AbstractRequests' = [AbstractRequests EXCEPT ![c] = "sweep"]
        /\ UNCHANGED <<AbstractKeys, AbstractReplies>>
    BY <1>a, <2>1, <2>3, NextRequest DEF AbstractFound
  <2>6. QED
    BY <1>b, <1>c, <1>4, <2>4, <2>5 DEF RemoveManifest, Cache!Answer, Cache!Remove
<1>5. ASSUME RemoveShard(c)
      PROVE  Cache!Answer(c) \/ UNCHANGED Cache!cacheVars
  <2>1. docs' = [docs EXCEPT ![<<Key(c), frame[c].next>>] = NoDoc]
    BY <1>5 DEF RemoveShard, Apply, Removal
  <2>2. frame[c].next \in Nat
    BY <1>a DEF TypeOK, Frames
  <2>3. UNCHANGED <<AbstractCached, AbstractInDoubt>>
    BY <1>a, <1>5, <2>1, <2>2, ShardIsNotMain, SameCache DEF RemoveShard
  <2>4. CASE frame[c].next + 1 < frame[c].document.shards
    <3>1. /\ frame' = [frame EXCEPT ![c].next = @ + 1] /\ UNCHANGED <<pc, call, answer>>
          /\ Step(c)
      BY <1>5, <2>4 DEF RemoveShard, Step
    <3>2. frame'[c].document = frame[c].document
      BY <1>a, <3>1 DEF TypeOK, Frames
    <3>3. AbstractFound(c)' <=> AbstractFound(c)
      BY <3>1, <3>2 DEF AbstractFound
    <3>4. QED
      BY <1>a, <2>3, <3>1, <3>3, SameClient DEF Cache!cacheVars
  <2>5. CASE ~(frame[c].next + 1 < frame[c].document.shards)
    <3>1. Cache!Reply(c, Cache!Outcome(c))
      BY <1>5, <2>5, RemovedReply DEF RemoveShard, Step
    <3>2. AbstractRequests[c] = "sweep"
      BY <1>5, AbstractAt DEF RemoveShard, AbstractRequest
    <3>3. QED
      BY <2>3, <3>1, <3>2 DEF Cache!Answer, Cache!Swept
  <2>6. QED
    BY <2>4, <2>5
<1>6. QED
  BY <1>1, <1>2, <1>3, <1>4, <1>5

(* A call that fails may leave its write of the document at its key behind. *)
LEMMA FailIsAbandon ==
    ASSUME Inv, NEW c \in Clients, Fail(c)
    PROVE  Cache!Answer(c)
<1>a. TypeOK /\ Provenance /\ Key(c) \in Keys /\ Step(c) /\ Faults
  BY DEF Inv, Provenance, TypeOK, Calls, Key, Step, Fail
<1>1. Cache!Reply(c, "error")
  BY <1>a, PlainReply DEF Fail, AnswerKinds
<1>2. AbstractCached' = AbstractCached
  BY DEF Fail, AbstractCached
<1>3. pc[c] \in PCs \ {"idle"}
  BY <1>a DEF Fail, TypeOK
<1>4. AbstractRequests[c] # "none" /\ (pc[c] = "put" <=> AbstractRequests[c] = "write")
  BY <1>3, AbstractAt DEF AbstractRequest, PCs
<1>5. PICK lost \in SUBSET UnderWay(c) : late' = late \cup lost
  BY DEF Fail
<1>6. \A m \in lost : m.value # NoDoc => pc[c] = "put" /\ m = NextUpsert(c)
  BY <1>5 DEF UnderWay, Removal
<1>7. pc[c] = "put" => NextUpsert(c).at[1] = Key(c)
  BY <1>a, NextUpsertGood
<1>8. \A k \in Keys : k \in AbstractInDoubt' /\ k \notin AbstractInDoubt
         => pc[c] = "put" /\ k = Key(c)
  BY <1>5, <1>6, <1>7 DEF AbstractInDoubt
<1>9. AbstractInDoubt \subseteq AbstractInDoubt'
  BY <1>5 DEF AbstractInDoubt
<1>10. \/ AbstractInDoubt' = AbstractInDoubt
       \/ AbstractRequests[c] = "write"
          /\ AbstractInDoubt' = AbstractInDoubt \cup {AbstractKeys[c]}
  BY <1>a, <1>4, <1>8, <1>9, AbstractAt DEF AbstractInDoubt
<1>11. Cache!Abandon(c)
  BY <1>a, <1>1, <1>2, <1>4, <1>10 DEF Cache!Abandon
<1>12. QED
  BY <1>11 DEF Cache!Answer

-----------------------------------------------------------------------------
(* The environment.                                                        *)

LEMMA SameClients ==
    ASSUME UNCHANGED <<pc, call, frame, answer>>
    PROVE  UNCHANGED <<AbstractRequests, AbstractKeys, AbstractFounds, AbstractReplies>>
BY DEF AbstractRequests, AbstractKeys, AbstractFounds, AbstractReplies,
   AbstractFound, AbstractReply, HitIsWhole, Reassembles, Key

LEMMA LateIsSettle ==
    ASSUME Inv, NEW m \in late, ApplyLate(m)
    PROVE  \/ \E k \in AbstractInDoubt : Cache!Settle(k)
           \/ \E k \in Keys : Cache!Drop(k)
           \/ UNCHANGED Cache!cacheVars
<1>a. TypeOK /\ m \in Mutations /\ m.at \in DocKeys
  BY DEF Inv, Provenance, TypeOK, Mutations
<1>b. /\ docs' = [docs EXCEPT ![m.at] = m.value] /\ late' = late \ {m}
      /\ UNCHANGED <<AbstractRequests, AbstractKeys, AbstractFounds, AbstractReplies>>
  BY SameClients DEF ApplyLate, Apply
<1>1. PICK k \in Keys, i \in Main .. MaxShards - 1 : m.at = <<k, i>>
  BY <1>a DEF DocKeys
<1>2. CASE i # Main
  <2>1. \A j \in Keys : docs'[<<j, Main>>] = docs[<<j, Main>>]
    BY <1>a, <1>b, <1>1, <1>2, MainIsDocKey DEF TypeOK
  <2>2. UNCHANGED <<AbstractCached, AbstractInDoubt>>
    BY <1>b, <1>1, <1>2, <2>1 DEF AbstractCached, AbstractInDoubt
  <2>3. QED
    BY <1>b, <2>2 DEF Cache!cacheVars
<1>3. CASE i = Main /\ m.value # NoDoc
  <2>1. k \in AbstractInDoubt
    BY <1>1, <1>3 DEF AbstractInDoubt
  <2>2. AbstractCached' = AbstractCached \cup {k}
    BY <1>a, <1>b, <1>1, <1>3, MainIsDocKey DEF AbstractCached, TypeOK
  <2>3. AbstractInDoubt' \in {AbstractInDoubt, AbstractInDoubt \ {k}}
    <3>1. AbstractInDoubt' \subseteq AbstractInDoubt
      BY <1>b DEF AbstractInDoubt
    <3>2. AbstractInDoubt \ {k} \subseteq AbstractInDoubt'
      BY <1>b, <1>1, <1>3 DEF AbstractInDoubt
    <3>3. QED
      BY <3>1, <3>2
  <2>4. QED
    BY <1>b, <2>1, <2>2, <2>3 DEF Cache!Settle
<1>4. CASE i = Main /\ m.value = NoDoc
  <2>1. ~Reliable
    BY <1>4 DEF Inv, ShardsFirst
  <2>2. AbstractCached' = AbstractCached \ {k}
    BY <1>a, <1>b, <1>1, <1>4, MainIsDocKey DEF AbstractCached, TypeOK
  <2>3. AbstractInDoubt' = AbstractInDoubt
    BY <1>b, <1>4 DEF AbstractInDoubt
  <2>4. QED
    BY <1>b, <2>1, <2>2, <2>3 DEF Cache!Drop
<1>5. QED
  BY <1>2, <1>3, <1>4

LEMMA LossIsDrop ==
    ASSUME Inv, NEW d \in DocKeys, Lose(d)
    PROVE  (\E k \in Keys : Cache!Drop(k)) \/ UNCHANGED Cache!cacheVars
<1>a. /\ TypeOK /\ docs' = [docs EXCEPT ![d] = NoDoc]
      /\ AbstractInDoubt' = AbstractInDoubt
      /\ UNCHANGED <<AbstractRequests, AbstractKeys, AbstractFounds, AbstractReplies>>
  BY SameClients DEF Lose, Inv, Provenance, AbstractInDoubt
<1>1. PICK k \in Keys, i \in Main .. MaxShards - 1 : d = <<k, i>>
  BY DEF DocKeys
<1>2. CASE i # Main
  <2>1. \A j \in Keys : docs'[<<j, Main>>] = docs[<<j, Main>>]
    BY <1>a, <1>1, <1>2, MainIsDocKey DEF TypeOK
  <2>2. AbstractCached' = AbstractCached
    BY <2>1 DEF AbstractCached
  <2>3. QED
    BY <1>a, <2>2 DEF Cache!cacheVars
<1>3. CASE i = Main
  <2>1. AbstractCached' = AbstractCached \ {k}
    BY <1>a, <1>1, <1>3, MainIsDocKey DEF AbstractCached, TypeOK
  <2>2. ~Reliable
    BY DEF Lose, Reliable
  <2>3. QED
    BY <1>a, <2>1, <2>2 DEF Cache!Drop
<1>4. QED
  BY <1>2, <1>3

LEMMA StepIsCacheStep ==
    ASSUME UniformShardSize, ContentAddressed, NoEmptyPayload, Inv, NoTornRead',
           [Next]_vars
    PROVE  [Cache!Next]_(Cache!cacheVars)
<1>1. ASSUME NEW c \in Clients, Request(c)
      PROVE  Cache!Next
  BY <1>1, RequestIsBegin DEF Cache!Next
<1>2. ASSUME NEW c \in Clients, Step(c)
      PROVE  Cache!Answer(c) \/ UNCHANGED Cache!cacheVars
  BY <1>2, StoreSteps, PutSteps, GetSteps, RemoveSteps, FailIsAbandon DEF Step
<1>3. ASSUME NEW m \in late, ApplyLate(m)
      PROVE  [Cache!Next]_(Cache!cacheVars)
  BY <1>3, LateIsSettle DEF Cache!Next
<1>4. ASSUME NEW d \in DocKeys, Lose(d)
      PROVE  [Cache!Next]_(Cache!cacheVars)
  BY <1>4, LossIsDrop DEF Cache!Next
<1>5. CASE UNCHANGED vars
  <2>1. UNCHANGED <<AbstractCached, AbstractInDoubt>>
    BY <1>5 DEF vars, AbstractCached, AbstractInDoubt
  <2>2. QED
    BY <1>5, <2>1, SameClients DEF vars, Cache!cacheVars
<1>6. ASSUME NEW c \in Clients, Step(c)
      PROVE  [Cache!Next]_(Cache!cacheVars)
  BY <1>2, <1>6 DEF Cache!Next
<1>7. QED
  BY <1>1, <1>3, <1>4, <1>5, <1>6 DEF Next

LEMMA InitIsCacheInit == Init => Cache!Init
<1> SUFFICES ASSUME Init
             PROVE  Cache!Init
  OBVIOUS
<1>1. AbstractCached = {} /\ AbstractInDoubt = {}
  BY MainIsDocKey DEF Init, AbstractCached, AbstractInDoubt
<1>2. \A c \in Clients : Key(c) \in Keys
  BY DEF Init, Key
<1>3. AbstractKeys \in [Clients -> Keys]
  BY <1>2 DEF AbstractKeys
<1>4. ASSUME NEW c \in Clients
      PROVE  /\ AbstractRequest(pc[c]) = "none"
             /\ AbstractFound(c) = FALSE
             /\ AbstractReply(c) = "none"
  BY DEF Init, AbstractRequest, AbstractFound, AbstractReply, NoAnswer, Answer
<1>5. /\ AbstractRequests = [c \in Clients |-> "none"]
      /\ AbstractFounds = [c \in Clients |-> FALSE]
      /\ AbstractReplies = [c \in Clients |-> "none"]
  BY <1>4 DEF AbstractRequests, AbstractFounds, AbstractReplies
<1>6. QED
  BY <1>1, <1>3, <1>5 DEF Cache!Init

(* With one shard size on all servers and content-addressed keys, the store *)
(* implements ChunkCache, whether or not documents are lost, removed, or    *)
(* written late: chunks appear whole in one step, a hit is for a chunk that *)
(* was cached during the call, and without losses and removals a cached     *)
(* chunk stays and is not missed.                                           *)
THEOREM StoreImplementsChunkCache ==
    ASSUME UniformShardSize, ContentAddressed, NoEmptyPayload
    PROVE  Spec => ImplementsChunkCache
<1>1. Init => Inv
  <2> SUFFICES ASSUME Init
               PROVE  Inv
    OBVIOUS
  <2>1. Provenance
    BY InitProvenance
  <2>2. PartsOK /\ NoTornRead
    BY DEF Init, PartsOK, NoTornRead, NoAnswer, Answer
  <2>3. QED
    BY <2>1, <2>2, InitShardsFirst DEF Inv
<1>2. Inv /\ [Next]_vars => Inv'
  <2> SUFFICES ASSUME Inv, [Next]_vars
               PROVE  Inv'
    OBVIOUS
  <2>1. Provenance' /\ PartsOK' /\ NoTornRead'
    BY StepKeepsProvenance, StepKeepsReads DEF Inv
  <2>2. Reliable => ShardsFirst'
    BY StepKeepsShardsFirst DEF Inv
  <2>3. QED
    BY <2>1, <2>2 DEF Inv, Reliable
<1>3. Inv /\ Inv' /\ [Next]_vars => [Cache!Next]_(Cache!cacheVars)
  BY StepIsCacheStep DEF Inv
<1>4. QED
  BY <1>1, <1>2, <1>3, InitIsCacheInit, PTL
  DEF Spec, ImplementsChunkCache, Cache!Spec
=============================================================================
