--------------------------- MODULE ConnectorProofs ---------------------------
(***************************************************************************)
(* Proofs about CouchbaseConnector: whatever calls are made, fail, and are *)
(* closed under way, every buffer is in one place and holds the chunk its  *)
(* owner asked for.  And about the settings it starts from: what           *)
(* ConfigResolution says of how they are given holds for every value and   *)
(* every plugin name.                                                      *)
(***************************************************************************)
EXTENDS MCConnector, FiniteSetTheorems, SequenceTheorems, TLAPS

OnlyFetched(result) ==
    \A i \in DOMAIN result : result[i] \in Buffers \cup {"absent"}

(* Calls are numbered in order, and have a result only once they returned. *)
CallsOK ==
    /\ \E n \in 0 .. MaxCalls : Made = 1 .. n
    /\ \A c \in CallIds :
          /\ Phase(c) = "none" => call[c] = NoCall
          /\ Phase(c) # "none" => Kind(c) \in LoopKinds \cup ThreadKinds
          /\ Phase(c) # "returned" => call[c].result = <<>>
          /\ Kind(c) \in Fetches => OnlyFetched(call[c].result)
          /\ Len(call[c].result) <= Len(call[c].keys)
          /\ Len(call[c].keys) <= MaxKeys

Started(c) == Phase(c) \in {"running", "returned", "raised"}

IsJob(j) == j \in Jobs /\ j[2] \in Indices(j[1]) /\ Started(j[1])

(* What is queued, under way at the store or answered is a job of a call.  *)
JobsOK ==
    /\ \A n \in DOMAIN queue : queue[n] # CloseJob => IsJob(queue[n])
    /\ \A j \in Jobs : request[j] # "none" \/ reply[j] # "none" => IsJob(j)

(* What a get came to is passed on when, and only when, its call returns.  *)
FetchesOK == \A j \in Jobs :
    /\ got[j] # "none" => IsJob(j) /\ Kind(j[1]) \in Fetches
    /\ got[j] = "passed on" => Phase(j[1]) = "returned"
    /\ IsJob(j) /\ Kind(j[1]) \in Fetches /\ Phase(j[1]) = "returned"
          => got[j] \notin Buffers \cup {"none"}
    /\ Kind(j[1]) = "prefetch" => Phase(j[1]) # "raised"

(* Who has a buffer finds the chunk there that it asked for.               *)
ContentsOK == \A j \in Jobs, b \in Buffers : Has(j, b) => content[b] = KeyOf(j)

Inv ==
    /\ TypeOK
    /\ CallsOK
    /\ JobsOK
    /\ FetchesOK
    /\ BuffersAccounted
    /\ ContentsOK

-----------------------------------------------------------------------------
(* The store, as the jobs see it.                                          *)

StoreTypeOK ==
    /\ cached \subseteq Keys /\ inDoubt \subseteq Keys
    /\ request \in [Jobs -> Store!Requests \cup {"none", "remove", "sweep"}]
    /\ key \in [Jobs -> Keys]
    /\ found \in [Jobs -> BOOLEAN]
    /\ reply \in [Jobs -> Store!Replies]

(* Only the jobs in js have another request or reply.                      *)
OnlyJobs(js) ==
    \A j \in Jobs \ js : request'[j] = request[j] /\ reply'[j] = reply[j]

LEMMA ReplyEffect ==
    ASSUME StoreTypeOK, NEW j \in Jobs, NEW outcome \in Store!Replies,
           Store!Reply(j, outcome)
    PROVE  /\ request' \in [Jobs -> Store!Requests \cup {"none", "remove", "sweep"}]
           /\ found' \in [Jobs -> BOOLEAN]
           /\ reply' \in [Jobs -> Store!Replies]
           /\ key' = key
           /\ OnlyJobs({j})
BY DEF StoreTypeOK, Store!Reply, OnlyJobs

LEMMA AnswerEffect ==
    ASSUME StoreTypeOK, NEW j \in Jobs, Store!Answer(j)
    PROVE  /\ StoreTypeOK'
           /\ OnlyJobs({j})
           /\ request[j] # "none"
<1>1. CASE Store!Present(j) \/ Store!Tell(j) \/ Store!Hit(j) \/ Store!Miss(j)
           \/ Store!Absent(j)
  <2>1. PICK outcome \in Store!Replies : Store!Reply(j, outcome)
    BY <1>1 DEF Store!Present, Store!Tell, Store!Hit, Store!Miss, Store!Absent,
       Store!Replies
  <2>2. request[j] # "none" /\ UNCHANGED <<cached, inDoubt>>
    BY <1>1 DEF Store!Present, Store!Tell, Store!Hit, Store!Miss, Store!Absent
  <2>3. QED
    BY <2>1, <2>2, ReplyEffect DEF StoreTypeOK
<1>2. CASE Store!Commit(j)
  <2>1. Store!Reply(j, "stored") /\ "stored" \in Store!Replies
    BY <1>2 DEF Store!Commit, Store!Replies
  <2>2. QED
    BY <1>2, <2>1, ReplyEffect DEF StoreTypeOK, Store!Commit
<1>3. CASE Store!Lacking(j) \/ Store!Find(j) \/ Store!Measure(j)
  <2>1. found' \in [Jobs -> BOOLEAN]
    <3>1. CASE Store!Lacking(j) \/ Store!Find(j)
      BY <3>1 DEF Store!Lacking, Store!Find, StoreTypeOK
    <3>2. CASE Store!Measure(j)
      <4>1. (key[j] \in cached) \in BOOLEAN
        OBVIOUS
      <4> DEFINE b == key[j] \in cached
      <4>2. found' = [found EXCEPT ![j] = b] /\ found \in [Jobs -> BOOLEAN]
        BY <3>2 DEF Store!Measure, StoreTypeOK
      <4>3. b \in BOOLEAN
        BY <4>1
      <4> HIDE DEF b
      <4>4. QED
        BY <4>2, <4>3
    <3>3. QED
      BY <1>3, <3>1, <3>2
  <2>2. PICK next \in Store!Requests \cup {"remove"} :
           request' = request \/ request' = [request EXCEPT ![j] = next]
    BY <1>3 DEF Store!Lacking, Store!Find, Store!Measure, Store!Requests
  <2>3. request[j] # "none" /\ UNCHANGED <<cached, inDoubt, key, reply>>
    BY <1>3 DEF Store!Lacking, Store!Find, Store!Measure
  <2>4. QED
    BY <2>1, <2>2, <2>3 DEF StoreTypeOK, OnlyJobs
<1>4. CASE Store!Remove(j) \/ Store!Swept(j)
  <2>1. Store!Outcome(j) \in Store!Replies
    BY DEF Store!Outcome, Store!Replies
  <2>2. CASE Store!Reply(j, Store!Outcome(j))
    BY <1>4, <2>1, <2>2, ReplyEffect DEF StoreTypeOK, Store!Remove, Store!Swept
  <2>3. CASE ~Store!Reply(j, Store!Outcome(j))
    BY <1>4, <2>3 DEF StoreTypeOK, OnlyJobs, Store!Remove, Store!Swept
  <2>4. QED
    BY <2>2, <2>3
<1>5. CASE Store!Abandon(j)
  <2>1. Store!Reply(j, "error") /\ "error" \in Store!Replies
    BY <1>5 DEF Store!Abandon, Store!Replies
  <2>2. request[j] # "none" /\ cached' = cached /\ inDoubt' \subseteq Keys
    BY <1>5 DEF StoreTypeOK, Store!Abandon
  <2>3. QED
    BY <2>1, <2>2, ReplyEffect DEF StoreTypeOK
<1>6. QED
  BY <1>1, <1>2, <1>3, <1>4, <1>5 DEF Store!Answer

LEMMA RefuseEffect ==
    ASSUME StoreTypeOK, NEW js, Refuse(js)
    PROVE  StoreTypeOK' /\ OnlyJobs(js)
BY DEF StoreTypeOK, Refuse, OnlyJobs, Store!Replies

LEMMA BeginEffect ==
    ASSUME TypeOK, StoreTypeOK, NEW j, IsJob(j),
           Kind(j[1]) \in LoopKinds \cup ThreadKinds, BeginJob(j)
    PROVE  StoreTypeOK' /\ OnlyJobs({j})
<1>1. CASE StoreClosed
  BY <1>1, RefuseEffect DEF BeginJob
<1>2. CASE ~StoreClosed
  <2> DEFINE r == RequestOf(Kind(j[1]))
  <2>1. r \in Store!Requests
    BY DEF RequestOf, Fetches, LoopKinds, ThreadKinds, Store!Requests
  <2>2. j \in Jobs /\ KeyOf(j) \in Keys
    <3>1. j[1] \in CallIds /\ j[2] \in DOMAIN call[j[1]].keys
      BY DEF IsJob, Indices, Jobs
    <3>2. call[j[1]].keys \in Seq(Keys)
      BY <3>1 DEF TypeOK
    <3>3. QED
      BY <3>1, <3>2 DEF IsJob, KeyOf
  <2>3. Store!Begin(j, r, KeyOf(j))
    BY <1>2 DEF BeginJob
  <2> HIDE DEF r
  <2>4. QED
    BY <2>1, <2>2, <2>3 DEF StoreTypeOK, OnlyJobs, Store!Begin, Store!Replies
<1>3. QED
  BY <1>1, <1>2

-----------------------------------------------------------------------------
(* The calls.                                                              *)

Records == [kind : LoopKinds \cup ThreadKinds \cup {"none"}, keys : Seq(Keys),
            phase : Phases, result : Seq(Keys \cup Buffers \cup {"absent"})]

LocalTypeOK ==
    /\ call \in [CallIds -> Records]
    /\ queue \in Seq(Jobs \cup {CloseJob})
    /\ running \subseteq Jobs
    /\ got \in [Jobs -> Buffers \cup {"none", "absent", "raised", "passed on"}]
    /\ free \subseteq Buffers
    /\ content \in [Buffers -> Keys \cup {Nothing}]
    /\ closer \in {"open", "queued", "store closed", "draining", "closed"}

LEMMA TypeParts == TypeOK <=> StoreTypeOK /\ LocalTypeOK
BY DEF TypeOK, StoreTypeOK, LocalTypeOK, Records

(* A call goes on to another phase, perhaps with a result.                 *)
LEMMA BecomeKeeps ==
    ASSUME TypeOK, CallsOK, NEW c \in CallIds, Phase(c) # "none",
           NEW phase \in Phases \ {"none"},
           NEW result \in Seq(Keys \cup Buffers \cup {"absent"}),
           phase # "returned" => result = <<>>,
           Kind(c) \in Fetches => OnlyFetched(result),
           Len(result) <= Len(call[c].keys),
           Become(c, phase, result)
    PROVE  /\ call' \in [CallIds -> Records]
           /\ CallsOK'
           /\ Phase(c)' = phase /\ call'[c].result = result
           /\ \A d \in CallIds : Kind(d)' = Kind(d) /\ call'[d].keys = call[d].keys
           /\ \A d \in CallIds \ {c} : call'[d] = call[d]
           /\ \A j \in Jobs : KeyOf(j)' = KeyOf(j)
           /\ \A j \in Jobs : IsJob(j) /\ phase # "submitted" => IsJob(j)'
           /\ \A j \in Jobs : IsJob(j)' /\ j[1] # c => IsJob(j)
<1>a. call \in [CallIds -> Records]
  BY TypeParts DEF LocalTypeOK
<1>b. Kind(c) \in LoopKinds \cup ThreadKinds /\ call[c].keys \in Seq(Keys)
  BY <1>a DEF CallsOK, Records
<1>1. /\ call'[c] = [kind |-> Kind(c), keys |-> call[c].keys,
                     phase |-> phase, result |-> result]
      /\ \A d \in CallIds \ {c} : call'[d] = call[d]
  BY <1>a DEF Become
<1>2. call' \in [CallIds -> Records]
  BY <1>a, <1>b DEF Become, Records
<1>3. \A d \in CallIds : /\ Kind(d)' = Kind(d) /\ call'[d].keys = call[d].keys
                         /\ d # c => Phase(d)' = Phase(d)
  BY <1>1 DEF Kind, Phase
<1>4. Phase(c)' = phase /\ call'[c].result = result
  BY <1>1 DEF Phase
<1>5. Made' = Made
  BY <1>3, <1>4 DEF Made
<1>6. CallsOK'
  BY <1>1, <1>3, <1>4, <1>5, <1>b DEF CallsOK
<1>7. \A j \in Jobs : KeyOf(j)' = KeyOf(j)
  BY <1>3 DEF KeyOf, Jobs
<1>8. \A j \in Jobs : IsJob(j) /\ phase # "submitted" => IsJob(j)'
  BY <1>3, <1>4 DEF IsJob, Started, Indices, Jobs, Phases
<1>9. \A j \in Jobs : IsJob(j)' /\ j[1] # c => IsJob(j)
  BY <1>3 DEF IsJob, Started, Indices, Jobs
<1>10. QED
  BY <1>1, <1>2, <1>3, <1>4, <1>6, <1>7, <1>8, <1>9

(* The next call has the number after the last.                            *)
LEMMA NextCall ==
    ASSUME CallsOK
    PROVE  LET c == Cardinality(Made) + 1
           IN  c \in CallIds => Phase(c) = "none" /\ call[c] = NoCall
<1>1. PICK n \in 0 .. MaxCalls : Made = 1 .. n
  BY DEF CallsOK
<1>2. Cardinality(1 .. n) = n
  BY FS_Interval, MaxCallsAssumption
<1>3. n + 1 \in CallIds => n + 1 \notin Made
  BY <1>1, MaxCallsAssumption
<1>4. QED
  BY <1>1, <1>2, <1>3 DEF Made, CallsOK

-----------------------------------------------------------------------------
(* Steps of the pool, the threads and the store.                           *)

(* Whatever moves neither calls nor buffers.                               *)
LEMMA SameCalls ==
    ASSUME Inv, UNCHANGED <<call, got, free, content>>, StoreTypeOK',
           queue' \in Seq(Jobs \cup {CloseJob}), running' \subseteq Jobs,
           closer' \in {"open", "queued", "store closed", "draining", "closed"},
           \A n \in DOMAIN queue' : queue'[n] # CloseJob =>
              \E m \in DOMAIN queue : queue'[n] = queue[m],
           NEW js, OnlyJobs(js), \A j \in js : IsJob(j)
    PROVE  Inv'
<1>1. TypeOK'
  BY DEF Inv, TypeOK, StoreTypeOK
<1>2. CallsOK'
  BY DEF Inv, CallsOK, Made, Phase, Kind
<1>3. \A j : IsJob(j)' <=> IsJob(j)
  BY DEF IsJob, Started, Phase, Indices
<1>4. JobsOK'
  <2>1. \A n \in DOMAIN queue' : queue'[n] # CloseJob => IsJob(queue'[n])
    BY DEF Inv, JobsOK
  <2>2. \A j \in Jobs : request'[j] # "none" \/ reply'[j] # "none" => IsJob(j)
    BY DEF Inv, JobsOK, OnlyJobs
  <2>3. QED
    BY <2>1, <2>2 DEF JobsOK, IsJob, Started, Phase, Indices
<1>5. FetchesOK'
  BY <1>3 DEF Inv, FetchesOK, Kind, Phase
<1>6. \A j, b : (Has(j, b)' <=> Has(j, b)) /\ KeyOf(j)' = KeyOf(j)
  BY DEF Has, KeyOf
<1>7. BuffersAccounted'
  BY <1>6 DEF Inv, BuffersAccounted
<1>8. ContentsOK'
  BY <1>6 DEF Inv, ContentsOK
<1>9. QED
  BY <1>1, <1>2, <1>4, <1>5, <1>7, <1>8 DEF Inv

(* The queue is taken from the front.                                      *)
LEMMA QueueFront ==
    ASSUME NEW S, NEW q \in Seq(S), q # <<>>
    PROVE  /\ 1 \in DOMAIN q /\ Head(q) = q[1]
           /\ Tail(q) \in Seq(S)
           /\ \A n \in DOMAIN Tail(q) : n + 1 \in DOMAIN q /\ Tail(q)[n] = q[n + 1]
<1>1. Len(q) \in Nat /\ Len(q) # 0 /\ DOMAIN q = 1 .. Len(q)
  BY EmptySeq
<1>2. /\ Tail(q) \in Seq(S) /\ Len(Tail(q)) = Len(q) - 1
      /\ \A i \in 1 .. Len(Tail(q)) : Tail(q)[i] = q[i + 1]
  BY HeadTailProperties
<1>3. DOMAIN Tail(q) = 1 .. Len(q) - 1
  BY <1>2
<1>4. QED
  BY <1>1, <1>2, <1>3

(* A job of a started call has a kind and a key.                           *)
LEMMA JobKind ==
    ASSUME Inv, NEW j, IsJob(j)
    PROVE  /\ j[1] \in CallIds
           /\ Kind(j[1]) \in LoopKinds \cup ThreadKinds
           /\ Phase(j[1]) # "none"
<1>1. j[1] \in CallIds /\ Phase(j[1]) # "none"
  BY DEF IsJob, Jobs, Started
<1>2. QED
  BY <1>1 DEF Inv, CallsOK

LEMMA CloseSteps ==
    ASSUME Inv, Close \/ CloseStore \/ CloseShutdown \/ CloseReturns
    PROVE  Inv'
<1>a. /\ queue \in Seq(Jobs \cup {CloseJob}) /\ running \subseteq Jobs /\ StoreTypeOK
      /\ UNCHANGED <<call, got, free, content, storeVars, running>>
  BY TypeParts DEF Inv, LocalTypeOK, Close, CloseStore, CloseShutdown, CloseReturns,
     bufferVars, poolVars
<1>b. StoreTypeOK' /\ OnlyJobs({})
  BY <1>a DEF StoreTypeOK, OnlyJobs, storeVars
<1>1. CASE Close
  <2>1. queue' = Append(queue, CloseJob) /\ closer' = "queued"
    BY <1>1 DEF Close
  <2>2. /\ queue' \in Seq(Jobs \cup {CloseJob})
        /\ \A n \in DOMAIN queue' : queue'[n] # CloseJob =>
              n \in DOMAIN queue /\ queue'[n] = queue[n]
    BY <1>a, <2>1
  <2>3. QED
    BY <1>a, <1>b, <2>1, <2>2, SameCalls
<1>2. CASE CloseStore
  <2>1. queue # <<>> /\ queue' = Tail(queue) /\ closer' = "store closed"
    BY <1>2 DEF CloseStore
  <2>2. /\ queue' \in Seq(Jobs \cup {CloseJob})
        /\ \A n \in DOMAIN queue' : n + 1 \in DOMAIN queue /\ queue'[n] = queue[n + 1]
    BY <1>a, <2>1, QueueFront
  <2>3. QED
    BY <1>a, <1>b, <2>1, <2>2, SameCalls
<1>3. CASE CloseShutdown \/ CloseReturns
  <2>1. UNCHANGED queue /\ closer' \in {"draining", "closed"}
    BY <1>3 DEF CloseShutdown, CloseReturns, poolVars
  <2>2. QED
    BY <1>a, <1>b, <2>1, SameCalls
<1>4. QED
  BY <1>1, <1>2, <1>3

LEMMA HeadIsJob ==
    ASSUME Inv, TakeJob
    PROVE  IsJob(Head(queue))
<1>1. queue \in Seq(Jobs \cup {CloseJob}) /\ queue # <<>>
  BY TypeParts DEF Inv, LocalTypeOK, TakeJob
<1>2. Head(queue) = queue[1] /\ 1 \in DOMAIN queue /\ Head(queue) # CloseJob
  BY <1>1, QueueFront DEF TakeJob
<1>3. QED
  BY <1>2 DEF Inv, JobsOK

LEMMA TakeJobStep ==
    ASSUME Inv, TakeJob
    PROVE  Inv'
<1> DEFINE j == Head(queue)
<1>a. /\ queue \in Seq(Jobs \cup {CloseJob}) /\ queue # <<>> /\ running \subseteq Jobs
      /\ StoreTypeOK /\ TypeOK
      /\ UNCHANGED <<call, got, free, content, closer>>
      /\ closer \in {"open", "queued", "store closed", "draining", "closed"}
  BY TypeParts DEF Inv, LocalTypeOK, TakeJob, bufferVars
<1>2. IsJob(j)
  BY HeadIsJob
<1>3. StoreTypeOK' /\ OnlyJobs({j})
  BY <1>a, <1>2, JobKind, BeginEffect DEF TakeJob
<1>4. running' \subseteq Jobs
  BY <1>a, <1>2 DEF TakeJob, IsJob
<1>5. /\ queue' \in Seq(Jobs \cup {CloseJob})
      /\ \A n \in DOMAIN queue' : n + 1 \in DOMAIN queue /\ queue'[n] = queue[n + 1]
  BY <1>a, QueueFront DEF TakeJob
<1>6. QED
  BY <1>a, <1>2, <1>3, <1>4, <1>5, SameCalls

LEMMA WorkStep ==
    ASSUME Inv, NEW j \in Jobs, Work(j)
    PROVE  Inv'
<1>a. /\ queue \in Seq(Jobs \cup {CloseJob}) /\ running \subseteq Jobs
      /\ StoreTypeOK
      /\ UNCHANGED <<call, queue, got, free, content, closer>>
      /\ closer \in {"open", "queued", "store closed", "draining", "closed"}
  BY TypeParts DEF Inv, LocalTypeOK, Work, bufferVars
<1>1. StoreTypeOK' /\ OnlyJobs({j}) /\ request[j] # "none"
  BY <1>a, AnswerEffect DEF Work
<1>2. IsJob(j)
  BY <1>1 DEF Inv, JobsOK
<1>3. running' \subseteq Jobs
  BY <1>a DEF Work
<1>4. QED
  BY <1>a, <1>1, <1>2, <1>3, SameCalls

LEMMA OthersStep ==
    ASSUME Inv, Others
    PROVE  Inv'
<1>a. /\ queue \in Seq(Jobs \cup {CloseJob}) /\ running \subseteq Jobs
      /\ StoreTypeOK
      /\ UNCHANGED <<call, queue, running, got, free, content, closer>>
      /\ closer \in {"open", "queued", "store closed", "draining", "closed"}
  BY TypeParts DEF Inv, LocalTypeOK, Others, bufferVars, poolVars
<1>1. /\ cached' \subseteq Keys /\ inDoubt' \subseteq Keys
      /\ UNCHANGED <<request, key, found, reply>>
  BY <1>a DEF Others, StoreTypeOK, Store!Drop, Store!Settle
<1>2. StoreTypeOK' /\ OnlyJobs({})
  BY <1>a, <1>1 DEF StoreTypeOK, OnlyJobs
<1>3. QED
  BY <1>a, <1>2, SameCalls

(* The keys of a call are finitely many.                                   *)
LEMMA IndicesFinite ==
    ASSUME Inv, NEW c \in CallIds
    PROVE  /\ call[c].keys \in Seq(Keys)
           /\ Indices(c) = 1 .. Len(call[c].keys)
           /\ Len(call[c].keys) \in 0 .. MaxKeys
           /\ IsFiniteSet(Indices(c))
           /\ Cardinality(Indices(c)) = Len(call[c].keys)
           /\ \A i \in Indices(c) : <<c, i>> \in Jobs
<1>1. call[c].keys \in Seq(Keys) /\ Len(call[c].keys) <= MaxKeys
  BY TypeParts DEF Inv, LocalTypeOK, Records, CallsOK
<1>2. Indices(c) = 1 .. Len(call[c].keys) /\ Len(call[c].keys) \in Nat
  BY <1>1 DEF Indices
<1>3. IsFiniteSet(Indices(c)) /\ Cardinality(Indices(c)) = Len(call[c].keys)
  BY <1>2, FS_Interval
<1>4. QED
  BY <1>1, <1>2, <1>3, CallsAssumption DEF Jobs

LEMMA ProbeIsJob ==
    ASSUME Inv, NEW c \in CallIds, Probe(c)
    PROVE  IsJob(<<c, Cardinality(Probed(c)) + 1>>)
<1> DEFINE i == Cardinality(Probed(c)) + 1
<1>1. Probed(c) \in SUBSET Indices(c) /\ Probed(c) # Indices(c)
  BY DEF Probe, ProbeOver, Probed
<1>2. i \in Indices(c)
  <2>1. /\ IsFiniteSet(Probed(c))
        /\ Cardinality(Probed(c)) <= Len(call[c].keys)
        /\ Cardinality(Probed(c)) # Len(call[c].keys)
    BY <1>1, IndicesFinite, FS_Subset
  <2>2. Cardinality(Probed(c)) \in Nat
    BY <2>1, FS_CardinalityType
  <2>3. QED
    BY <2>1, <2>2, IndicesFinite, CallsAssumption
<1>3. QED
  BY <1>2, IndicesFinite DEF IsJob, Started, Probe, Probing

LEMMA ProbeStep ==
    ASSUME Inv, NEW c \in CallIds, Probe(c)
    PROVE  Inv'
<1> DEFINE i == Cardinality(Probed(c)) + 1
<1>a. /\ queue \in Seq(Jobs \cup {CloseJob}) /\ running \subseteq Jobs
      /\ StoreTypeOK /\ TypeOK
      /\ UNCHANGED <<call, queue, running, got, free, content, closer>>
      /\ closer \in {"open", "queued", "store closed", "draining", "closed"}
  BY TypeParts DEF Inv, LocalTypeOK, Probe, bufferVars, poolVars
<1>3. IsJob(<<c, i>>)
  BY ProbeIsJob
<1>4. StoreTypeOK' /\ OnlyJobs({<<c, i>>})
  BY <1>a, <1>3, JobKind, BeginEffect DEF Probe
<1>5. QED
  BY <1>a, <1>3, <1>4, SameCalls

-----------------------------------------------------------------------------
(* Calls are submitted, start, raise and return.                           *)

(* A call goes on without a result, and its buffers stay where they are.   *)
LEMMA BecomeQuietly ==
    ASSUME Inv, NEW c \in CallIds, Phase(c) \in {"submitted", "running"},
           NEW phase \in {"running", "returned", "raised"},
           NEW result \in Seq(Keys),
           phase # "returned" => result = <<>>,
           phase = "returned" => Kind(c) \notin Fetches,
           phase = "raised" => Kind(c) # "prefetch",
           Len(result) <= Len(call[c].keys),
           Become(c, phase, result),
           UNCHANGED <<got, free, content>>
    PROVE  /\ call' \in [CallIds -> Records]
           /\ CallsOK'
           /\ \A j \in Jobs : IsJob(j) => IsJob(j)'
           /\ \A i \in Indices(c) : IsJob(<<c, i>>)'
           /\ FetchesOK'
           /\ BuffersAccounted'
           /\ ContentsOK'
<1>a. /\ phase \in Phases \ {"none"}
      /\ result \in Seq(Keys \cup Buffers \cup {"absent"})
      /\ Phase(c) # "none" /\ TypeOK /\ CallsOK
      /\ Kind(c) \in Fetches => OnlyFetched(result)
  BY SeqMonotonic, EmptySeq DEF Phases, Inv, OnlyFetched
<1>1. /\ call' \in [CallIds -> Records]
      /\ CallsOK'
      /\ Phase(c)' = phase /\ call'[c].result = result
      /\ \A d \in CallIds : Kind(d)' = Kind(d) /\ call'[d].keys = call[d].keys
      /\ \A d \in CallIds \ {c} : call'[d] = call[d]
      /\ \A j \in Jobs : KeyOf(j)' = KeyOf(j)
      /\ \A j \in Jobs : IsJob(j) => IsJob(j)'
      /\ \A j \in Jobs : IsJob(j)' /\ j[1] # c => IsJob(j)
  BY <1>a, BecomeKeeps
<1>2. \A i \in Indices(c) : IsJob(<<c, i>>)'
  BY <1>1, IndicesFinite DEF IsJob, Started, Indices
<1>3. FetchesOK'
  <2> SUFFICES ASSUME NEW j \in Jobs
               PROVE  /\ got'[j] # "none" => IsJob(j)' /\ Kind(j[1])' \in Fetches
                      /\ got'[j] = "passed on" => Phase(j[1])' = "returned"
                      /\ IsJob(j)' /\ Kind(j[1])' \in Fetches /\ Phase(j[1])' = "returned"
                            => got'[j] \notin Buffers \cup {"none"}
                      /\ Kind(j[1])' = "prefetch" => Phase(j[1])' # "raised"
    BY DEF FetchesOK
  <2>1. j[1] \in CallIds
    BY DEF Jobs
  <2>2. CASE j[1] = c
    BY <1>1, <2>1, <2>2 DEF Inv, FetchesOK
  <2>3. CASE j[1] # c
    <3>1. Phase(j[1])' = Phase(j[1])
      BY <1>1, <2>1, <2>3 DEF Phase
    <3>2. QED
      BY <1>1, <2>1, <2>3, <3>1 DEF Inv, FetchesOK
  <2>4. QED
    BY <2>2, <2>3
<1>4. \A j \in Jobs, b \in Buffers : Has(j, b)' <=> Has(j, b)
  <2> SUFFICES ASSUME NEW j \in Jobs, NEW b \in Buffers
               PROVE  Has(j, b)' <=> Has(j, b)
    OBVIOUS
  <2>1. j[1] \in CallIds
    BY DEF Jobs
  <2>2. CASE j[1] = c
    <3>1. call[c].result = <<>>
      BY DEF Inv, CallsOK
    <3>2. \A n \in DOMAIN result : result[n] # b
      <4>1. \A n \in DOMAIN result : result[n] \in Keys
        OBVIOUS
      <4>2. b \notin Keys
        BY BuffersAssumption
      <4>3. QED
        BY <4>1, <4>2
    <3>3. QED
      BY <1>1, <2>2, <3>1, <3>2 DEF Has
  <2>3. CASE j[1] # c
    BY <1>1, <2>1, <2>3 DEF Has
  <2>4. QED
    BY <2>2, <2>3
<1>5. BuffersAccounted'
  BY <1>4 DEF Inv, BuffersAccounted
<1>6. ContentsOK'
  BY <1>1, <1>4 DEF Inv, ContentsOK
<1>7. QED
  BY <1>1, <1>2, <1>3, <1>5, <1>6

(* The type of the rest, when only calls and the store have moved.         *)
LEMMA CallsMoved ==
    ASSUME Inv, call' \in [CallIds -> Records], CallsOK', FetchesOK',
           BuffersAccounted', ContentsOK', JobsOK', StoreTypeOK',
           queue' \in Seq(Jobs \cup {CloseJob}), running' \subseteq Jobs,
           got' \in [Jobs -> Buffers \cup {"none", "absent", "raised", "passed on"}],
           free' \subseteq Buffers, content' \in [Buffers -> Keys \cup {Nothing}],
           UNCHANGED closer
    PROVE  Inv'
<1>1. TypeOK'
  BY DEF Inv, TypeOK, StoreTypeOK, Records
<1>2. QED
  BY <1>1 DEF Inv

(* A job that was queued, in its place or another, is a job still.         *)
LEMMA QueuedStays ==
    ASSUME Inv, NEW n \in DOMAIN queue', queue'[n] # CloseJob,
           NEW m \in DOMAIN queue, queue'[n] = queue[m],
           \A j \in Jobs : IsJob(j) => IsJob(j)'
    PROVE  IsJob(queue[n])'
<1> DEFINE j == queue[m]
<1>1. j \in Jobs /\ IsJob(j)
  BY DEF Inv, JobsOK, IsJob
<1> HIDE DEF j
<1>2. PICK i \in Jobs : i = j /\ IsJob(i)
  BY <1>1
<1>3. IsJob(i)' /\ queue'[n] = i
  BY <1>2 DEF j
<1>4. QED
  BY <1>3 DEF IsJob, Started, Phase, Indices

(* Jobs stay jobs, and neither queue nor store have moved.                 *)
LEMMA JobsStay ==
    ASSUME Inv, UNCHANGED <<storeVars, poolVars>>,
           \A j \in Jobs : IsJob(j) => IsJob(j)'
    PROVE  JobsOK' /\ StoreTypeOK'
           /\ queue' \in Seq(Jobs \cup {CloseJob}) /\ running' \subseteq Jobs
<1>1. StoreTypeOK' /\ queue' = queue /\ running' = running
      /\ request' = request /\ reply' = reply
  BY TypeParts DEF Inv, StoreTypeOK, storeVars, poolVars
<1>2. queue \in Seq(Jobs \cup {CloseJob}) /\ running \subseteq Jobs
  BY TypeParts DEF Inv, LocalTypeOK
<1>4. ASSUME NEW n \in DOMAIN queue', queue'[n] # CloseJob
      PROVE  IsJob(queue[n])'
  BY <1>1, <1>4, QueuedStays
<1>5. JobsOK'
  <2>1. \A j \in Jobs : (request[j] # "none" \/ reply[j] # "none")' => IsJob(j)'
    BY <1>1 DEF Inv, JobsOK
  <2>2. QED
    BY <1>4, <2>1 DEF JobsOK
<1>6. QED
  BY <1>1, <1>2, <1>5

(* A call that raises, or returns something else than buffers.             *)
LEMMA PlainReturnStep ==
    ASSUME Inv, NEW c \in CallIds, Phase(c) = "running",
           NEW phase \in {"returned", "raised"}, NEW result \in Seq(Keys),
           phase # "returned" => result = <<>>,
           phase = "returned" => Kind(c) \notin Fetches,
           phase = "raised" => Kind(c) # "prefetch",
           Len(result) <= Len(call[c].keys),
           Become(c, phase, result),
           UNCHANGED <<storeVars, poolVars, bufferVars, closer>>
    PROVE  Inv'
<1>1. UNCHANGED <<storeVars, poolVars, got, free, content, closer>>
  BY DEF bufferVars
<1>2. /\ call' \in [CallIds -> Records]
      /\ CallsOK' /\ FetchesOK' /\ BuffersAccounted' /\ ContentsOK'
      /\ \A j \in Jobs : IsJob(j) => IsJob(j)'
  BY <1>1, BecomeQuietly
<1>3. /\ JobsOK' /\ StoreTypeOK'
      /\ queue' \in Seq(Jobs \cup {CloseJob}) /\ running' \subseteq Jobs
  BY <1>1, <1>2, JobsStay
<1>4. LocalTypeOK
  BY TypeParts DEF Inv
<1>5. QED
  BY <1>1, <1>2, <1>3, <1>4, CallsMoved DEF LocalTypeOK

(* As many outcomes as a prefix counts, and all of them good.              *)
LEMMA PrefixIsGood ==
    ASSUME Inv, NEW c \in CallIds, NEW good
    PROVE  /\ Prefix(c, good) \in 0 .. Len(call[c].keys)
           /\ \A i \in 1 .. Prefix(c, good) : Outcome(<<c, i>>) \in good
<1> DEFINE S == {i \in Indices(c) : \A n \in 1 .. i : Outcome(<<c, n>>) \in good}
           len == Len(call[c].keys)
           m == Cardinality(S)
<1>1. Indices(c) = 1 .. len /\ len \in Nat /\ IsFiniteSet(Indices(c))
      /\ Cardinality(Indices(c)) = len
  BY IndicesFinite, CallsAssumption
<1>2. S \in SUBSET Indices(c)
  OBVIOUS
<1>3. IsFiniteSet(S) /\ m <= len
  BY <1>1, <1>2, FS_Subset
<1>4. m \in Nat
  BY <1>3, FS_CardinalityType
<1>5. ASSUME NEW i \in 1 .. m
      PROVE  i \in S
  <2>1. SUFFICES ASSUME i \notin S
                 PROVE  FALSE
    OBVIOUS
  <2>2. i \in Indices(c)
    BY <1>1, <1>3, <1>4
  <2>3. PICK n \in 1 .. i : Outcome(<<c, n>>) \notin good
    BY <2>1, <2>2
  <2>4. S \in SUBSET (1 .. i - 1)
    <3>1. ASSUME NEW k \in S
          PROVE  k \in 1 .. i - 1
      <4>1. k \in 1 .. len /\ \A l \in 1 .. k : Outcome(<<c, l>>) \in good
        BY <1>1
      <4>2. n \notin 1 .. k
        BY <2>3, <4>1
      <4>3. QED
        BY <1>4, <4>1, <4>2
    <3>2. QED
      BY <3>1
  <2>5. IsFiniteSet(1 .. i - 1) /\ Cardinality(1 .. i - 1) = i - 1
    <3>1. 1 \in Int /\ i - 1 \in Int /\ i >= 1 /\ i \in Int
      BY <1>4
    <3>2. /\ IsFiniteSet(1 .. i - 1)
          /\ Cardinality(1 .. i - 1) = IF 1 > i - 1 THEN 0 ELSE (i - 1) - 1 + 1
      BY <3>1, FS_Interval
    <3>3. QED
      BY <3>1, <3>2
  <2>6. m <= i - 1
    BY <2>4, <2>5, FS_Subset
  <2>7. QED
    BY <1>4, <2>6
<1>6. Prefix(c, good) = m
  BY DEF Prefix
<1>7. \A i \in 1 .. m : Outcome(<<c, i>>) \in good
  BY <1>5
<1>8. QED
  BY <1>1, <1>3, <1>4, <1>6, <1>7

(* The first keys of a call.                                               *)
LEMMA FirstKeys ==
    ASSUME Inv, NEW c \in CallIds, NEW n \in 0 .. Len(call[c].keys)
    PROVE  /\ SubSeq(call[c].keys, 1, n) \in Seq(Keys)
           /\ Len(SubSeq(call[c].keys, 1, n)) = n
<1>1. call[c].keys \in Seq(Keys) /\ Len(call[c].keys) \in Nat
  BY IndicesFinite, CallsAssumption
<1>2. \A i \in 1 .. n : call[c].keys[i] \in Keys
  BY <1>1
<1>3. QED
  BY <1>1, <1>2, SubSeqProperties

LEMMA PlainReturns ==
    ASSUME Inv, NEW c \in CallIds,
           GatherRaises(c) \/ PutReturns(c) \/ CountReturns(c) \/ ProbeReturns(c)
    PROVE  Inv'
<1>a. /\ Phase(c) = "running" /\ Kind(c) # "prefetch"
      /\ UNCHANGED <<storeVars, poolVars, bufferVars, closer>>
  BY DEF GatherRaises, PutReturns, CountReturns, ProbeReturns, Probing, Resumes,
     RaisingKinds, ThreadKinds
<1>b. <<>> \in Seq(Keys) /\ Len(<<>>) = 0 /\ 0 <= Len(call[c].keys)
  BY IndicesFinite, CallsAssumption, EmptySeq
<1>1. CASE Raise(c)
  BY <1>1, <1>a, <1>b, PlainReturnStep DEF Raise
<1>2. CASE PutReturns(c)
  BY <1>2, <1>a, <1>b, PlainReturnStep DEF PutReturns, Return, Resumes, Fetches
<1>3. CASE (CountReturns(c) \/ ProbeReturns(c)) /\ ~Raise(c)
  <2> DEFINE result == SubSeq(call[c].keys, 1, Prefix(c, {"yes"}))
  <2>1. Become(c, "returned", result) /\ Kind(c) \notin Fetches
    BY <1>3 DEF CountReturns, ProbeReturns, Return, Resumes, Probing, ThreadKinds, Fetches
  <2>2. Prefix(c, {"yes"}) \in 0 .. Len(call[c].keys)
    BY PrefixIsGood
  <2>3. result \in Seq(Keys) /\ Len(result) <= Len(call[c].keys)
    BY <2>2, FirstKeys
  <2> HIDE DEF result
  <2>4. QED
    BY <1>a, <2>1, <2>3, PlainReturnStep
<1>4. QED
  BY <1>1, <1>2, <1>3 DEF GatherRaises

LEMMA SubmitStep ==
    ASSUME Inv, NEW made \in Calls, Submit(made)
    PROVE  Inv'
<1> DEFINE c == Cardinality(Made) + 1
           phase == IF made.kind \in LoopKinds THEN "submitted" ELSE "running"
           new == [kind |-> made.kind, keys |-> made.keys, result |-> <<>>,
                   phase |-> phase]
<1>a. /\ c \in CallIds /\ call' = [call EXCEPT ![c] = new]
      /\ UNCHANGED <<storeVars, poolVars, got, free, content, closer>>
  BY DEF Submit, bufferVars
<1>b. LocalTypeOK /\ CallsOK /\ FetchesOK
  BY TypeParts DEF Inv
<1>c. /\ made.kind \in LoopKinds \cup ThreadKinds /\ made.keys \in Seq(Keys)
      /\ Len(made.keys) <= MaxKeys
  BY CallsAssumption
<1>d. <<>> \in Seq(Keys \cup Buffers \cup {"absent"}) /\ Len(<<>>) = 0
      /\ Len(made.keys) \in Nat
  BY <1>c, EmptySeq
<1>e. phase \in {"submitted", "running"}
  OBVIOUS
<1>f. c \in CallIds /\ Phase(c) = "none" /\ call[c] = NoCall
  BY <1>a, <1>b, NextCall
<1> HIDE DEF phase, c
<1>1. new \in Records
  BY <1>c, <1>d, <1>e DEF Records, Phases
<1>2. call' \in [CallIds -> Records]
  BY <1>a, <1>b, <1>1 DEF LocalTypeOK
<1>3. call'[c] = new /\ \A d \in CallIds \ {c} : call'[d] = call[d]
  BY <1>a, <1>b DEF LocalTypeOK
<1>4. CallsOK'
  <2>1. PICK n \in 0 .. MaxCalls : Made = 1 .. n
    BY <1>b DEF CallsOK
  <2>2. Cardinality(Made) = n
    <3>1. 1 \in Int /\ n \in Int /\ n >= 0
      BY <2>1, MaxCallsAssumption
    <3>2. Cardinality(1 .. n) = IF 1 > n THEN 0 ELSE n - 1 + 1
      BY <3>1, FS_Interval
    <3>3. QED
      BY <2>1, <3>1, <3>2
  <2>3. Made' = Made \cup {c}
    BY <1>3, <1>a, <1>e DEF Made, Phase
  <2>4. n + 1 \in 0 .. MaxCalls /\ Made' = 1 .. n + 1
    BY <1>a, <2>1, <2>2, <2>3, MaxCallsAssumption DEF CallIds, c
  <2>5. \A d \in CallIds : /\ Phase(d)' = "none" => call'[d] = NoCall
                           /\ Phase(d)' # "none" => Kind(d)' \in LoopKinds \cup ThreadKinds
                           /\ Phase(d)' # "returned" => call'[d].result = <<>>
                           /\ Kind(d)' \in Fetches => OnlyFetched(call'[d].result)
                           /\ Len(call'[d].result) <= Len(call'[d].keys)
                           /\ Len(call'[d].keys) <= MaxKeys
    <3> TAKE d \in CallIds
    <3>1. CASE d = c
      <4>1. OnlyFetched(<<>>)
        BY EmptySeq DEF OnlyFetched
      <4>2. QED
        BY <1>3, <1>c, <1>d, <1>e, <3>1, <4>1 DEF Phase, Kind
    <3>2. CASE d # c
      BY <1>3, <1>b, <3>2 DEF CallsOK, Phase, Kind
    <3>3. QED
      BY <3>1, <3>2
  <2>6. QED
    BY <2>4, <2>5 DEF CallsOK
<1>5. \A j \in Jobs : IsJob(j) => j[1] # c
  BY <1>f DEF IsJob, Started
<1>6. \A j \in Jobs : IsJob(j) => IsJob(j)'
  BY <1>3, <1>5 DEF IsJob, Started, Indices, Phase, Jobs
<1>7. \A j \in Jobs : got[j] # "none" => IsJob(j) /\ j[1] # c
  BY <1>5, <1>b DEF FetchesOK
<1>8. FetchesOK'
  <2> SUFFICES ASSUME NEW j \in Jobs
               PROVE  /\ got'[j] # "none" => IsJob(j)' /\ Kind(j[1])' \in Fetches
                      /\ got'[j] = "passed on" => Phase(j[1])' = "returned"
                      /\ IsJob(j)' /\ Kind(j[1])' \in Fetches /\ Phase(j[1])' = "returned"
                            => got'[j] \notin Buffers \cup {"none"}
                      /\ Kind(j[1])' = "prefetch" => Phase(j[1])' # "raised"
    BY DEF FetchesOK
  <2>1. j[1] \in CallIds
    BY DEF Jobs
  <2>2. CASE j[1] = c
    <3>1. got'[j] = "none"
      BY <1>7, <1>a, <2>2
    <3>2. Phase(j[1])' \in {"submitted", "running"}
      BY <1>3, <1>e, <2>2 DEF Phase
    <3>3. QED
      BY <3>1, <3>2
  <2>3. CASE j[1] # c
    <3>1. Phase(j[1])' = Phase(j[1]) /\ Kind(j[1])' = Kind(j[1])
      BY <1>3, <2>1, <2>3 DEF Phase, Kind
    <3>2. IsJob(j)' <=> IsJob(j)
      BY <1>3, <2>1, <2>3 DEF IsJob, Started, Indices, Phase
    <3>3. got'[j] = got[j]
      BY <1>a
    <3>4. QED
      BY <1>b, <3>1, <3>2, <3>3 DEF FetchesOK
  <2>4. QED
    BY <2>2, <2>3
<1>9. \A j \in Jobs, b \in Buffers :
         (Has(j, b)' <=> Has(j, b)) /\ (Has(j, b) => j[1] # c)
  <2> SUFFICES ASSUME NEW j \in Jobs, NEW b \in Buffers
               PROVE  (Has(j, b)' <=> Has(j, b)) /\ (Has(j, b) => j[1] # c)
    OBVIOUS
  <2>1. j[1] \in CallIds /\ b # "none"
    BY BuffersAssumption DEF Jobs
  <2>2. CASE j[1] = c
    <3>1. call[c].result = <<>> /\ call'[c].result = <<>> /\ DOMAIN <<>> = {}
      BY <1>3, <1>f, EmptySeq DEF NoCall
    <3>2. got[j] = "none" /\ got'[j] = "none"
      BY <1>7, <1>a, <2>2
    <3>3. QED
      BY <2>1, <2>2, <3>1, <3>2 DEF Has
  <2>3. CASE j[1] # c
    BY <1>3, <1>a, <2>1, <2>3 DEF Has
  <2>4. QED
    BY <2>2, <2>3
<1>s. UNCHANGED <<free, content>> /\ BuffersAccounted /\ ContentsOK
  BY <1>a DEF Inv
<1>10. BuffersAccounted'
  <2>1. \A j \in Jobs, b \in Buffers : Has(j, b)' <=> Has(j, b)
    BY <1>9
  <2>2. QED
    BY <1>s, <2>1 DEF BuffersAccounted
<1>11. \A j \in Jobs : j[1] # c => KeyOf(j)' = KeyOf(j)
  BY <1>3 DEF KeyOf, Jobs
<1>12. ContentsOK'
  <2>1. \A j \in Jobs, b \in Buffers :
           Has(j, b)' => Has(j, b) /\ KeyOf(j)' = KeyOf(j)
    BY <1>9, <1>11
  <2>2. QED
    BY <1>s, <2>1 DEF ContentsOK
<1>13. /\ JobsOK' /\ StoreTypeOK'
       /\ queue' \in Seq(Jobs \cup {CloseJob}) /\ running' \subseteq Jobs
  BY <1>a, <1>6, JobsStay
<1>14. QED
  BY <1>2, <1>4, <1>8, <1>10, <1>12, <1>13, <1>a, <1>b, CallsMoved DEF LocalTypeOK

LEMMA StartStep ==
    ASSUME Inv, NEW c \in CallIds, Start(c)
    PROVE  Inv'
<1> DEFINE js == {<<c, i>> : i \in Indices(c)}
<1>a. /\ Phase(c) = "submitted" /\ Become(c, "running", <<>>)
      /\ UNCHANGED <<running, got, free, content, closer>>
  BY DEF Start, bufferVars
<1>b. LocalTypeOK /\ StoreTypeOK /\ JobsOK
  BY TypeParts DEF Inv
<1>c. <<>> \in Seq(Keys) /\ Len(<<>>) = 0 /\ 0 <= Len(call[c].keys)
  BY IndicesFinite, CallsAssumption, EmptySeq
<1>1. /\ call' \in [CallIds -> Records]
      /\ CallsOK' /\ FetchesOK' /\ BuffersAccounted' /\ ContentsOK'
      /\ \A j \in Jobs : IsJob(j) => IsJob(j)'
      /\ \A i \in Indices(c) : IsJob(<<c, i>>)'
  BY <1>a, <1>c, BecomeQuietly
<1>2. CASE PoolShut
  <2>1. Refuse(js) /\ UNCHANGED queue
    BY <1>2 DEF Start
  <2>2. StoreTypeOK' /\ OnlyJobs(js)
    BY <1>b, <2>1, RefuseEffect
  <2>3. \A j \in Jobs : request'[j] # "none" \/ reply'[j] # "none" => IsJob(j)'
    <3> TAKE j \in Jobs
    <3>1. CASE j \in js
      BY <1>1, <3>1
    <3>2. CASE j \notin js
      BY <1>1, <1>b, <2>2, <3>2 DEF JobsOK, OnlyJobs
    <3>3. QED
      BY <3>1, <3>2
  <2>4. ASSUME NEW n \in DOMAIN queue', queue'[n] # CloseJob
        PROVE  IsJob(queue[n])'
    <3>1. n \in DOMAIN queue /\ queue'[n] = queue[n]
      BY <2>1, <2>4
    <3>2. QED
      BY <1>1, <2>4, <3>1, QueuedStays
  <2>5. JobsOK'
    BY <2>3, <2>4 DEF JobsOK
  <2>6. QED
    BY <1>1, <1>a, <1>b, <2>1, <2>2, <2>5, CallsMoved DEF LocalTypeOK
<1>3. CASE ~PoolShut
  <2>1. queue' = queue \o JobsOf(c) /\ UNCHANGED storeVars
    BY <1>3 DEF Start
  <2>2. StoreTypeOK' /\ UNCHANGED <<request, reply>>
    BY <1>b, <2>1 DEF StoreTypeOK, storeVars
  <2>3. /\ JobsOf(c) \in Seq(Jobs \cup {CloseJob})
        /\ Len(JobsOf(c)) = Len(call[c].keys)
        /\ \A i \in 1 .. Len(JobsOf(c)) : i \in Indices(c) /\ JobsOf(c)[i] = <<c, i>>
    BY IndicesFinite, CallsAssumption DEF JobsOf
  <2>4. /\ queue \in Seq(Jobs \cup {CloseJob}) /\ Len(queue) \in Nat
        /\ DOMAIN queue = 1 .. Len(queue) /\ Len(JobsOf(c)) \in Nat
    <3>1. queue \in Seq(Jobs \cup {CloseJob})
      BY <1>b DEF LocalTypeOK
    <3>2. QED
      BY <2>3, <3>1
  <2>5. /\ queue' \in Seq(Jobs \cup {CloseJob})
        /\ DOMAIN queue' = 1 .. Len(queue) + Len(JobsOf(c))
        /\ \A n \in DOMAIN queue' : queue'[n] =
              IF n <= Len(queue) THEN queue[n] ELSE JobsOf(c)[n - Len(queue)]
    <3> DEFINE q == queue
               s == JobsOf(c)
               S == Jobs \cup {CloseJob}
    <3>1. q \in Seq(S) /\ s \in Seq(S) /\ queue' = q \o s
      BY <2>1, <2>3, <2>4
    <3> HIDE DEF q, s, S
    <3>2. /\ q \o s \in Seq(S) /\ Len(q \o s) = Len(q) + Len(s)
          /\ \A i \in 1 .. Len(q) + Len(s) :
                (q \o s)[i] = IF i <= Len(q) THEN q[i] ELSE s[i - Len(q)]
      BY <3>1, ConcatProperties
    <3>3. DOMAIN (q \o s) = 1 .. Len(q) + Len(s)
      BY <3>2
    <3>4. QED
      BY <3>1, <3>2, <3>3 DEF q, s, S
  <2>6. ASSUME NEW n \in DOMAIN queue', queue'[n] # CloseJob
        PROVE  IsJob(queue[n])'
    <3>1. CASE n <= Len(queue)
      <4>1. n \in DOMAIN queue /\ queue'[n] = queue[n]
        BY <2>4, <2>5, <3>1
      <4>2. QED
        BY <1>1, <1>b, <2>6, <4>1, QueuedStays
    <3>2. CASE n > Len(queue)
      <4>1. n - Len(queue) \in 1 .. Len(JobsOf(c))
        BY <2>4, <2>5, <3>2
      <4>2. PICK i \in Indices(c) : queue'[n] = <<c, i>>
        BY <2>3, <2>4, <2>5, <3>2, <4>1
      <4>3. IsJob(<<c, i>>)'
        BY <1>1
      <4>4. QED
        BY <4>2, <4>3 DEF IsJob
    <3>3. QED
      BY <2>4, <2>5, <3>1, <3>2
  <2>7. \A j \in Jobs : request'[j] # "none" \/ reply'[j] # "none" => IsJob(j)'
    BY <1>1, <1>b, <2>2 DEF JobsOK
  <2>8. JobsOK'
    BY <2>6, <2>7 DEF JobsOK
  <2>9. QED
    BY <1>1, <1>a, <1>b, <2>2, <2>5, <2>8, CallsMoved DEF LocalTypeOK
<1>4. QED
  BY <1>2, <1>3

-----------------------------------------------------------------------------
(* Buffers move.                                                           *)

(* A get that has not come to anything belongs to a call without a result. *)
LEMMA GetIsOpen ==
    ASSUME Inv, NEW j \in Jobs, GetResumes(j)
    PROVE  /\ IsJob(j) /\ Kind(j[1]) \in Fetches /\ KeyOf(j) \in Keys
           /\ call[j[1]].result = <<>>
<1>1. IsJob(j) /\ Kind(j[1]) \in Fetches /\ got[j] = "none"
  BY DEF GetResumes, Inv, JobsOK
<1>2. Phase(j[1]) # "returned"
  BY <1>1 DEF Inv, FetchesOK
<1>3. j[1] \in CallIds /\ j[2] \in Indices(j[1])
  BY <1>1 DEF IsJob, Jobs
<1>4. KeyOf(j) \in Keys
  BY <1>3, IndicesFinite DEF KeyOf, Indices
<1>5. QED
  BY <1>1, <1>2, <1>3, <1>4 DEF Inv, CallsOK

LEMMA GetResumesStep ==
    ASSUME Inv, NEW j \in Jobs, GetResumes(j)
    PROVE  Inv'
<1>a. UNCHANGED <<storeVars, call, poolVars, closer>> /\ got[j] = "none"
  BY DEF GetResumes
<1>b. IsJob(j) /\ Kind(j[1]) \in Fetches /\ KeyOf(j) \in Keys
      /\ call[j[1]].result = <<>>
  BY GetIsOpen
<1>c. LocalTypeOK /\ CallsOK /\ FetchesOK /\ BuffersAccounted /\ ContentsOK
  BY TypeParts DEF Inv
<1>d. PICK o : /\ got' = [got EXCEPT ![j] = o]
               /\ \/ o \in {"raised", "absent"} /\ UNCHANGED <<free, content>>
                  \/ /\ o \in free /\ free' = free \ {o}
                     /\ content' = [content EXCEPT ![o] = KeyOf(j)]
  BY DEF GetResumes, Decode, Settle, MisfitReleased
<1>e. o \in (Buffers \cup {"raised", "absent"}) \ {"none", "passed on"}
  BY <1>c, <1>d, BuffersAssumption DEF LocalTypeOK
<1>1. /\ got' \in [Jobs -> Buffers \cup {"none", "absent", "raised", "passed on"}]
      /\ got'[j] = o
      /\ \A k \in Jobs \ {j} : got'[k] = got[k]
  BY <1>c, <1>d, <1>e DEF LocalTypeOK
<1>2. /\ free' \subseteq Buffers
      /\ content' \in [Buffers -> Keys \cup {Nothing}]
  BY <1>b, <1>c, <1>d DEF LocalTypeOK
<1>3. call' = call /\ CallsOK' /\ call' \in [CallIds -> Records]
  BY <1>a, <1>c DEF CallsOK, Made, Phase, Kind, LocalTypeOK
<1>4. \A k \in Jobs : /\ IsJob(k)' <=> IsJob(k)
                      /\ Kind(k[1])' = Kind(k[1]) /\ Phase(k[1])' = Phase(k[1])
                      /\ KeyOf(k)' = KeyOf(k)
  BY <1>3 DEF IsJob, Started, Phase, Kind, Indices, KeyOf
<1>5. /\ JobsOK' /\ StoreTypeOK'
      /\ queue' \in Seq(Jobs \cup {CloseJob}) /\ running' \subseteq Jobs
  BY <1>4, <1>a, JobsStay
<1>6. Phase(j[1]) # "returned"
  BY <1>a, <1>b, <1>c DEF FetchesOK
<1>7. FetchesOK'
  <2> SUFFICES ASSUME NEW k \in Jobs
               PROVE  /\ got'[k] # "none" => IsJob(k)' /\ Kind(k[1])' \in Fetches
                      /\ got'[k] = "passed on" => Phase(k[1])' = "returned"
                      /\ IsJob(k)' /\ Kind(k[1])' \in Fetches /\ Phase(k[1])' = "returned"
                            => got'[k] \notin Buffers \cup {"none"}
                      /\ Kind(k[1])' = "prefetch" => Phase(k[1])' # "raised"
    BY DEF FetchesOK
  <2>1. CASE k = j
    BY <1>1, <1>4, <1>6, <1>b, <1>c, <1>e, <2>1 DEF FetchesOK
  <2>2. CASE k # j
    BY <1>1, <1>4, <1>c, <2>2 DEF FetchesOK
  <2>3. QED
    BY <2>1, <2>2
<1>8. ASSUME NEW k \in Jobs, NEW b \in Buffers
      PROVE  Has(k, b)' <=> Has(k, b) \/ (k = j /\ b = o)
  <2>1. CASE k = j
    <3>1. DOMAIN call[k[1]].result = {} /\ DOMAIN call'[k[1]].result = {}
      BY <1>3, <1>b, <2>1, EmptySeq
    <3>2. got[k] # b
      BY <1>a, <2>1, BuffersAssumption
    <3>3. QED
      BY <1>1, <2>1, <3>1, <3>2 DEF Has
  <2>2. CASE k # j
    BY <1>1, <1>3, <2>2 DEF Has
  <2>3. QED
    BY <2>1, <2>2
<1>9. CASE o \in {"raised", "absent"} /\ UNCHANGED <<free, content>>
  <2>1. \A k \in Jobs, b \in Buffers : Has(k, b)' <=> Has(k, b)
    BY <1>8, <1>9, BuffersAssumption
  <2>2. BuffersAccounted'
    BY <1>c, <1>9, <2>1 DEF BuffersAccounted
  <2>3. ContentsOK'
    <3>1. \A k \in Jobs, b \in Buffers : Has(k, b)' => Has(k, b) /\ KeyOf(k)' = KeyOf(k)
      BY <1>4, <2>1
    <3>2. QED
      BY <1>c, <1>9, <3>1 DEF ContentsOK
  <2>4. QED
    BY <1>1, <1>2, <1>3, <1>5, <1>7, <1>a, <2>2, <2>3, CallsMoved
<1>10. CASE /\ o \in free /\ free' = free \ {o}
            /\ content' = [content EXCEPT ![o] = KeyOf(j)]
  <2>1. o \in Buffers /\ \A k \in Jobs : ~Has(k, o)
    BY <1>c, <1>10 DEF BuffersAccounted, LocalTypeOK
  <2>2. BuffersAccounted'
    BY <1>c, <1>8, <1>10, <2>1 DEF BuffersAccounted
  <2>3. content'[o] = KeyOf(j) /\ \A b \in Buffers \ {o} : content'[b] = content[b]
    BY <1>c, <1>10, <2>1 DEF LocalTypeOK
  <2>4. ContentsOK'
    <3> SUFFICES ASSUME NEW k \in Jobs, NEW b \in Buffers, Has(k, b)'
                 PROVE  content'[b] = KeyOf(k)'
      BY DEF ContentsOK
    <3>1. CASE k = j /\ b = o
      BY <1>4, <2>3, <3>1
    <3>2. CASE Has(k, b)
      BY <1>4, <1>c, <2>1, <2>3, <3>2 DEF ContentsOK
    <3>3. QED
      BY <1>8, <3>1, <3>2
  <2>5. QED
    BY <1>1, <1>2, <1>3, <1>5, <1>7, <1>a, <2>2, <2>4, CallsMoved
<1>11. QED
  BY <1>d, <1>9, <1>10

(* The first p buffers that were fetched go to LMCache, the others back to *)
(* the allocator.                                                          *)
LEMMA HandOver ==
    ASSUME Inv, NEW c \in CallIds, Phase(c) = "running", Kind(c) \in Fetches,
           NEW p \in 0 .. Len(call[c].keys),
           NEW result \in Seq(Keys \cup Buffers \cup {"absent"}),
           Len(result) = p,
           \A i \in 1 .. p : /\ result[i] = got[<<c, i>>]
                             /\ result[i] \in Buffers \cup {"absent"},
           \A i \in Indices(c) : got[<<c, i>>] # "none",
           Become(c, "returned", result),
           PassOn(c),
           free' = free \cup {b \in Buffers : \E i \in Indices(c) :
                                 i > p /\ got[<<c, i>>] = b},
           UNCHANGED <<storeVars, poolVars, content, closer>>
    PROVE  Inv'
<1>a. LocalTypeOK /\ TypeOK /\ CallsOK /\ FetchesOK /\ BuffersAccounted /\ ContentsOK
  BY TypeParts DEF Inv
<1>b. /\ Len(call[c].keys) \in Nat /\ Indices(c) = 1 .. Len(call[c].keys)
      /\ \A i \in Indices(c) : <<c, i>> \in Jobs
  BY IndicesFinite, CallsAssumption
<1>c. DOMAIN result = 1 .. p /\ OnlyFetched(result) /\ Len(result) <= Len(call[c].keys)
  <2>1. DOMAIN result = 1 .. Len(result)
    OBVIOUS
  <2>2. \A i \in DOMAIN result : result[i] \in Buffers \cup {"absent"}
    BY <2>1
  <2>3. QED
    BY <1>b, <2>1, <2>2 DEF OnlyFetched
<1>d. "returned" \in Phases \ {"none"} /\ Phase(c) # "none" /\ "returned" # "submitted"
  BY DEF Phases
<1>1. /\ call' \in [CallIds -> Records]
      /\ CallsOK'
      /\ Phase(c)' = "returned" /\ call'[c].result = result
      /\ \A d \in CallIds : Kind(d)' = Kind(d) /\ call'[d].keys = call[d].keys
      /\ \A d \in CallIds \ {c} : call'[d] = call[d]
      /\ \A j \in Jobs : KeyOf(j)' = KeyOf(j)
      /\ \A j \in Jobs : IsJob(j) => IsJob(j)'
      /\ \A j \in Jobs : IsJob(j)' /\ j[1] # c => IsJob(j)
  BY <1>a, <1>c, <1>d, BecomeKeeps
<1>2. /\ JobsOK' /\ StoreTypeOK'
      /\ queue' \in Seq(Jobs \cup {CloseJob}) /\ running' \subseteq Jobs
  BY <1>1, JobsStay
<1>3. \A j \in Jobs : got'[j] = IF j[1] = c /\ got[j] \in Buffers
                                THEN "passed on" ELSE got[j]
  BY DEF PassOn
<1>4. got' \in [Jobs -> Buffers \cup {"none", "absent", "raised", "passed on"}]
  BY <1>a DEF PassOn, LocalTypeOK
<1>5. ASSUME NEW j \in Jobs, j[1] = c, j[2] \in Indices(c)
      PROVE  j = <<c, j[2]>>
  BY <1>5 DEF Jobs
<1>6. call[c].result = <<>> /\ DOMAIN call[c].result = {}
  BY <1>a, EmptySeq DEF CallsOK
<1>7. FetchesOK'
  <2> SUFFICES ASSUME NEW j \in Jobs
               PROVE  /\ got'[j] # "none" => IsJob(j)' /\ Kind(j[1])' \in Fetches
                      /\ got'[j] = "passed on" => Phase(j[1])' = "returned"
                      /\ IsJob(j)' /\ Kind(j[1])' \in Fetches /\ Phase(j[1])' = "returned"
                            => got'[j] \notin Buffers \cup {"none"}
                      /\ Kind(j[1])' = "prefetch" => Phase(j[1])' # "raised"
    BY DEF FetchesOK
  <2>1. j[1] \in CallIds
    BY DEF Jobs
  <2>2. got'[j] # "none" => IsJob(j)' /\ Kind(j[1])' \in Fetches
    <3>1. got'[j] # "none" => got[j] # "none"
      BY <1>3, BuffersAssumption
    <3>2. got[j] # "none" => IsJob(j) /\ Kind(j[1]) \in Fetches
      BY <1>a DEF FetchesOK
    <3>3. QED
      BY <1>1, <2>1, <3>1, <3>2
  <2>3. CASE j[1] = c
    <3>1. IsJob(j)' => got[j] # "none"
      <4>1. IsJob(j)' => j[2] \in Indices(c)
        BY <1>1, <2>3 DEF IsJob, Indices
      <4>2. QED
        BY <1>5, <2>3, <4>1
    <3>2. got'[j] \notin Buffers
      BY <1>3, <2>3, BuffersAssumption
    <3>3. got[j] # "none" => got'[j] # "none"
      BY <1>3
    <3>4. QED
      BY <1>1, <2>2, <2>3, <3>1, <3>2, <3>3
  <2>4. CASE j[1] # c
    <3>1. Phase(j[1])' = Phase(j[1]) /\ Kind(j[1])' = Kind(j[1]) /\ got'[j] = got[j]
      BY <1>1, <1>3, <2>1, <2>4 DEF Phase
    <3>2. QED
      BY <1>1, <1>a, <2>2, <2>4, <3>1 DEF FetchesOK
  <2>5. QED
    BY <2>3, <2>4
<1>8. ASSUME NEW j \in Jobs, NEW b \in Buffers, Has(j, b)
      PROVE  \/ j[1] # c
             \/ j[2] \in Indices(c) /\ j = <<c, j[2]>> /\ got[j] = b
  <2>1. CASE j[1] = c
    <3>1. got[j] = b
      BY <1>6, <1>8, <2>1 DEF Has
    <3>2. IsJob(j)
      BY <1>a, <3>1, BuffersAssumption DEF FetchesOK
    <3>3. QED
      BY <1>5, <2>1, <3>1, <3>2 DEF IsJob
  <2>2. QED
    BY <2>1
<1>9. ASSUME NEW j \in Jobs, NEW b \in Buffers
      PROVE  /\ Has(j, b)' => Has(j, b)
             /\ Has(j, b)' => j[1] # c \/ j[2] <= p
             /\ Has(j, b) /\ (j[1] # c \/ j[2] <= p) => Has(j, b)'
  <2>1. j[1] \in CallIds
    BY DEF Jobs
  <2>2. CASE j[1] = c
    <3>1. Has(j, b)' <=> j[2] \in 1 .. p /\ result[j[2]] = b
      <4>1. got'[j] = IF got[j] \in Buffers THEN "passed on" ELSE got[j]
        BY <1>3, <2>2
      <4>2. got'[j] # b
        BY <4>1, BuffersAssumption
      <4>3. QED
        BY <1>1, <1>c, <2>2, <4>2 DEF Has
    <3>2. j[2] \in 1 .. p => j[2] \in Indices(c)
      BY <1>b, <1>c
    <3>3. j[2] \in 1 .. p => j = <<c, j[2]>> /\ result[j[2]] = got[j]
      BY <1>5, <2>2, <3>2
    <3>4. Has(j, b)' => Has(j, b) /\ j[2] <= p
      BY <3>1, <3>3 DEF Has
    <3>5. Has(j, b) /\ j[2] <= p => Has(j, b)'
      BY <1>8, <1>b, <2>2, <3>1, <3>3
    <3>6. QED
      BY <2>2, <3>4, <3>5
  <2>3. CASE j[1] # c
    BY <1>1, <1>3, <2>1, <2>3 DEF Has
  <2>4. QED
    BY <2>2, <2>3
<1>10. BuffersAccounted'
  <2> SUFFICES ASSUME NEW b \in Buffers
               PROVE  /\ b \in free' \/ \E j \in Jobs : Has(j, b)'
                      /\ \A j \in Jobs : Has(j, b)' =>
                            b \notin free' /\ \A k \in Jobs : Has(k, b)' => k = j
    BY DEF BuffersAccounted
  <2>1. b \in free' \/ \E j \in Jobs : Has(j, b)'
    <3>1. CASE b \in free
      BY <3>1
    <3>2. ASSUME NEW j \in Jobs, Has(j, b)
          PROVE  b \in free' \/ Has(j, b)'
      <4>1. CASE j[1] # c \/ j[2] <= p
        BY <1>9, <3>2, <4>1
      <4>2. CASE ~(j[1] # c \/ j[2] <= p)
        BY <1>8, <1>b, <3>2, <4>2
      <4>3. QED
        BY <4>1, <4>2
    <3>3. QED
      BY <1>a, <3>1, <3>2 DEF BuffersAccounted
  <2>2. ASSUME NEW j \in Jobs, Has(j, b)'
        PROVE  b \notin free'
    <3>1. Has(j, b) /\ b \notin free
      BY <1>9, <1>a, <2>2 DEF BuffersAccounted
    <3>2. SUFFICES ASSUME NEW i \in Indices(c), i > p, got[<<c, i>>] = b
                   PROVE  FALSE
      BY <3>1
    <3>3. <<c, i>> \in Jobs /\ Has(<<c, i>>, b)
      BY <1>b, <3>2 DEF Has
    <3>4. j = <<c, i>>
      BY <1>a, <3>1, <3>3 DEF BuffersAccounted
    <3>5. QED
      BY <1>9, <1>b, <2>2, <3>2, <3>4
  <2>3. ASSUME NEW j \in Jobs, Has(j, b)', NEW k \in Jobs, Has(k, b)'
        PROVE  k = j
    BY <1>9, <1>a, <2>3 DEF BuffersAccounted
  <2>4. QED
    BY <2>1, <2>2, <2>3
<1>11. ContentsOK'
  <2>1. \A j \in Jobs, b \in Buffers : Has(j, b)' => Has(j, b) /\ KeyOf(j)' = KeyOf(j)
    BY <1>1, <1>9
  <2>2. QED
    BY <1>a, <2>1 DEF ContentsOK
<1>12. free' \subseteq Buffers
  BY <1>a DEF LocalTypeOK
<1>13. QED
  BY <1>1, <1>2, <1>4, <1>7, <1>10, <1>11, <1>12, <1>a, CallsMoved DEF LocalTypeOK

(* What the gets of a call came to.                                        *)
LEMMA FetchOutcomes ==
    ASSUME Inv, NEW c \in CallIds, Phase(c) = "running", Kind(c) \in Fetches,
           AllSettled(c)
    PROVE  /\ Len(Outcomes(c)) = Len(call[c].keys)
           /\ \A i \in Indices(c) :
                 /\ Outcome(<<c, i>>) = got[<<c, i>>] /\ Outcomes(c)[i] = got[<<c, i>>]
                 /\ got[<<c, i>>] \in Buffers \cup {"absent", "raised"}
                 /\ got[<<c, i>>] # "none"
<1>1. /\ Len(call[c].keys) \in Nat /\ Indices(c) = 1 .. Len(call[c].keys)
      /\ \A i \in Indices(c) : <<c, i>> \in Jobs
  BY IndicesFinite, CallsAssumption
<1>2. \A i \in Indices(c) : Outcome(<<c, i>>) = got[<<c, i>>]
  BY DEF Outcome
<1>3. \A i \in Indices(c) : got[<<c, i>>] # "none"
  BY <1>2 DEF AllSettled
<1>4. \A i \in Indices(c) : got[<<c, i>>] # "passed on"
  BY <1>1 DEF Inv, FetchesOK
<1>5. \A i \in Indices(c) :
         got[<<c, i>>] \in Buffers \cup {"none", "absent", "raised", "passed on"}
  BY <1>1, TypeParts DEF Inv, LocalTypeOK
<1>6. Len(Outcomes(c)) = Len(call[c].keys)
  BY <1>1 DEF Outcomes
<1>7. \A i \in Indices(c) : Outcomes(c)[i] = got[<<c, i>>]
  BY <1>2 DEF Outcomes
<1>8. QED
  BY <1>2, <1>3, <1>4, <1>5, <1>6, <1>7

LEMMA GetReturnsStep ==
    ASSUME Inv, NEW c \in CallIds, GetReturns(c)
    PROVE  Inv'
<1> DEFINE p == Len(call[c].keys)
           result == Outcomes(c)
<1>1. /\ Phase(c) = "running" /\ Kind(c) \in Fetches /\ AllSettled(c) /\ ~Failed(c)
      /\ Become(c, "returned", result) /\ PassOn(c)
      /\ UNCHANGED <<storeVars, poolVars, free, content, closer>>
  BY DEF GetReturns, Resumes, Fetches, Return
<1>2. p \in 0 .. p /\ p \in Nat /\ Indices(c) = 1 .. p
  BY IndicesFinite, CallsAssumption
<1>3. Len(result) = p /\ \A i \in 1 .. p :
         /\ Outcome(<<c, i>>) = got[<<c, i>>] /\ result[i] = got[<<c, i>>]
         /\ got[<<c, i>>] \in Buffers \cup {"absent", "raised"} /\ got[<<c, i>>] # "none"
  BY <1>1, <1>2, FetchOutcomes
<1>4. \A i \in 1 .. p : result[i] \in Buffers \cup {"absent"}
  BY <1>1, <1>2, <1>3 DEF Failed
<1>5. result \in Seq(Keys \cup Buffers \cup {"absent"})
  <2>1. result = [i \in 1 .. p |-> Outcome(<<c, i>>)]
    BY <1>2 DEF Outcomes
  <2>2. \A i \in 1 .. p : Outcome(<<c, i>>) \in Keys \cup Buffers \cup {"absent"}
    BY <1>3, <1>4
  <2>3. QED
    BY <1>2, <2>1, <2>2
<1>6. free' = free \cup {b \in Buffers : \E i \in Indices(c) : i > p /\ got[<<c, i>>] = b}
  <2>1. \A i \in Indices(c) : ~(i > p)
    BY <1>2
  <2>2. {b \in Buffers : \E i \in Indices(c) : i > p /\ got[<<c, i>>] = b} = {}
    BY <2>1
  <2>3. QED
    BY <1>1, <2>2
<1> HIDE DEF result
<1>7. QED
  BY <1>1, <1>2, <1>3, <1>4, <1>5, <1>6, HandOver

LEMMA PrefetchReturnsStep ==
    ASSUME Inv, NEW c \in CallIds, PrefetchReturns(c)
    PROVE  Inv'
<1> DEFINE p == Prefix(c, Buffers)
           len == Len(call[c].keys)
           result == SubSeq(Outcomes(c), 1, p)
<1>1. /\ Phase(c) = "running" /\ Kind(c) \in Fetches /\ AllSettled(c)
      /\ Become(c, "returned", result) /\ PassOn(c)
      /\ free' = free \cup Released(c)
      /\ UNCHANGED <<storeVars, poolVars, content, closer>>
  BY DEF PrefetchReturns, Resumes, Fetches, Return, Delivered
<1>2. len \in Nat /\ Indices(c) = 1 .. len
  BY IndicesFinite, CallsAssumption
<1>3. p \in 0 .. len /\ \A i \in 1 .. p : Outcome(<<c, i>>) \in Buffers
  BY PrefixIsGood
<1>4. \A i \in Indices(c) :
         /\ Outcome(<<c, i>>) = got[<<c, i>>] /\ Outcomes(c)[i] = got[<<c, i>>]
         /\ got[<<c, i>>] # "none"
  BY <1>1, FetchOutcomes
<1> HIDE DEF p
<1>5. ASSUME NEW i \in 1 .. p
      PROVE  i \in Indices(c) /\ Outcomes(c)[i] \in Buffers
  <2>1. i \in Indices(c)
    BY <1>2, <1>3
  <2>2. QED
    BY <1>3, <1>4, <2>1
<1>6. /\ result \in Seq(Buffers) /\ Len(result) = p
      /\ \A i \in 1 .. p : result[i] = Outcomes(c)[i]
  <2> DEFINE s == Outcomes(c)
  <2>1. p \in Int /\ 1 \in Int /\ p >= 0 /\ \A i \in 1 .. p : s[i] \in Buffers
    BY <1>2, <1>3, <1>5
  <2> HIDE DEF s
  <2>2. /\ SubSeq(s, 1, p) \in Seq(Buffers)
        /\ Len(SubSeq(s, 1, p)) = IF 1 <= p THEN p - 1 + 1 ELSE 0
        /\ \A i \in 1 .. p - 1 + 1 : SubSeq(s, 1, p)[i] = s[1 + i - 1]
    BY <2>1, SubSeqProperties
  <2>3. \A i \in 1 .. p : i \in 1 .. p - 1 + 1 /\ 1 + i - 1 = i
    BY <2>1
  <2>4. QED
    BY <2>1, <2>2, <2>3 DEF s
<1>7. result \in Seq(Keys \cup Buffers \cup {"absent"})
  BY <1>6, SeqMonotonic
<1>8. \A i \in 1 .. p : result[i] = got[<<c, i>>] /\ result[i] \in Buffers \cup {"absent"}
  BY <1>4, <1>5, <1>6
<1>9. Released(c) = {b \in Buffers : \E i \in Indices(c) : i > p /\ got[<<c, i>>] = b}
  BY <1>4 DEF Released, Behind, p
<1> HIDE DEF result
<1>10. QED
  BY <1>1, <1>3, <1>4, <1>6, <1>7, <1>8, <1>9, HandOver

LEMMA GiveBackStep ==
    ASSUME Inv, NEW c \in CallIds, GiveBack(c)
    PROVE  Inv'
<1> DEFINE result == call[c].result
           given == {result[i] : i \in DOMAIN result} \ {"absent"}
<1>a. LocalTypeOK /\ TypeOK /\ CallsOK /\ FetchesOK /\ BuffersAccounted /\ ContentsOK
  BY TypeParts DEF Inv
<1>b. /\ Kind(c) \in Fetches /\ result # <<>>
      /\ free' = free \cup given
      /\ Become(c, "returned", <<>>)
      /\ UNCHANGED <<storeVars, poolVars, got, content, closer>>
  BY DEF GiveBack, Return
<1>c. Phase(c) = "returned" /\ OnlyFetched(result)
  BY <1>a, <1>b DEF CallsOK
<1>d. /\ <<>> \in Seq(Keys \cup Buffers \cup {"absent"}) /\ Len(<<>>) = 0
      /\ DOMAIN <<>> = {} /\ OnlyFetched(<<>>) /\ Len(<<>>) <= Len(call[c].keys)
  BY IndicesFinite, CallsAssumption, EmptySeq DEF OnlyFetched
<1>e. "returned" \in Phases \ {"none"} /\ Phase(c) # "none" /\ "returned" # "submitted"
  BY <1>c DEF Phases
<1>1. /\ call' \in [CallIds -> Records]
      /\ CallsOK'
      /\ Phase(c)' = "returned" /\ call'[c].result = <<>>
      /\ \A d \in CallIds : Kind(d)' = Kind(d) /\ call'[d].keys = call[d].keys
      /\ \A d \in CallIds \ {c} : call'[d] = call[d]
      /\ \A j \in Jobs : KeyOf(j)' = KeyOf(j)
      /\ \A j \in Jobs : IsJob(j) => IsJob(j)'
      /\ \A j \in Jobs : IsJob(j)' /\ j[1] # c => IsJob(j)
  BY <1>a, <1>b, <1>d, <1>e, BecomeKeeps
<1>2. /\ JobsOK' /\ StoreTypeOK'
      /\ queue' \in Seq(Jobs \cup {CloseJob}) /\ running' \subseteq Jobs
  BY <1>1, <1>b, JobsStay
<1>3. \A d \in CallIds : Phase(d)' = Phase(d)
  BY <1>1, <1>c DEF Phase
<1>4. \A j \in Jobs : /\ IsJob(j)' <=> IsJob(j)
                      /\ Kind(j[1])' = Kind(j[1]) /\ Phase(j[1])' = Phase(j[1])
  BY <1>1, <1>3 DEF IsJob, Started, Indices, Jobs
<1>5. FetchesOK'
  BY <1>a, <1>b, <1>4 DEF FetchesOK
<1>6. DOMAIN result \subseteq Indices(c) /\ \A i \in DOMAIN result : <<c, i>> \in Jobs
  <2>1. /\ Len(call[c].keys) \in Nat /\ Indices(c) = 1 .. Len(call[c].keys)
        /\ \A i \in Indices(c) : <<c, i>> \in Jobs
    BY IndicesFinite, CallsAssumption
  <2>2. result \in Seq(Keys \cup Buffers \cup {"absent"})
    BY <1>a DEF LocalTypeOK, Records
  <2>3. DOMAIN result = 1 .. Len(result) /\ Len(result) \in Nat
    BY <2>2
  <2>4. Len(result) <= Len(call[c].keys)
    BY <1>a DEF CallsOK
  <2>5. QED
    BY <2>1, <2>3, <2>4
<1>7. ASSUME NEW j \in Jobs, NEW b \in Buffers, Has(j, b), j[1] = c
      PROVE  b \in given
  <2>1. got[j] # b
    BY <1>7, <1>a, <1>b, <1>c, BuffersAssumption DEF FetchesOK
  <2>2. j[2] \in DOMAIN result /\ result[j[2]] = b
    BY <1>7, <2>1 DEF Has
  <2>3. b # "absent"
    BY BuffersAssumption
  <2>4. QED
    BY <2>2, <2>3
<1>8. ASSUME NEW b \in given
      PROVE  \E j \in Jobs : j[1] = c /\ b \in Buffers /\ Has(j, b)
  <2>1. PICK i \in DOMAIN result : b = result[i] /\ b # "absent"
    OBVIOUS
  <2>2. b \in Buffers
    BY <1>c, <2>1 DEF OnlyFetched
  <2>3. <<c, i>> \in Jobs /\ Has(<<c, i>>, b)
    BY <1>6, <2>1 DEF Has
  <2>4. QED
    BY <2>2, <2>3
<1>9. ASSUME NEW j \in Jobs, NEW b \in Buffers
      PROVE  Has(j, b)' <=> Has(j, b) /\ j[1] # c
  <2>1. CASE j[1] = c
    <3>1. got'[j] # b
      BY <1>a, <1>b, <1>c, <2>1, BuffersAssumption DEF FetchesOK
    <3>2. QED
      BY <1>1, <1>d, <2>1, <3>1 DEF Has
  <2>2. CASE j[1] # c
    BY <1>1, <1>b, <2>2 DEF Has, Jobs
  <2>3. QED
    BY <2>1, <2>2
<1> HIDE DEF given
<1>10. BuffersAccounted'
  <2> SUFFICES ASSUME NEW b \in Buffers
               PROVE  /\ b \in free' \/ \E j \in Jobs : Has(j, b)'
                      /\ \A j \in Jobs : Has(j, b)' =>
                            b \notin free' /\ \A k \in Jobs : Has(k, b)' => k = j
    BY DEF BuffersAccounted
  <2>1. b \in free' \/ \E j \in Jobs : Has(j, b)'
    BY <1>7, <1>9, <1>a, <1>b DEF BuffersAccounted
  <2>2. ASSUME NEW j \in Jobs, Has(j, b)'
        PROVE  b \notin free' /\ \A k \in Jobs : Has(k, b)' => k = j
    BY <1>8, <1>9, <1>a, <1>b, <2>2 DEF BuffersAccounted
  <2>3. QED
    BY <2>1, <2>2
<1>11. ContentsOK'
  <2>1. \A j \in Jobs, b \in Buffers : Has(j, b)' => Has(j, b) /\ KeyOf(j)' = KeyOf(j)
    BY <1>1, <1>9
  <2>2. UNCHANGED content
    BY <1>b
  <2>3. QED
    BY <1>a, <2>1, <2>2 DEF ContentsOK
<1>12. free' \subseteq Buffers
  BY <1>8, <1>a, <1>b DEF LocalTypeOK
<1>13. QED
  BY <1>1, <1>2, <1>5, <1>10, <1>11, <1>12, <1>a, <1>b, CallsMoved DEF LocalTypeOK

-----------------------------------------------------------------------------
(* Inv is inductive.                                                       *)

LEMMA InitInv == Init => Inv
<1> SUFFICES ASSUME Init
             PROVE  Inv
  OBVIOUS
<1>1. /\ call = [c \in CallIds |-> NoCall] /\ queue = <<>> /\ running = {}
      /\ got = [j \in Jobs |-> "none"] /\ free = Buffers
      /\ content = [b \in Buffers |-> Nothing] /\ closer = "open"
      /\ request = [j \in Jobs |-> "none"] /\ reply = [j \in Jobs |-> "none"]
      /\ found = [j \in Jobs |-> FALSE] /\ cached = {} /\ inDoubt = {}
      /\ key = [j \in Jobs |-> CHOOSE k \in Keys : TRUE]
  BY DEF Init, Store!Init
<1>2. key \in [Jobs -> Keys]
  <2>1. (CHOOSE k \in Keys : TRUE) \in Keys
    BY KeysAssumption
  <2>2. QED
    BY <1>1, <2>1
<1>3. NoCall \in Records
  BY EmptySeq DEF NoCall, Records, Phases
<1>4. StoreTypeOK
  BY <1>1, <1>2 DEF StoreTypeOK, Store!Replies
<1>5. LocalTypeOK
  BY <1>1, <1>3, EmptySeq DEF LocalTypeOK
<1>6. \A c \in CallIds : Phase(c) = "none" /\ call[c] = NoCall /\ Kind(c) = "none"
  BY <1>1 DEF Phase, Kind, NoCall
<1>7. CallsOK
  <2>1. Made = {}
    BY <1>6 DEF Made
  <2>2. 0 \in 0 .. MaxCalls /\ 1 .. 0 = {}
    BY MaxCallsAssumption
  <2>3. Len(<<>>) = 0 /\ Len(<<>>) <= MaxKeys /\ NoCall.result = <<>> /\ NoCall.keys = <<>>
    BY CallsAssumption, EmptySeq DEF NoCall
  <2>4. "none" \notin Fetches
    BY DEF Fetches
  <2>5. QED
    BY <1>6, <2>1, <2>2, <2>3, <2>4 DEF CallsOK
<1>8. JobsOK
  BY <1>1, EmptySeq DEF JobsOK
<1>9. \A j \in Jobs : Phase(j[1]) = "none" /\ Kind(j[1]) = "none" /\ call[j[1]] = NoCall
  BY <1>6 DEF Jobs
<1>10. FetchesOK
  BY <1>1, <1>9 DEF FetchesOK, IsJob, Started
<1>11. ASSUME NEW j \in Jobs, NEW b \in Buffers
       PROVE  ~Has(j, b)
  <2>1. b # "none" /\ got[j] = "none"
    BY <1>1, BuffersAssumption
  <2>2. call[j[1]].result = <<>> /\ DOMAIN <<>> = {}
    BY <1>9, EmptySeq DEF NoCall
  <2>3. QED
    BY <2>1, <2>2 DEF Has
<1>12. BuffersAccounted /\ ContentsOK
  BY <1>1, <1>11 DEF BuffersAccounted, ContentsOK
<1>13. QED
  BY <1>4, <1>5, <1>7, <1>8, <1>10, <1>12, TypeParts DEF Inv

LEMMA StutterInv ==
    ASSUME Inv, UNCHANGED vars
    PROVE  Inv'
<1>1. UNCHANGED <<call, queue, running, got, free, content, closer, storeVars>>
  BY DEF vars, poolVars, bufferVars
<1>2. LocalTypeOK /\ StoreTypeOK
  BY TypeParts DEF Inv
<1>3. StoreTypeOK' /\ OnlyJobs({})
  BY <1>1, <1>2 DEF StoreTypeOK, OnlyJobs, storeVars
<1>4. QED
  BY <1>1, <1>2, <1>3, SameCalls DEF LocalTypeOK

LEMMA StepInv == Inv /\ [Next]_vars => Inv'
<1> SUFFICES ASSUME Inv, [Next]_vars
             PROVE  Inv'
  OBVIOUS
<1>1. ASSUME NEW made \in Calls, Submit(made)
      PROVE  Inv'
  BY <1>1, SubmitStep
<1>2. ASSUME NEW c \in CallIds,
             GiveBack(c) \/ Start(c) \/ Resume(c) \/ Probe(c) \/ ProbeReturns(c)
      PROVE  Inv'
  BY <1>2, GiveBackStep, StartStep, PlainReturns, GetReturnsStep,
     PrefetchReturnsStep, ProbeStep DEF Resume
<1>3. ASSUME NEW j \in Jobs, GetResumes(j) \/ Work(j)
      PROVE  Inv'
  BY <1>3, GetResumesStep, WorkStep
<1>4. CASE TakeJob \/ Others
  BY <1>4, TakeJobStep, OthersStep
<1>5. CASE Close \/ CloseStore \/ CloseShutdown \/ CloseReturns
  BY <1>5, CloseSteps
<1>6. CASE UNCHANGED vars
  BY <1>6, StutterInv
<1>7. running \subseteq Jobs
  BY DEF Inv, TypeOK
<1>8. QED
  BY <1>1, <1>2, <1>3, <1>4, <1>5, <1>6, <1>7
     DEF Next, LoopThread, PoolThreads, OtherThreads

(* The inductive invariant: besides the properties, that calls are numbered, *)
(* that every job and every result belongs to a call in the phase for it,    *)
(* and that a buffer is with one owner at a time and holds that owner's key. *)
THEOREM Inductive == Spec => []Inv
<1>1. Init => Inv
  BY InitInv
<1>2. Inv /\ [Next]_vars => Inv'
  BY StepInv
<1>3. QED
  BY <1>1, <1>2, PTL DEF Spec

(* In every run of CouchbaseConnector each buffer of LMCache's allocator is *)
(* free, with one get, or with LMCache as one result: none is released      *)
(* twice, released while it is in use, or handed out twice.                 *)
THEOREM EveryBufferIsAccounted == Spec => []BuffersAccounted
<1>1. Inv => BuffersAccounted
  BY DEF Inv
<1>2. QED
  BY <1>1, Inductive, PTL

(* A get whose batch raised is the only place a buffer can get lost in: a   *)
(* prefetch that meets errors, and any call that returned, leaks none.      *)
THEOREM NothingElseLeaks == Spec => []OnlyRaisingGetsLeak
<1>1. Inv => OnlyRaisingGetsLeak
  <2> SUFFICES ASSUME Inv, NEW j \in Jobs, got[j] \in Buffers
               PROVE  \/ Phase(j[1]) = "running"
                      \/ Kind(j[1]) = "get" /\ Phase(j[1]) = "raised"
    BY DEF OnlyRaisingGetsLeak
  <2>1. IsJob(j) /\ Kind(j[1]) \in Fetches
    BY BuffersAssumption DEF Inv, FetchesOK
  <2>2. Phase(j[1]) # "returned" /\ (Kind(j[1]) = "prefetch" => Phase(j[1]) # "raised")
    BY <2>1 DEF Inv, FetchesOK
  <2>3. QED
    BY <2>1, <2>2 DEF IsJob, Started, Fetches
<1>2. QED
  BY <1>1, Inductive, PTL

(* A buffer LMCache got for the i-th of its keys holds the chunk of that    *)
(* key, in whichever order the gets came back and whatever else was fetched *)
(* since.                                                                   *)
THEOREM ResultsMatchKeys == Spec => []ResultsArePositional
<1>1. Inv => ResultsArePositional
  <2> SUFFICES ASSUME Inv, NEW c \in CallIds, Kind(c) \in Fetches,
                      NEW i \in DOMAIN call[c].result, call[c].result[i] \in Buffers
               PROVE  content[call[c].result[i]] = call[c].keys[i]
    BY DEF ResultsArePositional
  <2>1. DOMAIN call[c].result = 1 .. Len(call[c].result) /\ Len(call[c].result) \in Nat
    <3>1. call[c].result \in Seq(Keys \cup Buffers \cup {"absent"})
      BY TypeParts DEF Inv, LocalTypeOK, Records
    <3>2. QED
      BY <3>1
  <2>2. /\ Len(call[c].keys) \in Nat /\ Indices(c) = 1 .. Len(call[c].keys)
        /\ \A n \in Indices(c) : <<c, n>> \in Jobs
        /\ Len(call[c].result) <= Len(call[c].keys)
    BY IndicesFinite, CallsAssumption DEF Inv, CallsOK
  <2>3. <<c, i>> \in Jobs
    BY <2>1, <2>2
  <2>4. Has(<<c, i>>, call[c].result[i])
    BY DEF Has
  <2>5. QED
    BY <2>3, <2>4 DEF Inv, ContentsOK, KeyOf
<1>2. QED
  BY <1>1, Inductive, PTL

(* Every reachable state of the connector has the types it is written for.  *)
THEOREM TypeCorrect == Spec => []TypeOK
<1>1. Inv => TypeOK
  BY DEF Inv
<1>2. QED
  BY <1>1, Inductive, PTL

-----------------------------------------------------------------------------
(* The settings.                                                            *)

LEMMA FieldKinds ==
    ASSUME NEW f \in Fields
    PROVE  \/ f \in Required
           \/ f \in Texts /\ f \notin Required
           \/ f = "ttl_seconds" /\ f \notin Required /\ f \notin Texts
           \/ f \in Timeouts /\ f \notin Required /\ f \notin Texts /\ f # "ttl_seconds"
           \/ f \in Counts /\ f \notin Required /\ f \notin Texts /\ f # "ttl_seconds"
                           /\ f \notin Timeouts
  BY DEF Fields, Required, Texts, Timeouts, Counts, WholeNumbers

(* What is found counts, what the environment says is the same as if found. *)
LEMMA EnvironmentAsFound ==
    ASSUME NEW f \in Fields, NEW v \in ValueForms, v # None, NEW env
    PROVE  /\ Resolve(f, v, env) = Resolve(f, None, v)
           /\ Resolve(f, v, env) = Resolve(f, v, Unset)
  <1>1. v # Unset
    BY DEF ValueForms, Unset, Value
  <1>2. \A d : Get(v, env, d) = v /\ Get(None, v, d) = v /\ Get(v, Unset, d) = v
    BY <1>1 DEF Get
  <1>. QED BY <1>2 DEF Resolve

(* A value may be spelled, unless it is a float for a whole number.         *)
LEMMA SpellingKept ==
    ASSUME NEW f \in Fields, NEW v \in ValueForms, v # None, ~LostInSpelling(f, v)
    PROVE  Resolve(f, None, Spelled(v)) = Resolve(f, None, v)
  <1>. DEFINE w == Spelled(v)
  <1>1. /\ w \in ValueForms /\ w # None
        /\ AsText(w) = AsText(v)
        /\ w \in {None, Empty} <=> v \in {None, Empty}
        /\ w.n = v.n /\ w.rest = v.rest
        /\ w.form = "text" <=> v.form = "text"
        /\ v.form # "float" => (w.form = "decimal" <=> v.form = "decimal")
    BY DEF Spelled, AsText, ValueForms, None, Empty, Value
  <1>2. v # Unset /\ w # Unset
    BY <1>1 DEF ValueForms, Unset, Value
  <1>. HIDE DEF w
  <1>3. \A d : Get(None, v, d) = v /\ Get(None, w, d) = w
    BY <1>2 DEF Get
  <1>4. RequiredValue(w) = RequiredValue(v)
    BY <1>1 DEF RequiredValue
  <1>5. \A d : AsFloat(w, d) = AsFloat(v, d)
    BY <1>1 DEF AsFloat
  <1>6. ASSUME f \in WholeNumbers PROVE \A d : AsInt(w, d) = AsInt(v, d)
    BY <1>1, <1>6 DEF AsInt, LostInSpelling
  <1>. QED BY <1>1, <1>3, <1>4, <1>5, <1>6, FieldKinds DEF Resolve, WholeNumbers, w

(* A float for a whole number: as a value it counts without its fraction,   *)
(* spelled out it is refused.                                               *)
LEMMA SpellingRefused ==
    ASSUME NEW f \in Fields, NEW v \in ValueForms, LostInSpelling(f, v), NEW env
    PROVE  /\ Resolve(f, v, env) = Resolve(f, Value("int", v.n, 0), env)
           /\ Resolve(f, None, Spelled(v)) = Raised
  <1>. DEFINE i == Value("int", v.n, 0)
              w == Spelled(v)
  <1>1. /\ v # None /\ v # Empty /\ v # Unset
        /\ i # None /\ i # Empty /\ i # Unset
        /\ w # None /\ w # Empty /\ w # Unset /\ w.form = "decimal"
        /\ i.form = "int" /\ i.n = v.n /\ v.form = "float"
    BY DEF LostInSpelling, Spelled, AsText, ValueForms, None, Empty, Unset, Value
  <1>. HIDE DEF i, w
  <1>2. \A d : Get(v, env, d) = v /\ Get(i, env, d) = i /\ Get(None, w, d) = w
    BY <1>1 DEF Get
  <1>3. \A d : AsInt(v, d) = AsInt(i, d) /\ AsInt(w, d) = Raised
    BY <1>1 DEF AsInt
  <1>4. f \notin Required /\ f \notin Texts /\ f \notin Timeouts
    BY DEF LostInSpelling, WholeNumbers, Counts, Required, Texts, Timeouts
  <1>5. \A d : Or(Raised, d) = Raised
    BY DEF Or, Raised, None, Value
  <1>. QED BY <1>2, <1>3, <1>4, <1>5 DEF Resolve, i, w

(* "Both plugins accept the same settings" (README.md:283): a               *)
(* value comes out the same, given as a key of the instance, of the plugin  *)
(* type, in adapter_params or in the environment, whatever the value and    *)
(* the name of the plugin; only a float that is to be a whole number loses  *)
(* its fraction by the first three routes and is refused by the fourth      *)
(* (_as_int, config.py:23).                                                 *)
THEOREM RoutesAgree == SameByEveryRoute
  <1>. SUFFICES ASSUME NEW f \in Fields, NEW p \in Plugins, NEW v \in Values \ {None},
                       NEW env \in Env
                PROVE  LET ps == Plugins \cup {PluginType(p)}
                           byInstance == [q \in ps |-> IF q = p THEN v ELSE Unset]
                           byType == [q \in ps |-> IF q = PluginType(p) THEN v ELSE Unset]
                           plain == Resolve(f, LookupPlain(v), env)
                           byEnvironment == Resolve(f, LookupNothing, Spelled(v))
                       IN  /\ Resolve(f, LookupExtra(byInstance, p), env) = plain
                           /\ Resolve(f, LookupExtra(byType, p), env) = plain
                           /\ IF LostInSpelling(f, v)
                              THEN /\ plain = Resolve(f, Value("int", v.n, 0), env)
                                   /\ byEnvironment = Raised
                              ELSE byEnvironment = plain
    BY DEF SameByEveryRoute
  <1>. DEFINE ps == Plugins \cup {PluginType(p)}
              byInstance == [q \in ps |-> IF q = p THEN v ELSE Unset]
              byType == [q \in ps |-> IF q = PluginType(p) THEN v ELSE Unset]
  <1>1. v \in ValueForms /\ v # None /\ v # Unset
    BY ValuesAssumption DEF ValueForms, Unset, Value
  <1>2. LookupPlain(v) = v /\ LookupNothing = None
    BY <1>1 DEF LookupPlain, LookupNothing
  <1>3. LookupExtra(byInstance, p) = v
    BY <1>1 DEF LookupExtra
  <1>4. LookupExtra(byType, p) = v
    <2>1. byType[PluginType(p)] = v /\ byType[p] \in {v, Unset}
      OBVIOUS
    <2>. QED BY <1>1, <2>1 DEF LookupExtra
  <1>5. ~LostInSpelling(f, v) => Resolve(f, None, Spelled(v)) = Resolve(f, v, env)
    BY <1>1, SpellingKept, EnvironmentAsFound
  <1>6. LostInSpelling(f, v) => /\ Resolve(f, v, env) = Resolve(f, Value("int", v.n, 0), env)
                                /\ Resolve(f, None, Spelled(v)) = Raised
    BY <1>1, SpellingRefused
  <1>. QED BY <1>2, <1>3, <1>4, <1>5, <1>6

(* "Any field left out falls back to the environment variable"              *)
(* (README.md:288), and no other, whatever the values: None at the          *)
(* instance hides the plugin type's value, zero and empty do not fall back. *)
THEOREM OnlyTheLeftOutFallBack == OnlyLeftOutFallsBack
  <1>. SUFFICES ASSUME NEW f \in Fields, NEW p \in Plugins, NEW own \in Given,
                       NEW shared \in Given, NEW env \in Env
                PROVE  LET extra == [q \in {p, PluginType(p)} |->
                                        IF q = p THEN own ELSE shared]
                           used == IF own = Unset THEN extra[PluginType(p)] ELSE own
                       IN  Resolve(f, LookupExtra(extra, p), env) =
                              IF used \in {Unset, None}
                              THEN Resolve(f, LookupNothing, env)
                              ELSE Resolve(f, LookupPlain(used), Unset)
    BY DEF OnlyLeftOutFallsBack
  <1>. DEFINE extra == [q \in {p, PluginType(p)} |-> IF q = p THEN own ELSE shared]
              used == IF own = Unset THEN extra[PluginType(p)] ELSE own
  <1>1. extra[p] = own /\ extra[PluginType(p)] \in {own, shared}
    OBVIOUS
  <1>2. used \in ValueForms \cup {Unset}
    BY <1>1, ValuesAssumption DEF Given
  <1>3. LookupExtra(extra, p) = IF used = Unset THEN None ELSE used
    BY <1>1 DEF LookupExtra
  <1>. HIDE DEF used, extra
  <1>4. Resolve(f, LookupExtra(extra, p), env) =
            IF used \in {Unset, None} THEN Resolve(f, LookupNothing, env)
                                      ELSE Resolve(f, LookupPlain(used), Unset)
    <2>1. CASE used \in {Unset, None}
      BY <1>3, <2>1 DEF LookupNothing
    <2>2. CASE used \notin {Unset, None}
      <3>1. LookupExtra(extra, p) = used /\ LookupPlain(used) = used
        BY <1>3, <2>2 DEF LookupPlain
      <3>2. Resolve(f, used, env) = Resolve(f, used, Unset)
        BY <1>2, <2>2, EnvironmentAsFound
      <3>. QED BY <2>2, <3>1, <3>2
    <2>. QED BY <2>1, <2>2
  <1>. QED BY <1>4 DEF used, extra

(* A count that is empty, zero or a fraction, wherever it comes from, means *)
(* its default and never a pool without threads or a shard size the store   *)
(* refuses, whatever the values.                                            *)
THEOREM ZeroIsDefault == ZeroMeansDefault
  <1>. SUFFICES ASSUME NEW f \in Counts, NEW given \in Values, NEW env \in Env,
                       LET set == Get(given, env, None)
                       IN  \/ set \in {None, Empty}
                           \/ set.form \in {"int", "float", "numeral"} /\ set.n = 0
                PROVE  Resolve(f, given, env) = DefaultNumber[f]
                       /\ ~StoreRefuses(Resolve(f, given, env))
    BY DEF ZeroMeansDefault
  <1>. DEFINE set == Get(given, env, None)
              d == DefaultNumber[f]
  <1>1. d \in {Value("int", 32, 0), Value("int", 1048576, 0)}
    BY SMT DEF Counts, DefaultNumber
  <1>. HIDE DEF d
  <1>2. /\ f \in Fields /\ f \notin Required /\ f \notin Texts /\ f # "ttl_seconds"
        /\ f \notin Timeouts
    BY DEF Fields, Counts, WholeNumbers, Required, Texts, Timeouts
  <1>4. d # None /\ d # Value("int", 0, 0)
    BY <1>1, SMT DEF Value, None
  <1>5. Resolve(f, given, env) = Or(AsInt(set, d), d)
    BY <1>2 DEF Resolve, d
  <1>. HIDE DEF set
  <1>6. ~StoreRefuses(d)
    <2>1. CASE d = Value("int", 32, 0)
      BY <2>1, SMT DEF StoreRefuses, Value
    <2>2. CASE d = Value("int", 1048576, 0)
      BY <2>2, SMT DEF StoreRefuses, Value
    <2>. QED BY <1>1, <2>1, <2>2, SMT
  <1>7. AsInt(set, d) \in {d, Value("int", 0, 0)}
    BY DEF AsInt, set
  <1>8. Resolve(f, given, env) = d
    BY <1>4, <1>5, <1>7 DEF Or
  <1>. QED BY <1>6, <1>8 DEF d

(* The connector starts from settings that do not depend on the way they    *)
(* were given (CouchbaseConnector.__init__), but for floats given for whole *)
(* numbers, whatever the values, the plugin names and what LMCache does     *)
(* with it.                                                                 *)
THEOREM ConnectorSettingsAgree == Spec => []SettingsAreTheSame
  <1>1. SettingsAreTheSame
    BY RoutesAgree DEF SettingsAreTheSame
  <1>. QED BY <1>1, PTL

(* The connector starts from the environment's settings where, and only     *)
(* where, none was given, and from counts the store and the pool accept     *)
(* (CouchbaseConnector.__init__), whatever the values and plugin names.     *)
THEOREM ConnectorSettingsFallBack == Spec => []SettingsFallBack
  <1>1. SettingsFallBack
    BY OnlyTheLeftOutFallBack, ZeroIsDefault DEF SettingsFallBack
  <1>. QED BY <1>1, PTL
=============================================================================
