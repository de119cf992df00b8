------------------------------ MODULE Connector ------------------------------
(***************************************************************************)
(* CouchbaseConnector (connector.py): LMCache's in-process mode.  A call   *)
(* of LMCache is a coroutine on LMCache's event loop, which runs one step  *)
(* of one coroutine at a time, or a plain function on one of its threads.  *)
(* A coroutine hands one job per key to the FIFO queue of a thread pool    *)
(* and gathers the results.  A chunk that was fetched is copied on the     *)
(* loop into a buffer of LMCache's allocator; buffers are counted by       *)
(* reference and must be handed to LMCache or released.                    *)
(*                                                                         *)
(* The store is used through its abstract specification ChunkCache, one    *)
(* client of it per job.                                                   *)
(***************************************************************************)
EXTENDS Integers, Sequences, FiniteSets

CONSTANTS
    MaxWorkers,  \* threads of the pool
    Keys,        \* chunk keys
    Calls,       \* the calls LMCache makes: their kind and list of keys
    MaxKeys,     \* bound: length of such a list
    Malformed,   \* keys whose document has a bad metadata header
    Oversized,   \* keys whose payload is larger than the buffer for it
    Buffers,     \* the buffers of LMCache's allocator
    Nothing,     \* what a buffer contains before it is first filled
    MaxCalls,    \* bound: calls made
    Reliable,    \* nothing is removed, expires or is evicted
    Faults,      \* SDK calls may raise
    MayClose     \* LMCache may close the connector

LoopKinds == {"put", "get", "prefetch", "count"}
ThreadKinds == {"contains", "remove"}
Fetches == {"get", "prefetch"}
CallIds == 1 .. MaxCalls

ASSUME PoolAssumption == MaxWorkers \in Nat \ {0}
ASSUME CallsAssumption ==
    /\ MaxKeys \in Nat
    /\ \A made \in Calls :
          /\ made.kind \in LoopKinds \cup ThreadKinds
          /\ made.keys \in Seq(Keys)
          /\ Len(made.keys) <= MaxKeys
ASSUME KeysAssumption == Keys # {} /\ Malformed \cup Oversized \subseteq Keys
ASSUME BuffersAssumption ==
    /\ Buffers \cap {"none", "absent", "raised", "passed on"} = {}
    /\ Buffers \cap Keys = {}
    /\ Nothing \notin Keys
ASSUME MaxCallsAssumption == MaxCalls \in Nat
ASSUME ModeAssumption ==
    /\ {Reliable, Faults, MayClose} \subseteq BOOLEAN
    /\ Reliable => \A made \in Calls : made.kind # "remove"

VARIABLES
    cached, inDoubt, request, key, found, reply,    \* the store, see ChunkCache
    call,      \* the calls, by number
    queue,     \* jobs submitted to the pool and not yet taken by a thread
    running,   \* jobs the threads of the pool are at
    got,       \* got[j]: what the get coroutine of job j came to
    free,      \* buffers the allocator may hand out
    content,   \* content[b]: the chunk last copied into buffer b
    closer     \* how far close() is

storeVars == <<cached, inDoubt, request, key, found, reply>>
poolVars == <<queue, running>>
bufferVars == <<got, free, content>>
vars == <<storeVars, call, poolVars, bufferVars, closer>>

(* <<c, i>> is the job of call c for the i-th of its keys; close() is a job *)
(* too.                                                                     *)
Jobs == CallIds \X (1 .. MaxKeys)
CloseJob == <<0, 0>>

Store == INSTANCE ChunkCache WITH Clients <- Jobs

Phases == {"none", "submitted", "running", "returned", "raised"}
NoCall == [kind |-> "none", keys |-> <<>>, phase |-> "none", result |-> <<>>]

Kind(c) == call[c].kind
Phase(c) == call[c].phase
Made == {c \in CallIds : Phase(c) # "none"}
Indices(c) == DOMAIN call[c].keys
JobsOf(c) == [i \in Indices(c) |-> <<c, i>>]
KeyOf(j) == call[j[1]].keys[j[2]]

Init ==
    /\ key = [j \in Jobs |-> CHOOSE k \in Keys : TRUE]
    /\ Store!Init
    /\ call = [c \in CallIds |-> NoCall]
    /\ queue = <<>>
    /\ running = {}
    /\ got = [j \in Jobs |-> "none"]
    /\ free = Buffers
    /\ content = [b \in Buffers |-> Nothing]
    /\ closer = "open"

-----------------------------------------------------------------------------
(* LMCache calls.  get, put and exists are batches of one key; a function   *)
(* on a thread of LMCache runs at once.                                     *)

Submit(made) ==
    LET c == Cardinality(Made) + 1
    IN  /\ c \in CallIds
        /\ call' = [call EXCEPT ![c] =
              [kind |-> made.kind, keys |-> made.keys, result |-> <<>>,
               phase |-> IF made.kind \in LoopKinds THEN "submitted" ELSE "running"]]
        /\ UNCHANGED <<storeVars, poolVars, bufferVars, closer>>

Become(c, phase, result) ==
    call' = [call EXCEPT ![c] = [kind |-> Kind(c), keys |-> call[c].keys,
                                 phase |-> phase, result |-> result]]

Return(c, result) == Become(c, "returned", result)

Raise(c) == Become(c, "raised", <<>>)

-----------------------------------------------------------------------------
(* close(): the store is closed by a job, then the executor is shut down on *)
(* the loop's thread, which blocks the loop until all jobs have run.        *)

StoreClosed == closer \in {"store closed", "draining", "closed"}
PoolShut == closer \in {"draining", "closed"}
LoopFree == closer # "draining"

Close ==
    /\ MayClose
    /\ closer = "open"
    /\ closer' = "queued"
    /\ queue' = Append(queue, CloseJob)
    /\ UNCHANGED <<storeVars, call, running, bufferVars>>

CloseStore ==
    /\ queue # <<>>
    /\ Head(queue) = CloseJob
    /\ Cardinality(running) < MaxWorkers
    /\ queue' = Tail(queue)
    /\ closer' = "store closed"
    /\ UNCHANGED <<storeVars, call, running, bufferVars>>

CloseShutdown ==
    /\ closer = "store closed"
    /\ closer' = "draining"
    /\ UNCHANGED <<storeVars, call, poolVars, bufferVars>>

(* Mutant: shutdown(wait=False). *)
DrainedAtOnce == TRUE

(* Mutant: close() waits for the calls under way. *)
DrainedOfCalls == \A c \in CallIds : Phase(c) # "running"

(* shutdown(wait=True, cancel_futures=False)                                *)
Drained == queue = <<>> /\ running = {}

CloseReturns ==
    /\ closer = "draining"
    /\ Drained
    /\ closer' = "closed"
    /\ UNCHANGED <<storeVars, call, poolVars, bufferVars>>

-----------------------------------------------------------------------------
(* The pool.                                                                *)

(* The jobs in js end with an error before they reach the store.            *)
Refuse(js) ==
    /\ reply' = [j \in Jobs |-> IF j \in js THEN "error" ELSE reply[j]]
    /\ UNCHANGED <<cached, inDoubt, request, key, found>>

(* gather hands the jobs of all keys to the pool, which refuses once shut.  *)
Start(c) ==
    /\ LoopFree
    /\ Phase(c) = "submitted"
    /\ Become(c, "running", <<>>)
    /\ IF PoolShut
       THEN Refuse({<<c, i>> : i \in Indices(c)}) /\ UNCHANGED queue
       ELSE queue' = queue \o JobsOf(c) /\ UNCHANGED storeVars
    /\ UNCHANGED <<running, bufferVars, closer>>

RequestOf(kind) == IF kind \in Fetches THEN "fetch"
                   ELSE IF kind = "put" THEN "write"
                   ELSE IF kind = "remove" THEN "measure" ELSE "ask"

(* A thread begins the request of job j, or finds the store closed.         *)
BeginJob(j) ==
    IF StoreClosed THEN Refuse({j})
                   ELSE Store!Begin(j, RequestOf(Kind(j[1])), KeyOf(j))

TakeJob ==
    /\ queue # <<>>
    /\ Head(queue) # CloseJob
    /\ Cardinality(running) < MaxWorkers
    /\ BeginJob(Head(queue))
    /\ running' = IF StoreClosed THEN running ELSE running \cup {Head(queue)}
    /\ queue' = Tail(queue)
    /\ UNCHANGED <<call, bufferVars, closer>>

Work(j) ==
    /\ Store!Answer(j)
    /\ running' = IF reply'[j] = "none" THEN running ELSE running \ {j}
    /\ UNCHANGED <<call, queue, bufferVars, closer>>

-----------------------------------------------------------------------------
(* get(), on the loop: _decode checks the document, allocates a buffer,     *)
(* copies the payload, and releases the buffer if that raises.              *)

Settle(j, outcome) == got' = [got EXCEPT ![j] = outcome]

(* Mutant: the buffer is not released when the payload does not fit. *)
MisfitKept == free \ {CHOOSE b \in free : TRUE}

MisfitReleased == free

Decode(j) ==
    \/ /\ KeyOf(j) \in Malformed
       /\ Settle(j, "raised")
       /\ UNCHANGED <<free, content>>
    \/ /\ KeyOf(j) \notin Malformed /\ free = {}
       /\ Settle(j, "absent")
       /\ UNCHANGED <<free, content>>
    \/ /\ KeyOf(j) \in Oversized \ Malformed /\ free # {}
       /\ Settle(j, "raised")
       /\ free' = MisfitReleased
       /\ UNCHANGED content
    \/ /\ KeyOf(j) \notin Oversized \cup Malformed
       /\ \E b \in free :
             /\ Settle(j, b)
             /\ free' = free \ {b}
             /\ content' = [content EXCEPT ![b] = KeyOf(j)]

(* Other gets of a batch go on when one of them has raised.                 *)
GetResumes(j) ==
    /\ LoopFree
    /\ Kind(j[1]) \in Fetches
    /\ got[j] = "none"
    /\ \/ reply[j] = "hit" /\ Decode(j)
       \/ reply[j] = "miss" /\ Settle(j, "absent") /\ UNCHANGED <<free, content>>
       \/ reply[j] = "error" /\ Settle(j, "raised") /\ UNCHANGED <<free, content>>
    /\ UNCHANGED <<storeVars, call, poolVars, closer>>

-----------------------------------------------------------------------------
(* The coroutine of a call resumes from gather.                             *)

Outcome(j) == IF Kind(j[1]) \in Fetches THEN got[j] ELSE reply[j]
Outcomes(c) == [i \in Indices(c) |-> Outcome(<<c, i>>)]
AllSettled(c) == \A i \in Indices(c) : Outcome(<<c, i>>) # "none"

(* Mutant: the exceptions of a put are gathered and dropped. *)
FailedFetch(c) ==
    Kind(c) # "put" /\ \E i \in Indices(c) : Outcome(<<c, i>>) \in {"error", "raised"}

Failed(c) == \E i \in Indices(c) : Outcome(<<c, i>>) \in {"error", "raised"}

(* The buffers of call c are passed on: to LMCache, or to the allocator.    *)
PassOn(c) == got' = [j \in Jobs |-> IF j[1] = c /\ got[j] \in Buffers
                                    THEN "passed on" ELSE got[j]]

Resumes(c, kinds) == LoopFree /\ Phase(c) = "running" /\ Kind(c) \in kinds

(* Mutant: a prefetch gathers without return_exceptions. *)
AllRaise == LoopKinds

RaisingKinds == {"put", "get", "count"}

(* gather passes the first exception on at once and forgets the others.     *)
GatherRaises(c) ==
    /\ Resumes(c, RaisingKinds)
    /\ Failed(c)
    /\ Raise(c)
    /\ UNCHANGED <<storeVars, poolVars, bufferVars, closer>>

PutReturns(c) ==
    /\ Resumes(c, {"put"})
    /\ AllSettled(c) /\ ~Failed(c)
    /\ Return(c, <<>>)
    /\ UNCHANGED <<storeVars, poolVars, bufferVars, closer>>

GetReturns(c) ==
    /\ Resumes(c, {"get"})
    /\ AllSettled(c) /\ ~Failed(c)
    /\ Return(c, Outcomes(c))
    /\ PassOn(c)
    /\ UNCHANGED <<storeVars, poolVars, free, content, closer>>

(* Mutant: the counting goes on behind a chunk that is missing. *)
PrefixOfAny(c, good) == Cardinality({i \in Indices(c) : Outcome(<<c, i>>) \in good})

(* The number of outcomes before the first that is not in good.             *)
Prefix(c, good) ==
    Cardinality({i \in Indices(c) : \A n \in 1 .. i : Outcome(<<c, n>>) \in good})

CountReturns(c) ==
    /\ Resumes(c, {"count"})
    /\ AllSettled(c) /\ ~Failed(c)
    /\ Return(c, SubSeq(call[c].keys, 1, Prefix(c, {"yes"})))
    /\ UNCHANGED <<storeVars, poolVars, bufferVars, closer>>

(* Mutant: every object that was fetched is returned. *)
DeliveredCompact(c) == LET IsBuffer(o) == o \in Buffers
                       IN  SelectSeq(Outcomes(c), IsBuffer)

(* return_exceptions: results stop at the first miss or error.              *)
Delivered(c) == SubSeq(Outcomes(c), 1, Prefix(c, Buffers))

Behind(c) == {Outcome(<<c, i>>) : i \in {n \in Indices(c) : n > Prefix(c, Buffers)}}

(* Mutant: also what is no object is released. *)
ReleasedAny(c) == Behind(c)

(* The objects behind the first miss or error.                              *)
Released(c) == Behind(c) \cap Buffers

PrefetchReturns(c) ==
    /\ Resumes(c, {"prefetch"})
    /\ AllSettled(c)
    /\ Return(c, Delivered(c))
    /\ free' = free \cup Released(c)
    /\ PassOn(c)
    /\ UNCHANGED <<storeVars, poolVars, content, closer>>

(* LMCache is done with the buffers a call has returned.                    *)
GiveBack(c) ==
    /\ Kind(c) \in Fetches
    /\ call[c].result # <<>>
    /\ free' = free \cup ({call[c].result[i] : i \in DOMAIN call[c].result} \ {"absent"})
    /\ Return(c, <<>>)
    /\ UNCHANGED <<storeVars, poolVars, got, content, closer>>

-----------------------------------------------------------------------------
(* batched_contains, exists_sync and remove_sync use the store on a thread  *)
(* of LMCache, one key after the other, up to the first that is missing.    *)

Probed(c) == {i \in Indices(c) : reply[<<c, i>>] # "none"}

Probing(c) ==
    /\ Kind(c) \in ThreadKinds
    /\ Phase(c) = "running"
    /\ \A i \in Indices(c) : request[<<c, i>>] = "none"

ProbeOver(c) ==
    Probed(c) = Indices(c) \/ \E i \in Probed(c) : reply[<<c, i>>] # "yes"

Probe(c) ==
    /\ Probing(c)
    /\ ~ProbeOver(c)
    /\ BeginJob(<<c, Cardinality(Probed(c)) + 1>>)
    /\ UNCHANGED <<call, poolVars, bufferVars, closer>>

ProbeReturns(c) ==
    /\ Probing(c)
    /\ ProbeOver(c)
    /\ IF Failed(c) THEN Raise(c)
                    ELSE Return(c, SubSeq(call[c].keys, 1, Prefix(c, {"yes"})))
    /\ UNCHANGED <<storeVars, poolVars, bufferVars, closer>>

-----------------------------------------------------------------------------
(* Other servers fill the store; writes given up on land late.              *)

Others ==
    /\ \/ \E k \in Keys : cached' = cached \cup {k}
          /\ UNCHANGED <<inDoubt, request, key, found, reply>>
       \/ ~Reliable /\ \E k \in Keys : Store!Drop(k)
       \/ \E k \in inDoubt : Store!Settle(k)
    /\ UNCHANGED <<call, poolVars, bufferVars, closer>>

Resume(c) ==
    \/ GatherRaises(c)
    \/ PutReturns(c)
    \/ GetReturns(c)
    \/ CountReturns(c)
    \/ PrefetchReturns(c)

LoopThread ==
    \/ \E c \in CallIds : Start(c) \/ Resume(c)
    \/ \E j \in Jobs : GetResumes(j)
    \/ CloseShutdown \/ CloseReturns

PoolThreads == TakeJob \/ CloseStore \/ \E j \in running : Work(j)

OtherThreads ==
    \/ \E c \in CallIds : Probe(c) \/ ProbeReturns(c)
    \/ \E j \in Jobs \ running : Work(j)

Next ==
    \/ \E made \in Calls : Submit(made)
    \/ \E c \in CallIds : GiveBack(c)
    \/ LoopThread
    \/ PoolThreads
    \/ OtherThreads
    \/ Close
    \/ Others

Spec == Init /\ [][Next]_vars

-----------------------------------------------------------------------------
(* Properties.                                                              *)

TypeOK ==
    /\ cached \subseteq Keys /\ inDoubt \subseteq Keys
    /\ request \in [Jobs -> Store!Requests \cup {"none", "remove", "sweep"}]
    /\ key \in [Jobs -> Keys]
    /\ found \in [Jobs -> BOOLEAN]
    /\ reply \in [Jobs -> Store!Replies]
    /\ call \in [CallIds -> [kind : LoopKinds \cup ThreadKinds \cup {"none"},
                             keys : Seq(Keys), phase : Phases,
                             result : Seq(Keys \cup Buffers \cup {"absent"})]]
    /\ queue \in Seq(Jobs \cup {CloseJob})
    /\ running \subseteq Jobs
    /\ got \in [Jobs -> Buffers \cup {"none", "absent", "raised", "passed on"}]
    /\ free \subseteq Buffers
    /\ content \in [Buffers -> Keys \cup {Nothing}]
    /\ closer \in {"open", "queued", "store closed", "draining", "closed"}

(* Job j has buffer b, or LMCache has it as the result for the key of j.    *)
Has(j, b) ==
    \/ got[j] = b
    \/ j[2] \in DOMAIN call[j[1]].result /\ call[j[1]].result[j[2]] = b

(* Every buffer is at any moment in exactly one place: with the allocator,  *)
(* with one job, or with LMCache as one result.  So each is released once,  *)
(* none while it is in use, and none is handed out twice (_decode,          *)
(* batched_get_non_blocking).                                               *)
BuffersAccounted ==
    \A b \in Buffers :
        /\ b \in free \/ \E j \in Jobs : Has(j, b)
        /\ \A j \in Jobs : Has(j, b) =>
              b \notin free /\ \A k \in Jobs : Has(k, b) => k = j

(* A buffer that nobody is going to pass on belongs to a get whose batch    *)
(* raised; nothing else leaks buffers.                                      *)
OnlyRaisingGetsLeak ==
    \A j \in Jobs : got[j] \in Buffers =>
        \/ Phase(j[1]) = "running"
        \/ Kind(j[1]) = "get" /\ Phase(j[1]) = "raised"

(* LMCache maps results onto keys by position: as long as it has a buffer   *)
(* that was returned for the i-th key, it reads the chunk of that key there. *)
ResultsArePositional ==
    \A c \in CallIds : Kind(c) \in Fetches =>
        \A i \in DOMAIN call[c].result :
            call[c].result[i] \in Buffers =>
                content[call[c].result[i]] = call[c].keys[i]

(* A put that returned has stored the chunks of all its keys: no failure of *)
(* one of the jobs, not even because of close(), goes unnoticed.            *)
ReturnedPutIsStored ==
    Reliable => \A c \in CallIds : Kind(c) = "put" /\ Phase(c) = "returned" =>
        \A i \in Indices(c) : call[c].keys[i] \in cached

(* As long as nothing is removed or lost, a prefix that was counted, by     *)
(* whichever of the two ways, can be fetched: no later read misses a chunk  *)
(* of it, although its keys are probed at different times.                  *)
CountedIsReadable ==
    [][\A j \in Jobs : reply[j] # "miss" /\ reply'[j] = "miss" =>
          \A c \in CallIds : Kind(c) \in {"count", "contains"} =>
              \A i \in DOMAIN call[c].result : call[c].result[i] # key[j]]_vars

(* When close() has returned no thread of the pool uses the store.          *)
NoUseAfterClose ==
    closer = "closed" =>
        \A j \in Jobs : Kind(j[1]) \in LoopKinds => request[j] = "none"

(* Every job of a call that has started is in exactly one place: queued,    *)
(* once, with one thread that is at the store for it, or answered; and      *)
(* close() that waits for its job has it in the queue.                      *)
JobsAccounted ==
    LET Queued(j) == \E n \in DOMAIN queue : queue[n] = j
    IN  /\ \A c \in CallIds : Kind(c) \in LoopKinds /\ Phase(c) # "submitted" =>
              \A j \in {<<c, i>> : i \in Indices(c)} :
                 \/ Queued(j) /\ j \notin running /\ reply[j] = "none"
                 \/ j \in running /\ ~Queued(j) /\ reply[j] = "none"
                 \/ reply[j] # "none" /\ ~Queued(j) /\ j \notin running
        /\ \A n, m \in DOMAIN queue : queue[n] = queue[m] => n = m
        /\ \A j \in running : request[j] # "none"
        /\ Queued(CloseJob) <=> closer = "queued"

Pending == \/ \E c \in CallIds : Phase(c) \in {"submitted", "running"}
           \/ closer \notin {"open", "closed"}

(* What can be done next: by the caller of close(), by a thread of the pool *)
(* or of LMCache, by the loop.                                              *)
CanGoOn ==
    \/ closer = "store closed"
    \/ closer = "draining" /\ Drained
    \/ queue # <<>> /\ Cardinality(running) < MaxWorkers
    \/ \E j \in Jobs : request[j] # "none"
    \/ \E c \in CallIds : Probing(c)
    \/ /\ LoopFree
       /\ \/ \E c \in CallIds : Phase(c) = "submitted"
          \/ \E j \in Jobs : /\ Kind(j[1]) \in Fetches /\ got[j] = "none"
                             /\ reply[j] \in {"hit", "miss", "error"}
          \/ \E c \in CallIds :
                /\ Phase(c) = "running" /\ Kind(c) \in LoopKinds
                /\ AllSettled(c) \/ (Failed(c) /\ Kind(c) \in RaisingKinds)

(* No deadlock: while a call or close() is under way, some thread has what  *)
(* it waits for, although close() blocks the loop until the pool has        *)
(* drained and the calls under way need both; and no future of a gather is  *)
(* left that nobody is going to resolve, whatever close() refused or cut    *)
(* off (_run, close).                                                       *)
NobodyStuck == JobsAccounted /\ (Pending => CanGoOn)
=============================================================================
