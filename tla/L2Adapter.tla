------------------------------ MODULE L2Adapter ------------------------------
(***************************************************************************)
(* CouchbaseL2Adapter (l2_adapter.py): one LMCache server's tasks on the   *)
(* chunk cache.  A task is a coroutine on the adapter's event loop, which  *)
(* runs one coroutine at a time; its blocking calls are jobs in the FIFO   *)
(* queue of a thread pool; its result is published under a lock and        *)
(* signalled through the event fd of its kind.  LMCache polls the fds, and *)
(* its eviction thread calls delete, which blocks until the loop is done.  *)
(*                                                                         *)
(* The store is used through its abstract specification ChunkCache.  A job *)
(* is one client of it: it makes one request, and the reply is the result  *)
(* of the job.                                                             *)
(***************************************************************************)
EXTENDS Integers, Sequences, FiniteSets

CONSTANTS
    MaxWorkers,  \* threads of the pool
    Keys,        \* chunk keys
    KeyLists,    \* the lists of keys LMCache passes to a task
    MaxKeys,     \* bound: length of such a list
    Misfits,     \* keys whose load buffer has not the size of the chunk
    Kinds,       \* the kinds of tasks LMCache submits
    MaxTasks,    \* bound: tasks submitted
    Reliable,    \* nothing is removed, expires or is evicted
    Shared,      \* other servers write and remove chunks, chunks expire
    Overlap,     \* a chunk is stored by several tasks at a time
    Faults,      \* SDK calls may raise, delete may take longer than 60 s
    MayClose     \* LMCache may close the adapter

TaskKinds == {"store", "lookup", "load", "delete"}
Signalled == TaskKinds \ {"delete"}
TaskIds == 0 .. MaxTasks - 1

ASSUME PoolAssumption == MaxWorkers \in Nat \ {0}
ASSUME KeyListsAssumption ==
    /\ MaxKeys \in Nat
    /\ \A keys \in KeyLists : keys \in Seq(Keys) /\ Len(keys) <= MaxKeys
ASSUME KeysAssumption == Keys # {} /\ Misfits \subseteq Keys
ASSUME KindsAssumption == Kinds \subseteq TaskKinds
ASSUME MaxTasksAssumption == MaxTasks \in Nat
ASSUME ModeAssumption ==
    /\ {Reliable, Shared, Overlap, Faults, MayClose} \subseteq BOOLEAN
    /\ Reliable => ~Shared /\ "delete" \notin Kinds

VARIABLES
    cached, inDoubt, request, key, found, reply,    \* the store, see ChunkCache
    task,       \* the tasks, by task id
    queue,      \* jobs submitted to the pool and not yet taken by a thread
    running,    \* jobs the threads of the pool are at
    loop,       \* the event loop and its thread
    completed,  \* published results LMCache has not fetched, by kind
    efd,        \* the event fds: signalled or not
    asking,     \* LMCache's pollers: tasks whose result is being asked for
    fetched,    \* tasks whose result LMCache has fetched
    gaveUp,     \* deletes that timed out
    listed,     \* chunks LMCache was told are stored, and not deleted
    closer      \* how far close() is

storeVars == <<cached, inDoubt, request, key, found, reply>>
poolVars == <<queue, running>>
clientVars == <<asking, fetched, gaveUp>>
vars == <<storeVars, task, poolVars, loop, completed, efd, clientVars,
          listed, closer>>

(* <<t, i>> is the job of task t for the i-th of its keys.                  *)
Jobs == TaskIds \X (1 .. MaxKeys)

Store == INSTANCE ChunkCache WITH Clients <- Jobs

-----------------------------------------------------------------------------
(* A task is "submitted" to the loop, "waiting" for its jobs, "resumed" by  *)
(* the loop, "published" and "done"; a delete is "returned" to its caller   *)
(* instead.  A task is "lost" when it can no longer end.                    *)

Phases == {"none", "submitted", "waiting", "resumed", "published", "returned",
           "done", "lost"}

NoTask == [kind |-> "none", keys |-> <<>>, phase |-> "none"]

Phase(t) == task[t].phase
Kind(t) == task[t].kind
Submitted == {t \in TaskIds : Phase(t) # "none"}

(* Mutant: jobs are numbered from 0. *)
JobsFromZero(t) == [i \in DOMAIN task[t].keys |-> <<t, i - 1>>]

JobsOf(t) == [i \in DOMAIN task[t].keys |-> <<t, i>>]
KeyOf(j) == task[j[1]].keys[j[2]]

(* Mutant: a lookup that fails counts as a hit. *)
ResultOptimistic(j) ==
    IF reply[j] = "error" /\ Kind(j[1]) = "lookup" THEN "yes" ELSE reply[j]

(* The result of a job, "none" while there is none.  A hit of the wrong     *)
(* length is not copied into the buffer.                                    *)
Result(j) ==
    IF reply[j] = "hit" /\ KeyOf(j) \in Misfits THEN "miss" ELSE reply[j]

(* gather lists the results in the order of the keys.                       *)
KeysWith(t, results) ==
    {task[t].keys[i] :
        i \in {n \in DOMAIN task[t].keys : Result(<<t, n>>) \in results}}

Goto(t, phase) == task' = [task EXCEPT ![t].phase = phase]

Init ==
    /\ key = [j \in Jobs |-> CHOOSE k \in Keys : TRUE]
    /\ Store!Init
    /\ task = [t \in TaskIds |-> NoTask]
    /\ queue = <<>>
    /\ running = {}
    /\ loop = "starting"
    /\ completed = [q \in Signalled |-> {}]
    /\ efd = [q \in Signalled |-> FALSE]
    /\ asking = [q \in Signalled |-> {}]
    /\ fetched = {}
    /\ gaveUp = {}
    /\ listed = {}
    /\ closer = "open"

-----------------------------------------------------------------------------
(* LMCache submits tasks.  Its one eviction thread calls delete again only  *)
(* when the last call is over, and for chunks it believes to be stored.     *)

Deleting == {t \in Submitted \ gaveUp : Kind(t) = "delete" /\ Phase(t) # "done"}
Storing(k) == \E t \in TaskIds :
    /\ Kind(t) = "store" /\ Phase(t) \in {"submitted", "waiting"}
    /\ \E i \in DOMAIN task[t].keys : task[t].keys[i] = k

Submit(kind, keys) ==
    LET t == Cardinality(Submitted)
    IN  /\ t \in TaskIds
        /\ kind = "delete" =>
              /\ keys # <<>>
              /\ Deleting = {}
              /\ \A i \in DOMAIN keys : keys[i] \in listed
        /\ kind = "store" =>
              Overlap \/ \A i \in DOMAIN keys : ~Storing(keys[i])
        /\ task' = [task EXCEPT ![t] =
              [kind |-> kind, keys |-> keys, phase |-> "submitted"]]
        /\ UNCHANGED <<storeVars, poolVars, loop, completed, efd, clientVars,
                       listed, closer>>

-----------------------------------------------------------------------------
(* The loop thread.  Between two awaits a coroutine has it for itself.      *)

LoopAlive == loop \in {"running", "stopping"}
LoopFree == LoopAlive /\ \A t \in TaskIds : Phase(t) \notin {"resumed", "published"}
PoolShut == closer \in {"draining", "closed"}

LoopRuns ==
    /\ loop = "starting"
    /\ loop' = "running"
    /\ UNCHANGED <<storeVars, task, poolVars, completed, efd, clientVars,
                   listed, closer>>

LoopStops ==
    /\ loop = "stopping"
    /\ LoopFree
    /\ loop' = "stopped"
    /\ UNCHANGED <<storeVars, task, poolVars, completed, efd, clientVars,
                   listed, closer>>

(* _map hands one job per key to the pool, which refuses once shut down.    *)
Start(t) ==
    /\ LoopFree
    /\ Phase(t) = "submitted"
    /\ IF PoolShut /\ task[t].keys # <<>>
       THEN Goto(t, "lost") /\ UNCHANGED queue
       ELSE Goto(t, "waiting") /\ queue' = queue \o JobsOf(t)
    /\ UNCHANGED <<storeVars, running, loop, completed, efd, clientVars,
                   listed, closer>>

(* Mutant: the jobs are not awaited. *)
NotAwaited(t) == TRUE

AllResults(t) == \A n \in DOMAIN JobsOf(t) : Result(<<t, n>>) # "none"

(* Mutant: chunks that were there already are notified as stored. *)
WrittenOrPresent == {"stored", "present"}

(* Only a chunk that was written has a size to be told to the listeners.    *)
WrittenResults == {"stored"}

(* The coroutine goes on when gather has every result, and first tells the  *)
(* listeners which chunks were stored.  A delete hands its results over to  *)
(* the calling thread.                                                      *)
Resume(t) ==
    /\ LoopFree
    /\ Phase(t) = "waiting"
    /\ AllResults(t)
    /\ Goto(t, IF Kind(t) = "delete" THEN "returned" ELSE "resumed")
    /\ listed' = IF Kind(t) = "store" THEN listed \cup KeysWith(t, WrittenResults)
                                      ELSE listed
    /\ UNCHANGED <<storeVars, poolVars, loop, completed, efd, clientVars, closer>>

(* Mutant: the event fd is signalled before the result is published. *)
SignalFirst(t) ==
    \/ /\ Phase(t) = "resumed"
       /\ efd' = [efd EXCEPT ![Kind(t)] = TRUE]
       /\ Goto(t, "published")
       /\ UNCHANGED completed
    \/ /\ Phase(t) = "published"
       /\ completed' = [completed EXCEPT ![Kind(t)] = @ \cup {t}]
       /\ Goto(t, "done")
       /\ UNCHANGED efd

PublishAndSignal(t) ==
    \/ /\ Phase(t) = "resumed"
       /\ completed' = [completed EXCEPT ![Kind(t)] = @ \cup {t}]
       /\ Goto(t, "published")
       /\ UNCHANGED efd
    \/ /\ Phase(t) = "published"
       /\ efd' = [efd EXCEPT ![Kind(t)] = TRUE]
       /\ Goto(t, "done")
       /\ UNCHANGED completed

Finish(t) ==
    /\ LoopAlive
    /\ PublishAndSignal(t)
    /\ UNCHANGED <<storeVars, poolVars, loop, clientVars, listed, closer>>

-----------------------------------------------------------------------------
(* The threads of the pool: _store_one, _exists_one, _load_one, _remove_one *)
(* each are one request to the store.                                       *)

RequestOf == [store |-> "offer", lookup |-> "ask", load |-> "fetch",
              delete |-> "measure"]

TakeJob ==
    /\ queue # <<>>
    /\ Cardinality(running) < MaxWorkers
    /\ running' = running \cup {Head(queue)}
    /\ queue' = Tail(queue)
    /\ Store!Begin(Head(queue), RequestOf[Kind(Head(queue)[1])], KeyOf(Head(queue)))
    /\ UNCHANGED <<task, loop, completed, efd, clientVars, listed, closer>>

Work(j) ==
    /\ j \in running
    /\ Store!Answer(j)
    /\ running' = IF reply'[j] = "none" THEN running ELSE running \ {j}
    /\ UNCHANGED <<task, queue, loop, completed, efd, clientVars, listed, closer>>

-----------------------------------------------------------------------------
(* LMCache's pollers.  Woken by the fd, which they reset, the store poller  *)
(* pops all results at once, the others ask for each outstanding task.      *)

Outstanding(q) == {t \in Submitted \ fetched : Kind(t) = q}

Wake(q) ==
    /\ asking[q] = {}
    /\ efd[q]
    /\ efd' = [efd EXCEPT ![q] = FALSE]
    /\ asking' = [asking EXCEPT ![q] = Outstanding(q)]
    /\ UNCHANGED <<storeVars, task, poolVars, loop, completed, fetched, gaveUp,
                   listed, closer>>

(* Mutant: only the results LMCache knew of when it woke are popped, and    *)
(* all are forgotten.                                                       *)
PoppedKnown == completed["store"] \cap asking["store"]

(* pop_completed_store_tasks swaps the dictionary for an empty one.         *)
Popped == completed["store"]

PopStores ==
    /\ asking["store"] # {}
    /\ fetched' = fetched \cup Popped
    /\ completed' = [completed EXCEPT !["store"] = {}]
    /\ asking' = [asking EXCEPT !["store"] = {}]
    /\ UNCHANGED <<storeVars, task, poolVars, loop, efd, gaveUp, listed, closer>>

Query(t) ==
    /\ Kind(t) \in {"lookup", "load"}
    /\ t \in asking[Kind(t)]
    /\ asking' = [asking EXCEPT ![Kind(t)] = @ \ {t}]
    /\ fetched' = fetched \cup ({t} \cap completed[Kind(t)])
    /\ completed' = [completed EXCEPT ![Kind(t)] = @ \ {t}]
    /\ UNCHANGED <<storeVars, task, poolVars, loop, efd, gaveUp, listed, closer>>

-----------------------------------------------------------------------------
(* The thread in delete().                                                  *)

(* Only chunks whose removal reported a size are told to the listeners.     *)
DeleteReturns(t) ==
    /\ Phase(t) = "returned"
    /\ t \notin gaveUp
    /\ listed' = listed \ KeysWith(t, {"removed"})
    /\ Goto(t, "done")
    /\ UNCHANGED <<storeVars, poolVars, loop, completed, efd, clientVars, closer>>

(* Mutant: the caller waits without a timeout. *)
WaitsForever == FALSE

(* More than 60 s pass only if SDK calls are slow or the loop is stopped.   *)
SixtySecondsPass == Faults \/ closer # "open"

(* .result(timeout=60) raises; the coroutine runs on.                       *)
DeleteTimesOut(t) ==
    /\ t \in Deleting
    /\ Phase(t) # "returned"
    /\ SixtySecondsPass
    /\ gaveUp' = gaveUp \cup {t}
    /\ UNCHANGED <<storeVars, task, poolVars, loop, completed, efd, asking,
                   fetched, listed, closer>>

-----------------------------------------------------------------------------
(* close(): stop the loop if it runs, join its thread for at most 10 s,     *)
(* shut the pool down and cancel its queue, wait for the jobs under way,    *)
(* close the store and the fds.                                             *)

CloseStop ==
    /\ MayClose
    /\ closer = "open"
    /\ closer' = "joining"
    /\ loop' = IF loop = "running" THEN "stopping" ELSE loop
    /\ UNCHANGED <<storeVars, task, poolVars, completed, efd, clientVars, listed>>

(* Mutant: the thread is joined without a timeout. *)
JoinedUntimed == loop = "stopped"

(* The loop thread has ended, or the join timed out.                        *)
Joined == TRUE

(* A job cancelled in the queue cancels the coroutine that waits for it.    *)
Cancelled(t) == Phase(t) = "waiting" /\ \E n \in DOMAIN queue : queue[n][1] = t

CloseShutdown ==
    /\ closer = "joining"
    /\ Joined
    /\ closer' = "draining"
    /\ queue' = <<>>
    /\ task' = [t \in TaskIds |->
          IF Cancelled(t) THEN [task[t] EXCEPT !.phase = "lost"] ELSE task[t]]
    /\ UNCHANGED <<storeVars, running, loop, completed, efd, clientVars, listed>>

(* Mutant: the store is closed while jobs run. *)
DrainedAtOnce == TRUE

Drained == running = {}

CloseStore ==
    /\ closer = "draining"
    /\ Drained
    /\ closer' = "closed"
    /\ UNCHANGED <<storeVars, task, poolVars, loop, completed, efd, clientVars,
                   listed>>

-----------------------------------------------------------------------------
(* Other servers, expiry and eviction; writes and removals that raised and  *)
(* land late.                                                               *)

RemovalRaised(k) == \E t \in Submitted : \E i \in DOMAIN task[t].keys :
    Kind(t) = "delete" /\ task[t].keys[i] = k /\ reply[<<t, i>>] = "error"

Others ==
    /\ \/ Shared /\ \E k \in Keys : cached' \in {cached \cup {k}, cached \ {k}}
                 /\ UNCHANGED <<inDoubt, request, key, found, reply>>
       \/ \E k \in inDoubt : Store!Settle(k)
       \/ \E k \in Keys : RemovalRaised(k) /\ Store!Drop(k)
    /\ UNCHANGED <<task, poolVars, loop, completed, efd, clientVars, listed,
                   closer>>

CloseStep == CloseShutdown \/ CloseStore
LoopStep(t) == Start(t) \/ Resume(t) \/ Finish(t)
DeleteStep(t) == DeleteReturns(t) \/ DeleteTimesOut(t)

Next ==
    \/ \E kind \in Kinds, keys \in KeyLists : Submit(kind, keys)
    \/ LoopRuns \/ LoopStops
    \/ \E t \in TaskIds : LoopStep(t) \/ Query(t) \/ DeleteStep(t)
    \/ TakeJob
    \/ \E j \in Jobs : Work(j)
    \/ \E q \in Signalled : Wake(q)
    \/ PopStores
    \/ CloseStop \/ CloseStep
    \/ Others

Spec == Init /\ [][Next]_vars

(* No thread stops for good: SDK calls return or raise, the loop runs every *)
(* coroutine that is ready, LMCache polls its fds, waits are timed.         *)
FairSpec ==
    /\ Spec
    /\ WF_vars(LoopRuns) /\ WF_vars(LoopStops)
    /\ \A t \in TaskIds :
          WF_vars(LoopStep(t)) /\ WF_vars(Query(t)) /\ WF_vars(DeleteStep(t))
    /\ WF_vars(TakeJob) /\ \A j \in Jobs : WF_vars(Work(j))
    /\ \A q \in Signalled : WF_vars(Wake(q))
    /\ WF_vars(PopStores)
    /\ WF_vars(CloseStep)

-----------------------------------------------------------------------------
(* Properties.                                                             *)

TypeOK ==
    /\ cached \subseteq Keys /\ inDoubt \subseteq Keys
    /\ request \in [Jobs -> Store!Requests \cup {"none", "remove", "sweep"}]
    /\ key \in [Jobs -> Keys]
    /\ found \in [Jobs -> BOOLEAN]
    /\ reply \in [Jobs -> Store!Replies]
    /\ task \in [TaskIds -> {NoTask} \cup
          [kind : TaskKinds, keys : KeyLists, phase : Phases \ {"none"}]]
    /\ queue \in Seq(Jobs)
    /\ running \subseteq Jobs
    /\ loop \in {"starting", "running", "stopping", "stopped"}
    /\ completed \in [Signalled -> SUBSET TaskIds]
    /\ efd \in [Signalled -> BOOLEAN]
    /\ asking \in [Signalled -> SUBSET TaskIds]
    /\ fetched \subseteq TaskIds /\ gaveUp \subseteq TaskIds
    /\ listed \subseteq Keys
    /\ closer \in {"open", "joining", "draining", "closed"}

(* A result LMCache has not fetched is one its poller is about to ask for,  *)
(* or the fd is signalled, or about to be: publishing and signalling, and   *)
(* waking, resetting the fd and fetching, interleave without losing a       *)
(* wake-up (_store, _lookup, _load publish before they notify).             *)
NoLostWakeup ==
    \A q \in Signalled : \A t \in completed[q] :
        \/ efd[q] \/ t \in asking[q]
        \/ \E u \in TaskIds : Kind(u) = q /\ Phase(u) = "published"

(* Every job a coroutine waits for is in exactly one place: queued, once,   *)
(* with one thread that is at the store for it, or answered.                *)
JobsAccounted ==
    LET Queued(j) == \E n \in DOMAIN queue : queue[n] = j
    IN  /\ \A t \in TaskIds : Phase(t) = "waiting" =>
              \A j \in {<<t, i>> : i \in DOMAIN task[t].keys} :
                 \/ Queued(j) /\ j \notin running /\ reply[j] = "none"
                 \/ j \in running /\ ~Queued(j) /\ reply[j] = "none"
                 \/ reply[j] # "none" /\ ~Queued(j) /\ j \notin running
        /\ \A n, m \in DOMAIN queue : queue[n] = queue[m] => n = m
        /\ \A j \in running : request[j] # "none"

ResultsKept ==
    \A t \in TaskIds : Phase(t) \in {"published", "done"} /\ Kind(t) # "delete" =>
        (t \in completed[Kind(t)]) # (t \in fetched)

(* No result is lost on its way to LMCache: gather never waits for a job    *)
(* that nobody is going to run, and what was published is fetched exactly   *)
(* once or still there, also if it was published while LMCache popped the   *)
(* others (_map, _store, pop_completed_store_tasks).                        *)
NoResultLost == JobsAccounted /\ ResultsKept

(* As long as nothing is removed or lost, a chunk that a published lookup,  *)
(* load or store result reports present is never missed by a load, unless   *)
(* the load's buffer has another size.                                      *)
AnsweredIsLoadable ==
    [][\A j \in running :
          Kind(j[1]) = "load" /\ key[j] \notin Misfits /\ Result(j)' = "miss" =>
             \A t \in TaskIds : Phase(t) \in {"published", "done"} =>
                key[j] \notin KeysWith(t, {"stored", "present", "yes", "hit"})]_vars

(* delete() could not say what became of chunk k: its removal raised, or    *)
(* the caller stopped waiting for it.                                       *)
Doubtful(k) ==
    \/ RemovalRaised(k)
    \/ \E t \in gaveUp : \E i \in DOMAIN task[t].keys : task[t].keys[i] = k

(* The chunks LMCache was told are stored are in the store, but for those   *)
(* that are being deleted and those delete() failed for: however stores and *)
(* deletes of a chunk interleave on the pool and on the loop, whatever      *)
(* raises, times out or is cut off by close(), no notification is for       *)
(* another key or out of order.                                             *)
ListedIsCached ==
    \A k \in listed :
       \/ k \in cached \/ Doubtful(k)
       \/ \E t \in Deleting : \E i \in DOMAIN task[t].keys : task[t].keys[i] = k

(* No thread uses the store once it is closed, whatever was submitted       *)
(* before, during or after close().                                         *)
NoUseAfterClose ==
    closer = "closed" => \A j \in Jobs : request[j] = "none"

(* LMCache gets the result of every task it submits before close(), however *)
(* few threads the pool has.                                                *)
EveryTaskFetched ==
    \A t \in TaskIds : Phase(t) = "submitted" /\ Kind(t) # "delete" ~>
        t \in fetched \/ closer # "open"

(* delete() does not block forever, not even if the loop is stopped.        *)
DeleteEnds == \A t \in TaskIds : t \in Deleting ~> t \notin Deleting

(* close() ends, even if it comes before the loop runs.                     *)
CloseEnds == closer = "joining" ~> closer = "closed"

-----------------------------------------------------------------------------
(* The adapter as LMCache sees it.  What a task was asked stays; its state  *)
(* is all that shows of coroutine, pool, dictionaries, fds and pollers.     *)

StateOf(phase) ==
    CASE phase \in {"submitted", "waiting"} -> "pending"
      [] phase \in {"resumed", "published", "returned", "done"} -> "ready"
      [] OTHER -> phase

Collected(t) == t \in fetched \/ (Kind(t) = "delete" /\ Phase(t) = "done")

State(t) ==
    CASE t \in gaveUp -> "given up"
      [] t \notin gaveUp /\ Collected(t) -> "collected"
      [] OTHER -> StateOf(Phase(t))

AbstractAsked == [t \in TaskIds |-> [kind |-> Kind(t), keys |-> task[t].keys]]
AbstractState == [t \in TaskIds |-> State(t)]

Service == INSTANCE TaskService WITH
    Tasks <- TaskIds,
    asked <- AbstractAsked,
    state <- AbstractState

(* Every behaviour of loop, pool, fds, pollers, timeouts and close() is one *)
(* LMCache may rely on: each key of a task is looked after once; a result   *)
(* is ready when it is complete, final from then on, and collected once;    *)
(* only close() loses tasks, and nothing is at the store after it.          *)
ImplementsTaskService == Service!Spec
=============================================================================
