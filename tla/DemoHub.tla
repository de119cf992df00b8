------------------------------- MODULE DemoHub -------------------------------
(***************************************************************************)
(* The backend of the browser demo (demo/server.py).  Hub fans events out  *)
(* to the queues of the /api/events streams; the Couchbase poller, the log *)
(* tail and the /api/complete handlers publish.  Every handler is a thread *)
(* of ThreadingHTTPServer.  A browser may leave at any time, which a       *)
(* handler notices only when it writes.                                    *)
(***************************************************************************)
EXTENDS Integers, Sequences, FiniteSets, SequencesExt

CONSTANTS
    Streams,    \* /api/events requests, one queue each
    Visits,     \* completions under way at a time, /api/complete
    Poller,     \* the thread of poll_couchbase
    LogTail,    \* the thread of tail_lmcache_logs
    Nobody,     \* holds the lock when it is free
    MaxLag      \* bound: events a stream's queue holds

Publishers == Visits \cup {Poller, LogTail}

ASSUME BoundsAssumption ==
    /\ MaxLag \in Nat \ {0}
    /\ Nobody \notin Publishers

VARIABLES
    subscribers,   \* Hub._subscribers, the streams that own the queues
    lock,          \* who holds Hub._lock
    next,          \* the subscriber the holder's publish() has come to
    queue,         \* the queue of each stream
    owed,          \* how many events published since it subscribed a stream
                   \* has not written
    tailing,       \* the log tail's process runs
    stream,        \* the handler threads of /api/events
    visit          \* the handlers of /api/complete: where they are, whether
                   \* the answer has begun (first)

hubVars == <<subscribers, lock, next, queue, owed>>
vars == <<hubVars, tailing, stream, visit>>

Ended == [at |-> "none", link |-> "here"]

Init ==
    /\ subscribers = <<>>
    /\ lock = Nobody
    /\ next = 1
    /\ queue = [s \in Streams |-> <<>>]
    /\ owed = [s \in Streams |-> 0]
    /\ tailing = TRUE
    /\ stream = [s \in Streams |-> Ended]
    /\ visit = [v \in Visits |-> [at |-> "idle", first |-> FALSE]]

-----------------------------------------------------------------------------
(* Hub.publish: the queues of all subscribers, one after the other, under   *)
(* the lock.                                                                *)

(* poll_couchbase goes on for ever, whether its request is answered or      *)
(* raises: the exception is an event too.  A completion publishes twice.    *)
HasEvent(x) ==
    \/ x = Poller
    \/ x = LogTail /\ tailing
    \/ x \in Visits /\ visit[x].at \in {"request", "first"}

Acquire(x) ==
    /\ HasEvent(x)
    /\ lock = Nobody
    /\ \A s \in Range(subscribers) : Len(queue[s]) < MaxLag
    /\ lock' = x
    /\ next' = 1
    /\ owed' = [s \in Streams |->
                   IF s \in Range(subscribers) THEN owed[s] + 1 ELSE owed[s]]
    /\ UNCHANGED <<subscribers, queue, tailing, stream, visit>>

(* Mutant: the event overtakes those that wait in the queue. *)
PutFirst(x) ==
    /\ lock = x
    /\ next <= Len(subscribers)
    /\ queue' = [queue EXCEPT ![subscribers[next]] = <<x>> \o @]
    /\ next' = next + 1
    /\ UNCHANGED <<subscribers, lock, owed, tailing, stream, visit>>

Put(x) ==
    /\ lock = x
    /\ next <= Len(subscribers)
    /\ queue' = [queue EXCEPT ![subscribers[next]] = Append(@, x)]
    /\ next' = next + 1
    /\ UNCHANGED <<subscribers, lock, owed, tailing, stream, visit>>

(* What a completion does when publish() has returned.                      *)
Resumed(v) == [visit[v] EXCEPT !.at = IF @ = "request" THEN "answer" ELSE "token"]

Release(x) ==
    /\ lock = x
    /\ next > Len(subscribers)
    /\ lock' = Nobody
    /\ next' = 1
    /\ visit' = [v \in Visits |-> IF v = x THEN Resumed(v) ELSE visit[v]]
    /\ UNCHANGED <<subscribers, queue, owed, tailing, stream>>

TailEnds ==
    /\ tailing
    /\ lock # LogTail
    /\ tailing' = FALSE
    /\ UNCHANGED <<hubVars, stream, visit>>

-----------------------------------------------------------------------------
(* The /api/events handler.  The first write to a browser that has gone may *)
(* still succeed.                                                           *)

Open(s) ==
    /\ stream[s].at = "none"
    /\ stream' = [stream EXCEPT ![s].at = "headers"]
    /\ UNCHANGED <<hubVars, tailing, visit>>

Leaves(s) ==
    /\ stream[s].at # "none"
    /\ stream[s].link = "here"
    /\ stream' = [stream EXCEPT ![s].link = "gone"]
    /\ UNCHANGED <<hubVars, tailing, visit>>

HeadersRaise(s) ==
    /\ stream[s].at = "headers"
    /\ stream[s].link # "here"
    /\ stream' = [stream EXCEPT ![s] = Ended]
    /\ UNCHANGED <<hubVars, tailing, visit>>

(* Mutant: the queue of a new stream replaces the others. *)
SubscribeAlone(s) ==
    /\ stream[s].at = "headers"
    /\ lock = Nobody
    /\ subscribers' = <<s>>
    /\ stream' = [stream EXCEPT ![s].at = "events"]
    /\ UNCHANGED <<lock, next, queue, owed, tailing, visit>>

Subscribe(s) ==
    /\ stream[s].at = "headers"
    /\ lock = Nobody
    /\ subscribers' = Append(subscribers, s)
    /\ stream' = [stream EXCEPT ![s].at = "events"]
    /\ UNCHANGED <<lock, next, queue, owed, tailing, visit>>

(* The write that follows q.get().                                          *)
Write(s) ==
    /\ stream[s].at = "events"
    /\ queue[s] # <<>>
    /\ stream[s].link # "reset"
    /\ queue' = [queue EXCEPT ![s] = Tail(@)]
    /\ owed' = [owed EXCEPT ![s] = @ - 1]
    /\ stream' = [stream EXCEPT ![s].link = IF @ = "gone" THEN "reset" ELSE @]
    /\ UNCHANGED <<subscribers, lock, next, tailing, visit>>

(* Mutant: the handler goes on after a write that raised. *)
WriteIgnored(s) ==
    /\ stream[s].at = "events"
    /\ queue[s] # <<>>
    /\ stream[s].link # "here"
    /\ queue' = [queue EXCEPT ![s] = Tail(@)]
    /\ owed' = [owed EXCEPT ![s] = @ - 1]
    /\ UNCHANGED <<subscribers, lock, next, tailing, stream, visit>>

WriteRaises(s) ==
    /\ stream[s].at = "events"
    /\ queue[s] # <<>>
    /\ stream[s].link # "here"
    /\ queue' = [queue EXCEPT ![s] = Tail(@)]
    /\ owed' = [owed EXCEPT ![s] = @ - 1]
    /\ stream' = [stream EXCEPT ![s].at = "leaves"]
    /\ UNCHANGED <<subscribers, lock, next, tailing, visit>>

Forget(s) ==
    /\ stream[s].at = "leaves"
    /\ subscribers' = RemoveFirst(subscribers, s)
    /\ queue' = [queue EXCEPT ![s] = <<>>]
    /\ owed' = [owed EXCEPT ![s] = 0]
    /\ stream' = [stream EXCEPT ![s] = Ended]
    /\ UNCHANGED <<lock, next, tailing, visit>>

(* Mutant: the list of subscribers is changed without the lock. *)
UnsubscribeUnlocked(s) == Forget(s)

Unsubscribe(s) == lock = Nobody /\ Forget(s)

-----------------------------------------------------------------------------
(* _complete.  When it has ended it may be asked for again: by the page, or *)
(* by its EventSource if the stream ended before "done".                    *)

Ask(v) ==
    /\ visit[v].at = "idle"
    /\ visit' = [visit EXCEPT ![v] = [at |-> "request", first |-> FALSE]]
    /\ UNCHANGED <<hubVars, tailing, stream>>

FirstText(v) ==
    /\ visit[v].at = "answer"
    /\ ~visit[v].first
    /\ visit' = [visit EXCEPT ![v].at = "first", ![v].first = TRUE]
    /\ UNCHANGED <<hubVars, tailing, stream>>

(* The text that was the first; later texts are only written.               *)
WriteText(v) ==
    /\ visit[v].at = "token"
    /\ visit' = [visit EXCEPT ![v].at = "answer"]
    /\ UNCHANGED <<hubVars, tailing, stream>>

(* The response ends, with or without a text, whole or not.                 *)
Done(v) ==
    /\ visit[v].at = "answer"
    /\ visit' = [visit EXCEPT ![v].at = "idle"]
    /\ UNCHANGED <<hubVars, tailing, stream>>

(* urlopen or the reading of its response raises, or _sse does because the  *)
(* page has gone.                                                           *)
Breaks(v) ==
    /\ visit[v].at \in {"request", "answer", "token"}
    /\ lock # v
    /\ visit' = [visit EXCEPT ![v].at = "idle"]
    /\ UNCHANGED <<hubVars, tailing, stream>>

-----------------------------------------------------------------------------

Publishing(x) == Put(x) \/ Release(x)

Serving(s) == Write(s) \/ WriteRaises(s)

Completing(v) ==
    \/ Ask(v)
    \/ FirstText(v)
    \/ WriteText(v)
    \/ Done(v)
    \/ Breaks(v)

Next ==
    \/ \E x \in Publishers : Acquire(x) \/ Publishing(x)
    \/ TailEnds
    \/ \E s \in Streams :
          \/ Open(s) \/ Leaves(s) \/ HeadersRaise(s)
          \/ Subscribe(s) \/ Serving(s) \/ Unsubscribe(s)
    \/ \E v \in Visits : Completing(v)

(* The threads run, the poller's requests time out, and a thread that waits *)
(* for the lock gets it in the end: threading.Lock is free again and again  *)
(* and its holders never block.                                             *)
Spec ==
    /\ Init /\ [][Next]_vars
    /\ \A x \in Publishers : WF_vars(Publishing(x))
    /\ SF_vars(Acquire(Poller))
    /\ \A s \in Streams : WF_vars(Serving(s)) /\ SF_vars(Unsubscribe(s))

-----------------------------------------------------------------------------
(* Properties.                                                              *)

(* The publication under way has not come to the i-th subscriber.           *)
Awaits(i) == \E x \in Publishers : lock = x /\ next <= i

(* Every event published since a stream subscribed was written, is in its   *)
(* queue or is about to be, once, however publishers, new streams and       *)
(* streams that end interleave.                                             *)
NothingSkipped ==
    \A i \in DOMAIN subscribers :
        LET s == subscribers[i] IN
        stream[s].at = "events" =>
            owed[s] = Len(queue[s]) + (IF Awaits(i) THEN 1 ELSE 0)

(* What a stream is still to write: its queue, and the event of the         *)
(* publication under way that has not come to it.                           *)
Pending(i) ==
    LET q == queue[subscribers[i]] IN IF Awaits(i) THEN Append(q, lock) ELSE q

(* Any two pages hear of the events in the same order: what is left for the *)
(* one ends as what is left for the other, however publishers interleave    *)
(* and whoever comes, goes or lags behind.                                  *)
SameOrder ==
    \A i, j \in DOMAIN subscribers :
        \A n \in 0 .. Len(Pending(i)) - 1 : n < Len(Pending(j)) =>
            Pending(i)[Len(Pending(i)) - n] = Pending(j)[Len(Pending(j)) - n]

(* The handler of a browser that has gone ends and gives its queue back:    *)
(* the poller's events make it write and so notice.                         *)
GoneIsForgotten ==
    \A s \in Streams :
        stream[s].link # "here" /\ stream[s].at # "headers" ~> stream[s].at = "none"

(* A page that stays hears of Couchbase again and again, even when          *)
(* Couchbase cannot be asked.                                               *)
StaysInformed ==
    \A s \in Streams :
        stream[s].at = "events" ~>
            \/ stream[s].link # "here"
            \/ queue[s] # <<>> /\ Head(queue[s]) = Poller
=============================================================================
