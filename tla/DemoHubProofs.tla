---------------------------- MODULE DemoHubProofs ----------------------------
(***************************************************************************)
(* Proofs about DemoHub, for any number of streams and completions and     *)
(* queues of any length: publishers, new streams and streams that end      *)
(* neither skip an event nor deliver one twice, and every stream has the   *)
(* events in the same order.                                               *)
(***************************************************************************)
EXTENDS DemoHub, SequenceTheorems, TLAPS

-----------------------------------------------------------------------------
(* The inductive invariants.                                                *)

StreamRecord == [at : {"none", "headers", "events", "leaves"},
                 link : {"here", "gone", "reset"}]

HubTypeOK ==
    /\ subscribers \in Seq(Streams)
    /\ lock \in Publishers \cup {Nobody}
    /\ next \in Nat \ {0}
    /\ queue \in [Streams -> Seq(Publishers)]
    /\ owed \in [Streams -> Int]
    /\ stream \in [Streams -> StreamRecord]

(* A queue is in the list once, from subscribe() to unsubscribe().          *)
ListedOnce ==
    /\ \A i, j \in DOMAIN subscribers : subscribers[i] = subscribers[j] => i = j
    /\ \A s \in Streams :
          stream[s].at \in {"events", "leaves"} <=>
             \E i \in DOMAIN subscribers : subscribers[i] = s

(* A stream that is not in the list has no events.                          *)
NothingEarly ==
    \A s \in Streams : stream[s].at \notin {"events", "leaves"} =>
        queue[s] = <<>> /\ owed[s] = 0

(* What NothingSkipped says, of streams that are about to leave as well.    *)
Due(i) == IF Awaits(i) THEN 1 ELSE 0

Accounted ==
    \A i \in DOMAIN subscribers :
        owed[subscribers[i]] = Len(queue[subscribers[i]]) + Due(i)

HubInv == HubTypeOK /\ ListedOnce /\ NothingEarly /\ Accounted

-----------------------------------------------------------------------------
(* Operators of the model.                                                  *)

(* list.remove: the others stay, each once more at some place, in order.    *)
LEMMA Removed ==
    ASSUME NEW S, NEW q \in Seq(S), NEW m \in 1 .. Len(q),
           \A i, j \in 1 .. Len(q) : q[i] = q[j] => i = j
    PROVE  /\ RemoveFirst(q, q[m]) \in Seq(S)
           /\ Len(RemoveFirst(q, q[m])) = Len(q) - 1
           /\ \A i \in 1 .. Len(q) - 1 :
                 RemoveFirst(q, q[m])[i] = IF i < m THEN q[i] ELSE q[i + 1]
  <1>1. SelectInSeq(q, LAMBDA v : v = q[m]) = m
    <2>1. {i \in 1 .. Len(q) : q[i] = q[m]} = {m}
      OBVIOUS
    <2>2. Min({m}) = m
      BY DEF Min
    <2>. QED BY <2>1, <2>2 DEF SelectInSeq
  <1>2. RemoveFirst(q, q[m]) = RemoveAt(q, m)
    BY <1>1 DEF RemoveFirst
  <1>. DEFINE a == SubSeq(q, 1, m - 1)
              b == SubSeq(q, m + 1, Len(q))
  <1>3. /\ a \in Seq(S) /\ Len(a) = m - 1
        /\ \A i \in 1 .. m - 1 : a[i] = q[i]
    BY SubSeqProperties
  <1>4. /\ b \in Seq(S) /\ Len(b) = Len(q) - m
        /\ \A i \in 1 .. Len(q) - m : b[i] = q[m + i]
    BY SubSeqProperties
  <1>5. RemoveAt(q, m) = a \o b
    BY DEF RemoveAt
  <1>. HIDE DEF a, b
  <1>6. /\ a \o b \in Seq(S)
        /\ Len(a \o b) = Len(q) - 1
    BY <1>3, <1>4, ConcatProperties
  <1>7. \A i \in 1 .. Len(q) - 1 : (a \o b)[i] = IF i < m THEN q[i] ELSE q[i + 1]
    <2>. SUFFICES ASSUME NEW i \in 1 .. Len(q) - 1
                  PROVE  (a \o b)[i] = IF i < m THEN q[i] ELSE q[i + 1]
      OBVIOUS
    <2>1. (a \o b)[i] = IF i <= Len(a) THEN a[i] ELSE b[i - Len(a)]
      BY <1>3, <1>4, ConcatProperties
    <2>2. CASE i < m
      BY <2>1, <2>2, <1>3
    <2>3. CASE i >= m
      <3>1. i - (m - 1) \in 1 .. Len(q) - m /\ m + (i - (m - 1)) = i + 1
        BY <2>3
      <3>2. b[i - (m - 1)] = q[m + (i - (m - 1))]
        BY <3>1, <1>4
      <3>3. (a \o b)[i] = b[i - (m - 1)]
        BY <2>1, <2>3, <1>3
      <3>. QED BY <2>3, <3>1, <3>2, <3>3
    <2>4. i < m \/ i >= m
      OBVIOUS
    <2>. QED BY <2>2, <2>3, <2>4
  <1>. QED BY <1>2, <1>5, <1>6, <1>7

-----------------------------------------------------------------------------
(* The hub.                                                                 *)

LEMMA HubInitially == Init => HubInv
  <1>. SUFFICES ASSUME Init PROVE HubInv
    OBVIOUS
  <1>1. HubTypeOK
    BY DEF Init, HubTypeOK, StreamRecord, Ended
  <1>2. ListedOnce /\ NothingEarly /\ Accounted
    BY DEF Init, ListedOnce, NothingEarly, Accounted, Ended
  <1>. QED BY <1>1, <1>2 DEF HubInv

(* Who has the lock alone decides what a publication awaits.                *)
LEMMA AwaitsFree ==
    ASSUME HubTypeOK
    PROVE  /\ lock = Nobody => \A i : ~Awaits(i)
           /\ \A x \in Publishers : lock = x => \A i : Awaits(i) <=> next <= i
  BY BoundsAssumption DEF HubTypeOK, Awaits

LEMMA ListedTypes ==
    ASSUME HubTypeOK
    PROVE  /\ Len(subscribers) \in Nat /\ DOMAIN subscribers = 1 .. Len(subscribers)
           /\ \A i \in DOMAIN subscribers :
                 /\ i \in Nat
                 /\ subscribers[i] \in Streams
                 /\ Len(queue[subscribers[i]]) \in Nat
                 /\ owed[subscribers[i]] \in Int
  BY DEF HubTypeOK

LEMMA DueFree ==
    ASSUME \A i : ~Awaits(i)
    PROVE  \A i : Due(i) = 0
  BY DEF Due

LEMMA AccountedFree ==
    ASSUME HubTypeOK, \A i : ~Awaits(i)
    PROVE  Accounted <=> \A i \in DOMAIN subscribers :
                            owed[subscribers[i]] = Len(queue[subscribers[i]])
  <1>1. \A n \in Nat : n + 0 = n
    OBVIOUS
  <1>2. \A i \in DOMAIN subscribers :
           Len(queue[subscribers[i]]) + Due(i) = Len(queue[subscribers[i]])
    BY <1>1, DueFree, ListedTypes
  <1>. QED BY <1>2 DEF Accounted

LEMMA AcquireKeepsHub ==
    ASSUME HubInv, NEW x \in Publishers, Acquire(x)
    PROVE  HubInv'
  <1>. USE DEF HubInv
  <1>1. HubTypeOK'
    BY DEF Acquire, HubTypeOK
  <1>2. ListedOnce' /\ NothingEarly'
    BY DEF Acquire, ListedOnce, NothingEarly, HubTypeOK, Range
  <1>3. Accounted'
    <2>. SUFFICES ASSUME NEW i \in DOMAIN subscribers
                  PROVE  owed'[subscribers[i]] = Len(queue[subscribers[i]]) + 1
      <3>1. \A i \in DOMAIN subscribers : Awaits(i)'
        BY <1>1, ListedTypes DEF Acquire, Awaits
      <3>2. \A i \in DOMAIN subscribers : Due(i)' = 1
        BY <3>1 DEF Due
      <3>. QED BY <3>2 DEF Acquire, Accounted
    <2>1. \A j : ~Awaits(j)
      BY AwaitsFree DEF Acquire
    <2>2. subscribers[i] \in Streams /\ subscribers[i] \in Range(subscribers)
      BY DEF HubTypeOK, Range
    <2>3. owed'[subscribers[i]] = owed[subscribers[i]] + 1
      BY <2>2 DEF Acquire
    <2>4. owed[subscribers[i]] = Len(queue[subscribers[i]])
      BY <2>1, AccountedFree
    <2>. QED BY <2>3, <2>4
  <1>. QED BY <1>1, <1>2, <1>3

LEMMA PutKeepsHub ==
    ASSUME HubInv, NEW x \in Publishers, Put(x)
    PROVE  HubInv'
  <1>. USE DEF HubInv
  <1>1. next \in DOMAIN subscribers /\ subscribers[next] \in Streams
    BY DEF Put, HubTypeOK
  <1>2. HubTypeOK'
    BY <1>1 DEF Put, HubTypeOK
  <1>3. ListedOnce' /\ NothingEarly'
    BY <1>1 DEF Put, ListedOnce, NothingEarly, HubTypeOK
  <1>4. Accounted'
    <2>. SUFFICES ASSUME NEW i \in DOMAIN subscribers
                  PROVE  owed[subscribers[i]] = Len(queue'[subscribers[i]]) + Due(i)'
      BY DEF Put, Accounted
    <2>0. next \in Nat /\ i \in Nat /\ Len(queue[subscribers[i]]) \in Nat
      BY ListedTypes DEF HubTypeOK
    <2>1. /\ owed[subscribers[i]] = Len(queue[subscribers[i]]) + Due(i)
          /\ Due(i) = IF next <= i THEN 1 ELSE 0
          /\ Due(i)' = IF next + 1 <= i THEN 1 ELSE 0
      BY AwaitsFree, <1>2 DEF Put, Accounted, Due, Awaits
    <2>2. CASE i = next
      <3>1. Len(queue'[subscribers[i]]) = Len(queue[subscribers[i]]) + 1
        BY <2>2, <1>1 DEF Put, HubTypeOK
      <3>2. Due(i) = 1 /\ Due(i)' = 0
        BY <2>0, <2>1, <2>2
      <3>3. owed[subscribers[i]] = Len(queue[subscribers[i]]) + 1
        BY <2>1, <3>2
      <3>4. Len(queue'[subscribers[i]]) = Len(queue'[subscribers[i]]) + 0
        BY <2>0, <3>1
      <3>. QED BY <3>1, <3>2, <3>3, <3>4
    <2>3. CASE i # next
      <3>1. subscribers[i] # subscribers[next]
        BY <2>3, <1>1 DEF ListedOnce
      <3>2. queue'[subscribers[i]] = queue[subscribers[i]]
        BY <3>1, <1>1, ListedTypes DEF Put, HubTypeOK
      <3>3. Due(i)' = Due(i)
        BY <2>0, <2>1, <2>3
      <3>. QED BY <2>1, <3>2, <3>3
    <2>. QED BY <2>2, <2>3
  <1>. QED BY <1>2, <1>3, <1>4

LEMMA ReleaseKeepsHub ==
    ASSUME HubInv, NEW x \in Publishers, Release(x)
    PROVE  HubInv'
  <1>. USE DEF HubInv
  <1>1. HubTypeOK'
    BY DEF Release, HubTypeOK
  <1>2. ListedOnce' /\ NothingEarly'
    BY DEF Release, ListedOnce, NothingEarly, HubTypeOK
  <1>3. \A i \in DOMAIN subscribers : ~Awaits(i) /\ ~Awaits(i)'
    BY <1>1, AwaitsFree, BoundsAssumption DEF Release, Awaits, HubTypeOK
  <1>4. Accounted'
    BY <1>3 DEF Release, Accounted, Due
  <1>. QED BY <1>1, <1>2, <1>4

(* Steps that change neither the list nor a queue.                          *)
LEMMA NoHubStep ==
    ASSUME HubInv, UNCHANGED hubVars,
           stream' \in [Streams -> StreamRecord],
           \A s \in Streams : stream[s].at \in {"events", "leaves"} <=>
                              stream'[s].at \in {"events", "leaves"}
    PROVE  HubInv'
  <1>. USE DEF HubInv, hubVars
  <1>1. HubTypeOK'
    BY DEF HubTypeOK
  <1>2. ListedOnce' /\ NothingEarly'
    BY DEF ListedOnce, NothingEarly, HubTypeOK
  <1>3. Accounted'
    BY DEF Accounted, Due, Awaits
  <1>. QED BY <1>1, <1>2, <1>3

LEMMA SubscribeKeepsHub ==
    ASSUME HubInv, NEW s \in Streams, Subscribe(s)
    PROVE  HubInv'
  <1>. USE DEF HubInv
  <1>0. /\ subscribers' \in Seq(Streams)
        /\ Len(subscribers') = Len(subscribers) + 1
        /\ \A i \in 1 .. Len(subscribers) : subscribers'[i] = subscribers[i]
        /\ subscribers'[Len(subscribers) + 1] = s
    BY AppendProperties DEF Subscribe, HubTypeOK, StreamRecord
  <1>1. HubTypeOK'
    BY <1>0 DEF Subscribe, HubTypeOK, StreamRecord
  <1>2. /\ Len(subscribers) \in Nat /\ DOMAIN subscribers = 1 .. Len(subscribers)
        /\ DOMAIN subscribers' = 1 .. Len(subscribers) + 1
    BY <1>0 DEF HubTypeOK
  <1>3. \A i \in DOMAIN subscribers : subscribers[i] # s
    BY DEF Subscribe, HubTypeOK, ListedOnce
  <1>4. ListedOnce'
    <2>1. \A i, j \in DOMAIN subscribers' : subscribers'[i] = subscribers'[j] => i = j
      BY <1>0, <1>2, <1>3 DEF ListedOnce
    <2>2. \A t \in Streams : stream'[t].at \in {"events", "leaves"} <=>
                               t = s \/ stream[t].at \in {"events", "leaves"}
      BY DEF Subscribe, HubTypeOK, StreamRecord
    <2>3. \A t \in Streams : (\E i \in DOMAIN subscribers' : subscribers'[i] = t) <=>
                              t = s \/ \E i \in DOMAIN subscribers : subscribers[i] = t
      BY <1>0, <1>2
    <2>. QED BY <2>1, <2>2, <2>3 DEF ListedOnce
  <1>5. NothingEarly'
    BY DEF Subscribe, NothingEarly, HubTypeOK
  <1>6. Accounted'
    <2>1. \A i \in DOMAIN subscribers : owed[subscribers[i]] = Len(queue[subscribers[i]])
      BY AwaitsFree, AccountedFree DEF Subscribe
    <2>2. owed[s] = 0 /\ queue[s] = <<>>
      BY DEF Subscribe, NothingEarly
    <2>3. \A i \in DOMAIN subscribers' : owed'[subscribers'[i]] = Len(queue'[subscribers'[i]])
      BY <1>0, <1>2, <2>1, <2>2 DEF Subscribe
    <2>4. \A i : ~Awaits(i)'
      BY <1>1, AwaitsFree, BoundsAssumption DEF Subscribe, Awaits
    <2>5. \A i \in DOMAIN subscribers' :
             Len(queue'[subscribers'[i]]) = Len(queue'[subscribers'[i]]) + Due(i)'
      <3>1. \A i \in DOMAIN subscribers' : Due(i)' = 0
        BY <2>4 DEF Due
      <3>2. \A i \in DOMAIN subscribers' : Len(queue'[subscribers'[i]]) \in Nat
        BY <1>1 DEF HubTypeOK
      <3>. QED BY <3>1, <3>2
    <2>. QED BY <2>3, <2>5 DEF Accounted
  <1>. QED BY <1>1, <1>4, <1>5, <1>6

(* The first event of a stream's queue has been taken.                      *)
LEMMA TakenKeepsHub ==
    ASSUME HubInv, NEW s \in Streams,
           stream[s].at = "events", queue[s] # <<>>,
           queue' = [queue EXCEPT ![s] = Tail(@)],
           owed' = [owed EXCEPT ![s] = @ - 1],
           UNCHANGED <<subscribers, lock, next>>,
           stream' \in [Streams -> StreamRecord],
           \A t \in Streams : stream[t].at \in {"events", "leaves"} <=>
                              stream'[t].at \in {"events", "leaves"}
    PROVE  HubInv'
  <1>. USE DEF HubInv
  <1>1. HubTypeOK'
    <2>1. Tail(queue[s]) \in Seq(Publishers)
      BY DEF HubTypeOK
    <2>2. queue' \in [Streams -> Seq(Publishers)]
      BY <2>1 DEF HubTypeOK
    <2>3. owed' \in [Streams -> Int]
      BY DEF HubTypeOK
    <2>. QED BY <2>2, <2>3 DEF HubTypeOK
  <1>2. ListedOnce' /\ NothingEarly'
    BY DEF ListedOnce, NothingEarly, HubTypeOK
  <1>3. \A i : Awaits(i)' <=> Awaits(i)
    BY DEF Awaits
  <1>4. /\ \A t \in Streams \ {s} : owed'[t] = owed[t] /\ queue'[t] = queue[t]
        /\ owed'[s] = owed[s] - 1 /\ owed[s] \in Int
        /\ Len(queue'[s]) = Len(queue[s]) - 1 /\ Len(queue[s]) \in Nat
    BY DEF HubTypeOK
  <1>5. Accounted'
    <2>. SUFFICES ASSUME NEW i \in DOMAIN subscribers
                  PROVE  owed'[subscribers[i]] = Len(queue'[subscribers[i]])
                                                    + Due(i)
      BY <1>3 DEF Accounted, Due
    <2>1. /\ subscribers[i] \in Streams
          /\ owed[subscribers[i]] = Len(queue[subscribers[i]]) + Due(i)
          /\ Due(i) \in {0, 1}
      <3>1. Due(i) \in {0, 1}
        BY DEF Due
      <3>. QED BY <3>1, ListedTypes DEF Accounted
    <2>2. CASE subscribers[i] = s
      BY <2>1, <2>2, <1>4
    <2>3. CASE subscribers[i] # s
      BY <2>1, <2>3, <1>4
    <2>. QED BY <2>2, <2>3
  <1>. QED BY <1>1, <1>2, <1>5

LEMMA UnsubscribeKeepsHub ==
    ASSUME HubInv, NEW s \in Streams, Unsubscribe(s)
    PROVE  HubInv'
  <1>. USE DEF HubInv
  <1>1. PICK m \in 1 .. Len(subscribers) : subscribers[m] = s
    BY DEF Unsubscribe, Forget, ListedOnce, HubTypeOK
  <1>2. /\ subscribers' \in Seq(Streams)
        /\ Len(subscribers') = Len(subscribers) - 1
        /\ \A i \in 1 .. Len(subscribers) - 1 :
              subscribers'[i] = IF i < m THEN subscribers[i] ELSE subscribers[i + 1]
    <2>1. \A i, j \in 1 .. Len(subscribers) : subscribers[i] = subscribers[j] => i = j
      BY ListedTypes DEF ListedOnce
    <2>2. subscribers' = RemoveFirst(subscribers, subscribers[m])
      BY <1>1 DEF Unsubscribe, Forget
    <2>. QED BY <2>1, <2>2, Removed DEF HubTypeOK
  <1>. DEFINE n == Len(subscribers)
  <1>0. /\ n \in Nat /\ DOMAIN subscribers = 1 .. n /\ DOMAIN subscribers' = 1 .. n - 1
        /\ m \in 1 .. n
    BY <1>2 DEF HubTypeOK
  <1>. HIDE DEF n
  <1>3. HubTypeOK'
    BY <1>2 DEF Unsubscribe, Forget, HubTypeOK, StreamRecord, Ended
  <1>4. \A i \in DOMAIN subscribers' :
           \E j \in DOMAIN subscribers \ {m} :
              subscribers'[i] = subscribers[j] /\ j = IF i < m THEN i ELSE i + 1
    <2>. SUFFICES ASSUME NEW i \in 1 .. n - 1
                  PROVE  \E j \in (1 .. n) \ {m} :
                            subscribers'[i] = subscribers[j] /\ j = IF i < m THEN i ELSE i + 1
      BY <1>0
    <2>1. CASE i < m
      BY <2>1, <1>0, <1>2 DEF n
    <2>2. CASE i >= m
      BY <2>2, <1>0, <1>2 DEF n
    <2>. QED BY <2>1, <2>2, <1>0
  <1>5. \A j \in DOMAIN subscribers \ {m} :
           \E i \in DOMAIN subscribers' : subscribers'[i] = subscribers[j]
    <2>. SUFFICES ASSUME NEW j \in DOMAIN subscribers \ {m}
                  PROVE  \E i \in DOMAIN subscribers' : subscribers'[i] = subscribers[j]
      OBVIOUS
    <2>1. CASE j < m
      <3>1. j \in 1 .. n - 1
        BY <2>1, <1>0
      <3>. QED BY <2>1, <3>1, <1>0, <1>2 DEF n
    <2>2. CASE j > m
      <3>1. j - 1 \in 1 .. n - 1 /\ ~ (j - 1 < m) /\ (j - 1) + 1 = j
        BY <2>2, <1>0
      <3>2. subscribers'[j - 1] = subscribers[j]
        BY <3>1, <1>2 DEF n
      <3>. QED BY <3>1, <3>2, <1>0
    <2>. QED BY <2>1, <2>2, <1>0
  <1>6. ListedOnce'
    <2>1. \A i, j \in DOMAIN subscribers' : subscribers'[i] = subscribers'[j] => i = j
      <3>. SUFFICES ASSUME NEW i \in 1 .. n - 1, NEW j \in 1 .. n - 1,
                           subscribers'[i] = subscribers'[j]
                    PROVE  i = j
        BY <1>0
      <3>1. (IF i < m THEN i ELSE i + 1) = (IF j < m THEN j ELSE j + 1)
        BY <1>0, <1>4 DEF ListedOnce
      <3>. QED BY <3>1, <1>0
    <2>2. \A t \in Streams : stream'[t].at \in {"events", "leaves"} <=>
                               t # s /\ stream[t].at \in {"events", "leaves"}
      BY DEF Unsubscribe, Forget, HubTypeOK, StreamRecord, Ended
    <2>3. \A t \in Streams : (\E i \in DOMAIN subscribers' : subscribers'[i] = t) <=>
                              t # s /\ \E i \in DOMAIN subscribers : subscribers[i] = t
      BY <1>0, <1>1, <1>4, <1>5 DEF ListedOnce
    <2>. QED BY <2>1, <2>2, <2>3 DEF ListedOnce
  <1>7. NothingEarly'
    BY DEF Unsubscribe, Forget, HubTypeOK, NothingEarly, Ended
  <1>8. Accounted'
    <2>1. \A i \in DOMAIN subscribers \ {m} :
             /\ owed'[subscribers[i]] = owed[subscribers[i]]
             /\ queue'[subscribers[i]] = queue[subscribers[i]]
             /\ owed[subscribers[i]] = Len(queue[subscribers[i]])
      <3>1. \A i \in DOMAIN subscribers \ {m} : subscribers[i] # s
        BY <1>0, <1>1 DEF ListedOnce
      <3>2. \A i \in DOMAIN subscribers : owed[subscribers[i]] = Len(queue[subscribers[i]])
        BY AwaitsFree, AccountedFree DEF Unsubscribe
      <3>3. \A t \in Streams \ {s} : owed'[t] = owed[t] /\ queue'[t] = queue[t]
        BY DEF Unsubscribe, Forget, HubTypeOK
      <3>. QED BY <3>1, <3>2, <3>3, ListedTypes
    <2>2. \A i \in DOMAIN subscribers' : owed'[subscribers'[i]] = Len(queue'[subscribers'[i]])
      BY <2>1, <1>4
    <2>3. \A i : ~Awaits(i)'
      BY <1>3, AwaitsFree, BoundsAssumption DEF Unsubscribe, Forget, Awaits
    <2>4. \A i \in DOMAIN subscribers' :
             Len(queue'[subscribers'[i]]) = Len(queue'[subscribers'[i]]) + Due(i)'
      <3>1. \A i \in DOMAIN subscribers' : Due(i)' = 0
        BY <2>3 DEF Due
      <3>2. \A i \in DOMAIN subscribers' : Len(queue'[subscribers'[i]]) \in Nat
        BY <1>3 DEF HubTypeOK
      <3>. QED BY <3>1, <3>2
    <2>. QED BY <2>2, <2>4 DEF Accounted
  <1>. QED BY <1>3, <1>6, <1>7, <1>8

(* A step of the thread that serves one stream.                             *)
LEMMA OneStream ==
    ASSUME HubTypeOK, NEW s \in Streams, NEW r \in StreamRecord,
           stream' = [stream EXCEPT ![s] = r],
           r.at \in {"events", "leaves"} <=> stream[s].at \in {"events", "leaves"}
    PROVE  /\ stream' \in [Streams -> StreamRecord]
           /\ \A t \in Streams : stream[t].at \in {"events", "leaves"} <=>
                                 stream'[t].at \in {"events", "leaves"}
  BY DEF HubTypeOK

LEMMA HubStep == HubInv /\ [Next]_vars => HubInv'
  <1>. SUFFICES ASSUME HubInv, [Next]_vars PROVE HubInv'
    OBVIOUS
  <1>0. HubTypeOK /\ \A s \in Streams : stream[s] \in StreamRecord
    BY DEF HubInv, HubTypeOK
  <1>1. ASSUME NEW x \in Publishers, Acquire(x) \/ Publishing(x) PROVE HubInv'
    BY <1>1, AcquireKeepsHub, PutKeepsHub, ReleaseKeepsHub DEF Publishing
  <1>2. ASSUME NEW s \in Streams, Open(s) \/ Leaves(s) \/ HeadersRaise(s) PROVE HubInv'
    <2>1. PICK r \in StreamRecord :
             /\ stream' = [stream EXCEPT ![s] = r]
             /\ r.at \in {"events", "leaves"} <=> stream[s].at \in {"events", "leaves"}
      <3>1. CASE Open(s)
        <4>1. [stream[s] EXCEPT !.at = "headers"] \in StreamRecord
          BY <1>0 DEF StreamRecord
        <4>. QED BY <1>0, <3>1, <4>1 DEF Open, StreamRecord
      <3>2. CASE Leaves(s)
        <4>1. [stream[s] EXCEPT !.link = "gone"] \in StreamRecord
          BY <1>0 DEF StreamRecord
        <4>. QED BY <1>0, <3>2, <4>1 DEF Leaves, StreamRecord
      <3>3. CASE HeadersRaise(s)
        <4>1. Ended \in StreamRecord /\ Ended.at = "none"
          BY DEF StreamRecord, Ended
        <4>. QED BY <3>3, <4>1 DEF HeadersRaise
      <3>. QED BY <1>2, <3>1, <3>2, <3>3
    <2>2. UNCHANGED hubVars
      BY <1>2 DEF Open, Leaves, HeadersRaise
    <2>. QED BY <1>0, <2>1, <2>2, OneStream, NoHubStep
  <1>3. ASSUME NEW s \in Streams, Serving(s) PROVE HubInv'
    <2>1. PICK r \in StreamRecord :
             /\ stream' = [stream EXCEPT ![s] = r]
             /\ r.at \in {"events", "leaves"} <=> stream[s].at \in {"events", "leaves"}
      <3>1. CASE Write(s)
        <4>. DEFINE r == [stream[s] EXCEPT !.link = IF @ = "gone" THEN "reset" ELSE @]
        <4>1. r \in StreamRecord /\ r.at = stream[s].at
          BY <1>0 DEF StreamRecord
        <4>2. stream' = [stream EXCEPT ![s] = r]
          BY <1>0, <3>1 DEF Write, StreamRecord
        <4>. QED BY <4>1, <4>2
      <3>2. CASE WriteRaises(s)
        <4>1. [stream[s] EXCEPT !.at = "leaves"] \in StreamRecord
          BY <1>0 DEF StreamRecord
        <4>. QED BY <1>0, <3>2, <4>1 DEF WriteRaises, StreamRecord
      <3>. QED BY <1>3, <3>1, <3>2 DEF Serving
    <2>2. /\ stream' \in [Streams -> StreamRecord]
          /\ \A t \in Streams : stream[t].at \in {"events", "leaves"} <=>
                                stream'[t].at \in {"events", "leaves"}
      BY <1>0, <2>1, OneStream
    <2>3. /\ stream[s].at = "events" /\ queue[s] # <<>>
          /\ queue' = [queue EXCEPT ![s] = Tail(@)]
          /\ owed' = [owed EXCEPT ![s] = @ - 1]
          /\ UNCHANGED <<subscribers, lock, next>>
      BY <1>3 DEF Serving, Write, WriteRaises
    <2>. QED BY <2>2, <2>3, TakenKeepsHub
  <1>4. ASSUME NEW v \in Visits, Completing(v) PROVE HubInv'
    <2>1. UNCHANGED <<hubVars, stream>>
      BY <1>4 DEF Completing, Ask, FirstText, WriteText, Done, Breaks
    <2>. QED BY <1>0, <2>1, NoHubStep DEF HubTypeOK
  <1>5. CASE UNCHANGED vars \/ TailEnds
    <2>1. UNCHANGED <<hubVars, stream>>
      BY <1>5 DEF vars, TailEnds
    <2>. QED BY <1>0, <2>1, NoHubStep DEF HubTypeOK
  <1>. QED
    BY <1>1, <1>2, <1>3, <1>4, <1>5, SubscribeKeepsHub, UnsubscribeKeepsHub DEF Next

THEOREM HubInvariant == Spec => []HubInv
  BY HubInitially, HubStep, PTL DEF Spec

(* Every event published since a stream subscribed was written, is in its   *)
(* queue or is about to be, once: Hub.publish holds the lock over all       *)
(* queues, subscribe and unsubscribe change the list under it               *)
(* (demo/server.py:84-98).                                                  *)
THEOREM NothingIsSkipped == Spec => []NothingSkipped
  <1>1. HubInv => NothingSkipped
    BY DEF HubInv, Accounted, Due, NothingSkipped
  <1>. QED BY <1>1, HubInvariant, PTL

-----------------------------------------------------------------------------
(* The order of the events.                                                 *)

LEMMA PendingOf ==
    ASSUME HubTypeOK, NEW i \in DOMAIN subscribers
    PROVE  LET q == queue[subscribers[i]] IN
           /\ q \in Seq(Publishers)
           /\ Len(Pending(i)) \in Nat
           /\ ~Awaits(i) => Pending(i) = q
           /\ Awaits(i) => /\ Len(Pending(i)) = Len(q) + 1
                           /\ Pending(i)[Len(q) + 1] = lock
                           /\ \A k \in 1 .. Len(q) : Pending(i)[k] = q[k]
  <1>. DEFINE q == queue[subscribers[i]]
  <1>1. q \in Seq(Publishers)
    BY ListedTypes DEF HubTypeOK
  <1>2. CASE Awaits(i)
    <2>1. Pending(i) = Append(q, lock) /\ lock \in Publishers
      BY <1>2 DEF Pending, Awaits
    <2>. HIDE DEF q
    <2>2. /\ Len(Append(q, lock)) = Len(q) + 1
          /\ Append(q, lock)[Len(q) + 1] = lock
          /\ \A k \in 1 .. Len(q) : Append(q, lock)[k] = q[k]
      BY <1>1, <2>1, AppendProperties
    <2>. QED BY <1>1, <1>2, <2>1, <2>2 DEF q
  <1>3. CASE ~Awaits(i)
    BY <1>1, <1>3 DEF Pending
  <1>. QED BY <1>2, <1>3

LEMMA PendingLengths ==
    HubTypeOK => \A k \in DOMAIN subscribers : Len(Pending(k)) \in Nat
  <1>. SUFFICES ASSUME HubTypeOK, NEW k \in DOMAIN subscribers
                PROVE  Len(Pending(k)) \in Nat
    OBVIOUS
  <1>. QED BY PendingOf, Zenon

(* What the i-th stream has left in the next state ends what the j-th has.  *)
Ends(i, j) ==
    /\ Len(Pending(i)') <= Len(Pending(j))
    /\ \A n \in 0 .. Len(Pending(i)') - 1 :
          Pending(i)'[Len(Pending(i)') - n] = Pending(j)[Len(Pending(j)) - n]

(* A step that only takes events from the fronts, or lists from the list,   *)
(* keeps the order.                                                         *)
LEMMA EndsKeepOrder ==
    ASSUME HubTypeOK, HubTypeOK', SameOrder,
           \A i \in DOMAIN subscribers' :
              Len(Pending(i)') = 0 \/ \E j \in DOMAIN subscribers : Ends(i, j)
    PROVE  SameOrder'
  <1>. SUFFICES ASSUME NEW i \in DOMAIN subscribers', NEW j \in DOMAIN subscribers',
                       NEW n \in 0 .. Len(Pending(i)') - 1, n < Len(Pending(j)')
                PROVE  Pending(i)'[Len(Pending(i)') - n] = Pending(j)'[Len(Pending(j)') - n]
    BY DEF SameOrder
  <1>1. Len(Pending(i)') \in Nat /\ Len(Pending(j)') \in Nat
    <2>1. (HubTypeOK => \A k \in DOMAIN subscribers : Len(Pending(k)) \in Nat)'
      BY PendingLengths, PTL
    <2>. QED BY <2>1
  <1>2. Len(Pending(i)') # 0 /\ Len(Pending(j)') # 0 /\ n \in 0 .. Len(Pending(j)') - 1
    BY <1>1
  <1>3. PICK k \in DOMAIN subscribers : Ends(i, k)
    BY <1>2
  <1>4. PICK l \in DOMAIN subscribers : Ends(j, l)
    BY <1>2
  <1>5. Len(Pending(k)) \in Nat /\ Len(Pending(l)) \in Nat
    BY PendingOf
  <1>6. n \in 0 .. Len(Pending(k)) - 1 /\ n < Len(Pending(l))
    BY <1>1, <1>2, <1>3, <1>4, <1>5 DEF Ends
  <1>7. Pending(k)[Len(Pending(k)) - n] = Pending(l)[Len(Pending(l)) - n]
    BY <1>6 DEF SameOrder
  <1>. QED BY <1>2, <1>3, <1>4, <1>7 DEF Ends

(* Steps after which nothing else is left for any stream.                   *)
LEMMA SameLeftKeepsOrder ==
    ASSUME HubTypeOK, HubTypeOK', SameOrder, UNCHANGED subscribers,
           \A i \in DOMAIN subscribers : Pending(i)' = Pending(i)
    PROVE  SameOrder'
  BY DEF SameOrder

LEMMA AcquireKeepsOrder ==
    ASSUME HubInv, HubInv', SameOrder, NEW x \in Publishers, Acquire(x)
    PROVE  SameOrder'
  <1>0. HubTypeOK /\ HubTypeOK'
    BY DEF HubInv
  <1>1. \A i \in DOMAIN subscribers : ~Awaits(i)
    BY <1>0, AwaitsFree DEF Acquire
  <1>2. \A i \in DOMAIN subscribers : Awaits(i)'
    BY <1>0, ListedTypes DEF Acquire, Awaits
  <1>3. subscribers' = subscribers /\ queue' = queue /\ lock' = x
    BY DEF Acquire
  <1>. DEFINE q(i) == queue[subscribers[i]]
  <1>4. \A i \in DOMAIN subscribers :
           /\ q(i) \in Seq(Publishers)
           /\ Pending(i) = q(i)
           /\ Pending(i)' = Append(q(i), x)
    BY <1>0, <1>1, <1>2, <1>3, PendingOf DEF Pending
  <1>. SUFFICES ASSUME NEW i \in DOMAIN subscribers, NEW j \in DOMAIN subscribers,
                       NEW n \in 0 .. Len(Append(q(i), x)) - 1, n < Len(Append(q(j), x))
                PROVE  Append(q(i), x)[Len(Append(q(i), x)) - n]
                          = Append(q(j), x)[Len(Append(q(j), x)) - n]
    <2>. SUFFICES ASSUME NEW i \in DOMAIN subscribers', NEW j \in DOMAIN subscribers',
                         NEW n \in 0 .. Len(Pending(i)') - 1, n < Len(Pending(j)')
                  PROVE  Pending(i)'[Len(Pending(i)') - n] = Pending(j)'[Len(Pending(j)') - n]
      BY DEF SameOrder
    <2>1. i \in DOMAIN subscribers /\ j \in DOMAIN subscribers
      BY <1>3
    <2>2. Pending(i)' = Append(q(i), x) /\ Pending(j)' = Append(q(j), x)
      BY <1>4, <2>1
    <2>. QED BY <2>1, <2>2
  <1>5. \A m \in 0 .. Len(q(i)) - 1 : m < Len(q(j)) =>
           q(i)[Len(q(i)) - m] = q(j)[Len(q(j)) - m]
    <2>1. \A m \in 0 .. Len(Pending(i)) - 1 : m < Len(Pending(j)) =>
             Pending(i)[Len(Pending(i)) - m] = Pending(j)[Len(Pending(j)) - m]
      BY DEF SameOrder
    <2>2. Pending(i) = q(i) /\ Pending(j) = q(j)
      BY <1>4
    <2>. HIDE DEF q
    <2>. QED BY <2>1, <2>2
  <1>6. q(i) \in Seq(Publishers) /\ q(j) \in Seq(Publishers)
    BY <1>4
  <1>. HIDE DEF q
  <1>7. /\ Len(q(i)) \in Nat /\ Len(q(j)) \in Nat
        /\ Len(Append(q(i), x)) = Len(q(i)) + 1 /\ Len(Append(q(j), x)) = Len(q(j)) + 1
    BY <1>6
  <1>8. CASE n = 0
    BY <1>6, <1>7, <1>8
  <1>9. CASE n # 0
    <2>1. n - 1 \in 0 .. Len(q(i)) - 1 /\ n - 1 < Len(q(j)) /\ n \in Nat
      BY <1>7, <1>9
    <2>2. q(i)[Len(q(i)) - (n - 1)] = q(j)[Len(q(j)) - (n - 1)]
      BY <1>5, <2>1
    <2>3. /\ Len(q(i)) + 1 - n \in 1 .. Len(q(i)) /\ Len(q(j)) + 1 - n \in 1 .. Len(q(j))
          /\ Len(q(i)) + 1 - n = Len(q(i)) - (n - 1)
          /\ Len(q(j)) + 1 - n = Len(q(j)) - (n - 1)
      BY <1>7, <2>1
    <2>4. /\ Append(q(i), x)[Len(q(i)) + 1 - n] = q(i)[Len(q(i)) + 1 - n]
          /\ Append(q(j), x)[Len(q(j)) + 1 - n] = q(j)[Len(q(j)) + 1 - n]
      BY <1>6, <2>3
    <2>. QED BY <1>7, <2>2, <2>3, <2>4
  <1>. QED BY <1>8, <1>9

(* The event that was pending for the stream is in its queue.               *)
LEMMA PutKeepsOrder ==
    ASSUME HubInv, HubInv', SameOrder, NEW x \in Publishers, Put(x)
    PROVE  SameOrder'
  <1>0. HubTypeOK /\ HubTypeOK'
    BY DEF HubInv
  <1>1. next \in DOMAIN subscribers /\ subscribers[next] \in Streams /\ lock = x
    BY <1>0 DEF Put, HubTypeOK
  <1>2. ASSUME NEW i \in DOMAIN subscribers PROVE Pending(i)' = Pending(i)
    <2>0. /\ next \in Nat /\ i \in Nat /\ lock' = lock /\ next' = next + 1
          /\ subscribers' = subscribers
      BY <1>0, ListedTypes DEF HubTypeOK, Put
    <2>1. /\ Awaits(i) <=> next <= i
          /\ Awaits(i)' <=> next + 1 <= i
      BY <1>0, <1>1, <2>0, AwaitsFree DEF Awaits
    <2>2. CASE i = next
      <3>1. Awaits(i) /\ ~Awaits(i)'
        BY <2>0, <2>1, <2>2
      <3>2. queue'[subscribers[i]] = Append(queue[subscribers[i]], lock)
        BY <1>0, <1>1, <2>2 DEF Put, HubTypeOK
      <3>. QED BY <2>0, <3>1, <3>2 DEF Pending
    <2>3. CASE i # next
      <3>1. subscribers[i] # subscribers[next]
        BY <2>3, <1>1 DEF HubInv, ListedOnce
      <3>2. queue'[subscribers[i]] = queue[subscribers[i]]
        BY <3>1, <1>0, <1>1, ListedTypes DEF Put, HubTypeOK
      <3>3. Awaits(i)' <=> Awaits(i)
        BY <2>0, <2>1, <2>3
      <3>. QED BY <2>0, <3>2, <3>3 DEF Pending
    <2>. QED BY <2>2, <2>3
  <1>3. UNCHANGED subscribers
    BY DEF Put
  <1>. QED BY <1>0, <1>2, <1>3, SameLeftKeepsOrder

LEMMA ReleaseKeepsOrder ==
    ASSUME HubInv, HubInv', SameOrder, NEW x \in Publishers, Release(x)
    PROVE  SameOrder'
  <1>0. HubTypeOK /\ HubTypeOK'
    BY DEF HubInv
  <1>1. \A i \in DOMAIN subscribers : ~Awaits(i) /\ ~Awaits(i)'
    BY <1>0, AwaitsFree, BoundsAssumption DEF Release, Awaits, HubTypeOK
  <1>2. \A i \in DOMAIN subscribers : Pending(i)' = Pending(i)
    BY <1>1 DEF Release, Pending
  <1>3. UNCHANGED subscribers
    BY DEF Release
  <1>. QED BY <1>0, <1>2, <1>3, SameLeftKeepsOrder

(* Nothing is left for a stream that has just subscribed.                   *)
LEMMA SubscribeKeepsOrder ==
    ASSUME HubInv, HubInv', SameOrder, NEW s \in Streams, Subscribe(s)
    PROVE  SameOrder'
  <1>0. HubTypeOK /\ HubTypeOK'
    BY DEF HubInv
  <1>1. /\ Len(subscribers) \in Nat
        /\ DOMAIN subscribers = 1 .. Len(subscribers)
        /\ DOMAIN subscribers' = 1 .. Len(subscribers) + 1
        /\ \A i \in 1 .. Len(subscribers) : subscribers'[i] = subscribers[i]
        /\ subscribers'[Len(subscribers) + 1] = s
    BY <1>0, AppendProperties DEF Subscribe, HubTypeOK, StreamRecord
  <1>2. \A i : ~Awaits(i) /\ ~Awaits(i)'
    BY <1>0, AwaitsFree, BoundsAssumption DEF Subscribe, Awaits
  <1>3. queue' = queue /\ queue[s] = <<>>
    BY DEF HubInv, NothingEarly, Subscribe
  <1>4. ASSUME NEW i \in DOMAIN subscribers'
        PROVE  Len(Pending(i)') = 0 \/ \E j \in DOMAIN subscribers : Ends(i, j)
    <2>1. CASE i = Len(subscribers) + 1
      <3>1. Pending(i)' = <<>>
        BY <1>1, <1>2, <1>3, <2>1 DEF Pending
      <3>. QED BY <3>1
    <2>2. CASE i \in DOMAIN subscribers
      <3>1. Pending(i)' = Pending(i) /\ Len(Pending(i)) \in Nat
        BY <1>0, <1>1, <1>2, <1>3, <2>2, PendingOf DEF Pending
      <3>2. Ends(i, i)
        BY <3>1 DEF Ends
      <3>. QED BY <2>2, <3>2
    <2>. QED BY <1>1, <2>1, <2>2
  <1>. QED BY <1>0, <1>4, EndsKeepOrder

(* One stream less; the others keep their queues.                           *)
LEMMA UnsubscribeKeepsOrder ==
    ASSUME HubInv, HubInv', SameOrder, NEW s \in Streams, Unsubscribe(s)
    PROVE  SameOrder'
  <1>0. HubTypeOK /\ HubTypeOK'
    BY DEF HubInv
  <1>1. PICK m \in DOMAIN subscribers : subscribers[m] = s
    BY DEF HubInv, ListedOnce, Unsubscribe, Forget
  <1>2. /\ subscribers \in Seq(Streams)
        /\ Len(subscribers) \in Nat /\ DOMAIN subscribers = 1 .. Len(subscribers)
        /\ \A i, j \in 1 .. Len(subscribers) : subscribers[i] = subscribers[j] => i = j
    <2>1. /\ subscribers \in Seq(Streams)
          /\ Len(subscribers) \in Nat /\ DOMAIN subscribers = 1 .. Len(subscribers)
      BY <1>0, ListedTypes DEF HubTypeOK
    <2>. QED BY <2>1, Zenon DEF HubInv, ListedOnce
  <1>3. /\ subscribers' \in Seq(Streams)
        /\ Len(subscribers') = Len(subscribers) - 1
        /\ \A i \in 1 .. Len(subscribers) - 1 :
              subscribers'[i] = IF i < m THEN subscribers[i] ELSE subscribers[i + 1]
    BY <1>1, <1>2, Removed DEF Unsubscribe, Forget
  <1>4. \A i : ~Awaits(i) /\ ~Awaits(i)'
    BY <1>0, AwaitsFree, BoundsAssumption DEF Unsubscribe, Forget, Awaits
  <1>5. ASSUME NEW i \in DOMAIN subscribers'
        PROVE  \E j \in DOMAIN subscribers : Ends(i, j)
    <2>. DEFINE j == IF i < m THEN i ELSE i + 1
    <2>1. /\ i \in 1 .. Len(subscribers) - 1
          /\ j \in DOMAIN subscribers /\ j # m /\ subscribers'[i] = subscribers[j]
      BY <1>1, <1>2, <1>3
    <2>. HIDE DEF j
    <2>2. subscribers[j] # s /\ subscribers[j] \in Streams
      BY <1>1, <1>2, <2>1
    <2>3. queue'[subscribers[j]] = queue[subscribers[j]]
      BY <1>0, <2>2 DEF Unsubscribe, Forget, HubTypeOK
    <2>4. Pending(i)' = Pending(j) /\ Len(Pending(j)) \in Nat
      BY <1>0, <1>4, <2>1, <2>3, PendingOf DEF Pending
    <2>5. Ends(i, j)
      BY <2>4 DEF Ends
    <2>. QED BY <2>1, <2>5
  <1>. QED BY <1>0, <1>5, EndsKeepOrder

(* The first event of a stream's queue has been taken.                      *)
LEMMA TakenKeepsOrder ==
    ASSUME HubInv, HubInv', SameOrder, NEW s \in Streams,
           queue[s] # <<>>, queue' = [queue EXCEPT ![s] = Tail(@)],
           UNCHANGED <<subscribers, lock, next>>
    PROVE  SameOrder'
  <1>0. HubTypeOK /\ HubTypeOK'
    BY DEF HubInv
  <1>1. \A i : Awaits(i)' <=> Awaits(i)
    BY DEF Awaits
  <1>2. ASSUME NEW i \in DOMAIN subscribers' PROVE Ends(i, i)
    <2>. DEFINE q == queue[subscribers[i]]
    <2>0. i \in DOMAIN subscribers /\ subscribers[i] \in Streams /\ q \in Seq(Publishers)
          /\ Len(Pending(i)) \in Nat
      BY <1>0, ListedTypes, PendingOf
    <2>1. CASE subscribers[i] # s
      <3>1. Pending(i)' = Pending(i)
        BY <1>0, <1>1, <2>0, <2>1 DEF Pending, HubTypeOK
      <3>. QED BY <2>0, <3>1 DEF Ends
    <2>2. CASE subscribers[i] = s
      <3>1. q # <<>> /\ queue'[subscribers[i]] = Tail(q)
        BY <1>0, <2>0, <2>2 DEF HubTypeOK
      <3>2. /\ Pending(i) = IF Awaits(i) THEN Append(q, lock) ELSE q
            /\ Pending(i)' = IF Awaits(i) THEN Append(Tail(q), lock) ELSE Tail(q)
            /\ Awaits(i) => lock \in Publishers
        BY <1>1, <3>1 DEF Pending, Awaits
      <3>. HIDE DEF q
      <3>3. /\ Len(q) \in Nat \ {0} /\ Tail(q) \in Seq(Publishers) /\ Len(Tail(q)) = Len(q) - 1
            /\ \A k \in 1 .. Len(q) - 1 : Tail(q)[k] = q[k + 1]
        BY <2>0, <3>1, HeadTailProperties
      <3>4. CASE ~Awaits(i)
        <4>1. \A n \in 0 .. Len(Tail(q)) - 1 : Tail(q)[Len(Tail(q)) - n] = q[Len(q) - n]
          <5>. SUFFICES ASSUME NEW n \in 0 .. Len(q) - 2
                        PROVE  Tail(q)[Len(q) - 1 - n] = q[Len(q) - n]
            BY <3>3
          <5>1. Len(q) - 1 - n \in 1 .. Len(q) - 1 /\ Len(q) - 1 - n + 1 = Len(q) - n
            BY <3>3
          <5>. QED BY <3>3, <5>1
        <4>. QED BY <3>2, <3>3, <3>4, <4>1 DEF Ends
      <3>5. CASE Awaits(i)
        <4>. DEFINE p == Append(q, lock)
                    t == Append(Tail(q), lock)
        <4>1. /\ Len(p) = Len(q) + 1 /\ p[Len(q) + 1] = lock
              /\ \A k \in 1 .. Len(q) : p[k] = q[k]
          BY <2>0, <3>2, <3>5, AppendProperties
        <4>2. /\ Len(t) = Len(q) /\ t[Len(q)] = lock
              /\ \A k \in 1 .. Len(q) - 1 : t[k] = Tail(q)[k]
          <5>1. Len(Tail(q)) + 1 = Len(q)
            BY <3>3
          <5>. QED BY <3>2, <3>3, <3>5, <5>1, AppendProperties
        <4>. HIDE DEF p, t
        <4>3. \A n \in 0 .. Len(t) - 1 : t[Len(t) - n] = p[Len(p) - n]
          <5>. SUFFICES ASSUME NEW n \in 0 .. Len(q) - 1
                        PROVE  t[Len(q) - n] = p[Len(q) + 1 - n]
            BY <4>1, <4>2
          <5>1. CASE n = 0
            BY <3>3, <4>1, <4>2, <5>1
          <5>2. CASE n # 0
            <6>1. Len(q) - n \in 1 .. Len(q) - 1 /\ Len(q) - n + 1 = Len(q) + 1 - n
                  /\ Len(q) + 1 - n \in 1 .. Len(q)
              BY <3>3, <5>2
            <6>2. t[Len(q) - n] = q[Len(q) + 1 - n]
              BY <3>3, <4>2, <6>1
            <6>. QED BY <4>1, <6>1, <6>2
          <5>. QED BY <5>1, <5>2
        <4>4. Pending(i) = p /\ Pending(i)' = t /\ Len(t) <= Len(p)
          BY <3>2, <3>3, <3>5, <4>1, <4>2 DEF p, t
        <4>. QED BY <4>3, <4>4 DEF Ends
      <3>. QED BY <3>4, <3>5
    <2>. QED BY <2>1, <2>2
  <1>. QED BY <1>0, <1>2, EndsKeepOrder

LEMMA OrderStep == HubInv /\ HubInv' /\ SameOrder /\ [Next]_vars => SameOrder'
  <1>. SUFFICES ASSUME HubInv, HubInv', SameOrder, [Next]_vars PROVE SameOrder'
    OBVIOUS
  <1>1. ASSUME NEW x \in Publishers, Acquire(x) \/ Publishing(x) PROVE SameOrder'
    BY <1>1, AcquireKeepsOrder, PutKeepsOrder, ReleaseKeepsOrder DEF Publishing
  <1>2. ASSUME NEW s \in Streams, Serving(s) PROVE SameOrder'
    BY <1>2, TakenKeepsOrder DEF Serving, Write, WriteRaises
  <1>3. CASE UNCHANGED hubVars
    <2>1. /\ \A i \in DOMAIN subscribers : Pending(i)' = Pending(i)
          /\ UNCHANGED subscribers
      BY <1>3 DEF Pending, Awaits, hubVars
    <2>. QED BY <2>1, SameLeftKeepsOrder DEF HubInv
  <1>. QED
    BY <1>1, <1>2, <1>3, SubscribeKeepsOrder, UnsubscribeKeepsOrder
       DEF Next, Completing, Ask, FirstText, WriteText, Done, Breaks, TailEnds, Open,
           Leaves, HeadersRaise, vars

(* Any two streams have the events that are left for them in the same       *)
(* order: Hub.publish puts an event into all queues before another one can  *)
(* be put into any (demo/server.py:94-98).                                  *)
THEOREM OrderIsTheSame == Spec => []SameOrder
  <1>1. Init => SameOrder
    BY DEF Init, SameOrder
  <1>. QED BY <1>1, HubInvariant, OrderStep, PTL DEF Spec
=============================================================================
