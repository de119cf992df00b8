------------------------ MODULE ConnectorStoreProofs ------------------------
(***************************************************************************)
(* Proofs about what CouchbaseConnector does with the store: a put that    *)
(* returned has stored all it was given, and a connector that is closed    *)
(* leaves the store alone.                                                 *)
(***************************************************************************)
EXTENDS ConnectorProofs

(* What a job of a call of some kind may be doing at the store.            *)
Serves(kind) == IF kind = "put" THEN {"write"}
                ELSE IF kind = "remove" THEN {"measure", "remove", "sweep"}
                ELSE {"ask", "fetch"}

(* A job is about its key, and a chunk that was reported stored is there.  *)
StoreInv ==
    /\ Reliable => \A c \in CallIds : Kind(c) # "remove"
    /\ \A j \in Jobs : request[j] # "none" =>
          key[j] = KeyOf(j) /\ request[j] \in Serves(Kind(j[1]))
    /\ \A j \in Jobs : Kind(j[1]) = "put" =>
          /\ reply[j] \in {"none", "stored", "error"}
          /\ Reliable /\ reply[j] = "stored" => KeyOf(j) \in cached
    /\ ReturnedPutIsStored

-----------------------------------------------------------------------------

(* A call keeps its kind and its keys.                                     *)
LEMMA BecomeSame ==
    ASSUME Inv, NEW c \in CallIds, NEW phase, NEW result, Become(c, phase, result)
    PROVE  /\ \A d \in CallIds : Kind(d)' = Kind(d) /\ call'[d].keys = call[d].keys
           /\ \A d \in CallIds \ {c} : Phase(d)' = Phase(d)
           /\ Phase(c)' = phase
<1>1. call \in [CallIds -> Records]
  BY TypeParts DEF Inv, LocalTypeOK
<1>2. /\ call'[c] = [kind |-> Kind(c), keys |-> call[c].keys,
                     phase |-> phase, result |-> result]
      /\ \A d \in CallIds \ {c} : call'[d] = call[d]
  BY <1>1 DEF Become
<1>3. QED
  BY <1>2 DEF Kind, Phase

(* Calls that go on, and jobs that are refused, keep what is stored; a put *)
(* returns only when all its jobs have stored their chunk.                 *)
LEMMA StoreKept ==
    ASSUME Inv, StoreInv,
           \A d \in CallIds : Kind(d)' = Kind(d) /\ call'[d].keys = call[d].keys,
           UNCHANGED <<request, key>>,
           \A j \in Jobs : reply'[j] \in {reply[j], "error"},
           Reliable => cached \subseteq cached',
           \A c \in CallIds : Kind(c) = "put" /\ Phase(c)' = "returned" =>
              Phase(c) = "returned" \/ (AllSettled(c) /\ ~Failed(c))
    PROVE  StoreInv'
<1>1. \A j \in Jobs : Kind(j[1])' = Kind(j[1]) /\ KeyOf(j)' = KeyOf(j)
  BY DEF Jobs, KeyOf
<1>2. Reliable => \A c \in CallIds : Kind(c)' # "remove"
  BY DEF StoreInv
<1>3. \A j \in Jobs : request'[j] # "none" =>
         key'[j] = KeyOf(j)' /\ request'[j] \in Serves(Kind(j[1]))'
  BY <1>1 DEF StoreInv, Serves
<1>4. \A j \in Jobs : Kind(j[1])' = "put" =>
         /\ reply'[j] \in {"none", "stored", "error"}
         /\ Reliable /\ reply'[j] = "stored" => KeyOf(j)' \in cached'
  BY <1>1 DEF StoreInv
<1>5. ASSUME Reliable, NEW c \in CallIds, Kind(c)' = "put", Phase(c)' = "returned",
             NEW i \in Indices(c)
      PROVE  call[c].keys[i] \in cached'
  <2>1. Kind(c) = "put"
    BY <1>5
  <2>2. CASE Phase(c) = "returned"
    BY <1>5, <2>1, <2>2 DEF StoreInv, ReturnedPutIsStored
  <2>3. CASE AllSettled(c) /\ ~Failed(c)
    <3>1. Outcome(<<c, i>>) = reply[<<c, i>>]
      BY <2>1 DEF Outcome, Fetches
    <3>2. reply[<<c, i>>] \notin {"none", "error"}
      BY <2>3, <3>1 DEF AllSettled, Failed
    <3>3. <<c, i>> \in Jobs
      BY IndicesFinite
    <3>4. KeyOf(<<c, i>>) \in cached
      BY <1>5, <2>1, <3>2, <3>3 DEF StoreInv
    <3>5. QED
      BY <1>5, <3>4 DEF KeyOf
  <2>4. QED
    BY <1>5, <2>1, <2>2, <2>3
<1>6. ReturnedPutIsStored'
  BY <1>5 DEF ReturnedPutIsStored, Indices
<1>7. QED
  BY <1>2, <1>3, <1>4, <1>6 DEF StoreInv

(* A job that begins its request is about its key and not yet answered.    *)
LEMMA StoreBegun ==
    ASSUME Inv, StoreInv, UNCHANGED call, NEW j, IsJob(j), BeginJob(j)
    PROVE  StoreInv'
<1>a. /\ \A c : Kind(c)' = Kind(c) /\ Phase(c)' = Phase(c)
      /\ \A k : KeyOf(k)' = KeyOf(k)
  BY DEF Kind, Phase, KeyOf
<1>b. StoreTypeOK /\ j \in Jobs
  BY TypeParts DEF Inv, IsJob
<1>1. CASE StoreClosed
  <2>1. /\ UNCHANGED <<cached, request, key>>
        /\ \A k \in Jobs : reply'[k] \in {reply[k], "error"}
    BY <1>1 DEF BeginJob, Refuse
  <2>2. \A d \in CallIds : Kind(d)' = Kind(d) /\ call'[d].keys = call[d].keys
    BY <1>a
  <2>3. \A d \in CallIds : Kind(d) = "put" /\ Phase(d)' = "returned" =>
           Phase(d) = "returned" \/ (AllSettled(d) /\ ~Failed(d))
    BY <1>a
  <2>4. QED
    BY <2>1, <2>2, <2>3, StoreKept
<1>2. CASE ~StoreClosed
  <2>1. Store!Begin(j, RequestOf(Kind(j[1])), KeyOf(j))
    BY <1>2 DEF BeginJob
  <2>2. RequestOf(Kind(j[1])) \in Serves(Kind(j[1])) /\ Kind(j[1]) \in LoopKinds \cup ThreadKinds
    BY JobKind DEF RequestOf, Serves, Fetches, LoopKinds, ThreadKinds
  <2> DEFINE r == RequestOf(Kind(j[1]))
  <2> HIDE DEF r
  <2>3. /\ request'[j] = r /\ key'[j] = KeyOf(j) /\ reply'[j] = "none"
        /\ \A k \in Jobs \ {j} :
              request'[k] = request[k] /\ key'[k] = key[k] /\ reply'[k] = reply[k]
        /\ UNCHANGED cached
    BY <1>b, <2>1 DEF r, Store!Begin, StoreTypeOK
  <2>4. \A k \in Jobs : request'[k] # "none" =>
           key'[k] = KeyOf(k)' /\ request'[k] \in Serves(Kind(k[1]))'
    <3> TAKE k \in Jobs
    <3>1. CASE k = j
      BY <1>a, <2>2, <2>3, <3>1 DEF r, Serves
    <3>2. CASE k # j
      BY <1>a, <2>3, <3>2 DEF StoreInv, Serves
    <3>3. QED
      BY <3>1, <3>2
  <2>5. \A k \in Jobs : Kind(k[1])' = "put" =>
           /\ reply'[k] \in {"none", "stored", "error"}
           /\ Reliable /\ reply'[k] = "stored" => KeyOf(k)' \in cached'
    BY <1>a, <2>3 DEF StoreInv
  <2>6. ReturnedPutIsStored'
    BY <1>a, <2>3 DEF StoreInv, ReturnedPutIsStored, Indices
  <2>7. QED
    BY <1>a, <2>4, <2>5, <2>6 DEF StoreInv
<1>3. QED
  BY <1>1, <1>2

(* What the store answers a job.                                           *)
LEMMA AnswerFits ==
    ASSUME StoreTypeOK, NEW j \in Jobs, Store!Answer(j)
    PROVE  /\ UNCHANGED key
           /\ request[j] = "write" =>
                 /\ request'[j] = "none"
                 /\ \/ reply'[j] = "stored" /\ key[j] \in cached'
                    \/ reply'[j] = "error"
           /\ request[j] \in {"ask", "fetch"} => request'[j] \in {request[j], "none"}
           /\ request[j] \in {"measure", "remove", "sweep"} =>
                 request'[j] \in {"measure", "remove", "sweep", "none"}
           /\ request[j] # "remove" => cached \subseteq cached'
<1>a. /\ request \in [Jobs -> Store!Requests \cup {"none", "remove", "sweep"}]
      /\ reply \in [Jobs -> Store!Replies]
  BY DEF StoreTypeOK
<1>1. CASE Store!Present(j) \/ Store!Tell(j) \/ Store!Hit(j) \/ Store!Miss(j)
           \/ Store!Absent(j)
  BY <1>1, <1>a DEF Store!Present, Store!Tell, Store!Hit, Store!Miss, Store!Absent,
     Store!Reply
<1>2. CASE Store!Commit(j)
  BY <1>2, <1>a DEF Store!Commit, Store!Reply
<1>3. CASE Store!Lacking(j) \/ Store!Find(j) \/ Store!Measure(j)
  BY <1>3, <1>a DEF Store!Lacking, Store!Find, Store!Measure
<1>4. CASE Store!Remove(j) \/ Store!Swept(j)
  BY <1>4, <1>a DEF Store!Remove, Store!Swept, Store!Reply
<1>5. CASE Store!Abandon(j)
  BY <1>5, <1>a DEF Store!Abandon, Store!Reply
<1>6. QED
  BY <1>1, <1>2, <1>3, <1>4, <1>5 DEF Store!Answer

LEMMA StoreWorked ==
    ASSUME Inv, StoreInv, NEW j \in Jobs, Work(j)
    PROVE  StoreInv'
<1>a. /\ UNCHANGED call /\ Store!Answer(j) /\ StoreTypeOK
  BY TypeParts DEF Inv, Work
<1>b. /\ \A c : Kind(c)' = Kind(c) /\ Phase(c)' = Phase(c)
      /\ \A k : KeyOf(k)' = KeyOf(k)
  BY <1>a DEF Kind, Phase, KeyOf
<1>c. OnlyJobs({j}) /\ request[j] # "none"
  BY <1>a, AnswerEffect
<1>d. key[j] = KeyOf(j) /\ request[j] \in Serves(Kind(j[1])) /\ j[1] \in CallIds
  BY <1>c DEF StoreInv, Jobs
<1>e. /\ UNCHANGED key
      /\ request[j] = "write" =>
            /\ request'[j] = "none"
            /\ \/ reply'[j] = "stored" /\ key[j] \in cached'
               \/ reply'[j] = "error"
      /\ request[j] \in {"ask", "fetch"} => request'[j] \in {request[j], "none"}
      /\ request[j] \in {"measure", "remove", "sweep"} =>
            request'[j] \in {"measure", "remove", "sweep", "none"}
      /\ request[j] # "remove" => cached \subseteq cached'
  BY <1>a, AnswerFits
<1>1. Reliable => cached \subseteq cached'
  BY <1>d, <1>e DEF StoreInv, Serves
<1>2. request'[j] # "none" => request'[j] \in Serves(Kind(j[1]))
  BY <1>d, <1>e DEF Serves
<1>3. \A k \in Jobs : request'[k] # "none" =>
         key'[k] = KeyOf(k)' /\ request'[k] \in Serves(Kind(k[1]))'
  <2> TAKE k \in Jobs
  <2>1. CASE k = j
    BY <1>2, <1>b, <1>d, <1>e, <2>1 DEF Serves
  <2>2. CASE k # j
    BY <1>b, <1>c, <1>e, <2>2 DEF StoreInv, OnlyJobs, Serves
  <2>3. QED
    BY <2>1, <2>2
<1>4. \A k \in Jobs : Kind(k[1])' = "put" =>
         /\ reply'[k] \in {"none", "stored", "error"}
         /\ Reliable /\ reply'[k] = "stored" => KeyOf(k)' \in cached'
  <2> TAKE k \in Jobs
  <2>1. CASE k = j
    BY <1>b, <1>d, <1>e, <2>1 DEF Serves
  <2>2. CASE k # j
    BY <1>1, <1>b, <1>c, <2>2 DEF StoreInv, OnlyJobs
  <2>3. QED
    BY <2>1, <2>2
<1>5. ReturnedPutIsStored'
  BY <1>1, <1>a, <1>b DEF StoreInv, ReturnedPutIsStored, Indices
<1>6. QED
  BY <1>3, <1>4, <1>5, <1>b DEF StoreInv

LEMMA StoreSubmitted ==
    ASSUME Inv, StoreInv, NEW made \in Calls, Submit(made)
    PROVE  StoreInv'
<1> DEFINE phase == IF made.kind \in LoopKinds THEN "submitted" ELSE "running"
           new == [kind |-> made.kind, keys |-> made.keys, result |-> <<>>,
                   phase |-> phase]
<1>a. PICK c \in CallIds : /\ Phase(c) = "none"
                           /\ call' = [call EXCEPT ![c] = new]
                           /\ UNCHANGED storeVars
  BY NextCall DEF Submit, Inv
<1>c. phase # "returned"
  OBVIOUS
<1> HIDE DEF phase
<1>d. call \in [CallIds -> Records]
  BY TypeParts DEF Inv, LocalTypeOK
<1>1. call'[c] = new /\ \A d \in CallIds \ {c} : call'[d] = call[d]
  BY <1>a, <1>d
<1>2. /\ Kind(c)' = made.kind /\ Phase(c)' # "returned"
      /\ \A d \in CallIds \ {c} : Kind(d)' = Kind(d) /\ Phase(d)' = Phase(d)
      /\ \A j \in Jobs : j[1] # c => KeyOf(j)' = KeyOf(j)
  BY <1>1, <1>c DEF Kind, Phase, KeyOf, Jobs
<1>3. UNCHANGED <<cached, request, key, reply>>
  BY <1>a DEF storeVars
<1>4. \A j \in Jobs : j[1] = c => request[j] = "none" /\ reply[j] = "none"
  BY <1>a DEF Inv, JobsOK, IsJob, Started
<1>5. Reliable => \A d \in CallIds : Kind(d)' # "remove"
  BY <1>2, ModeAssumption DEF StoreInv
<1>6. \A j \in Jobs : request'[j] # "none" =>
         key'[j] = KeyOf(j)' /\ request'[j] \in Serves(Kind(j[1]))'
  <2> TAKE j \in Jobs
  <2>1. CASE j[1] = c
    BY <1>3, <1>4, <2>1
  <2>2. CASE j[1] # c
    BY <1>2, <1>3, <2>2 DEF StoreInv, Serves, Jobs
  <2>3. QED
    BY <2>1, <2>2
<1>7. \A j \in Jobs : Kind(j[1])' = "put" =>
         /\ reply'[j] \in {"none", "stored", "error"}
         /\ Reliable /\ reply'[j] = "stored" => KeyOf(j)' \in cached'
  <2> TAKE j \in Jobs
  <2>1. CASE j[1] = c
    BY <1>3, <1>4, <2>1
  <2>2. CASE j[1] # c
    BY <1>2, <1>3, <2>2 DEF StoreInv, Jobs
  <2>3. QED
    BY <2>1, <2>2
<1>8. ReturnedPutIsStored'
  BY <1>1, <1>2, <1>3 DEF StoreInv, ReturnedPutIsStored, Indices
<1>9. QED
  BY <1>5, <1>6, <1>7, <1>8 DEF StoreInv

LEMMA StoreStep == Inv /\ StoreInv /\ [Next]_vars => StoreInv'
<1> SUFFICES ASSUME Inv, StoreInv, [Next]_vars
             PROVE  StoreInv'
  OBVIOUS
<1>1. ASSUME NEW made \in Calls, Submit(made)
      PROVE  StoreInv'
  BY <1>1, StoreSubmitted
<1>2. ASSUME UNCHANGED call, UNCHANGED <<request, key, reply>>,
             Reliable => cached \subseteq cached'
      PROVE  StoreInv'
  <2>1. \A d \in CallIds : /\ Kind(d)' = Kind(d) /\ call'[d].keys = call[d].keys
                           /\ Phase(d)' = Phase(d)
    BY <1>2 DEF Kind, Phase
  <2>2. QED
    BY <1>2, <2>1, StoreKept
<1>3. ASSUME NEW c \in CallIds, NEW phase, NEW result, Become(c, phase, result),
             UNCHANGED <<cached, request, key>>,
             \A j \in Jobs : reply'[j] \in {reply[j], "error"},
             Kind(c) = "put" /\ phase = "returned" => AllSettled(c) /\ ~Failed(c)
      PROVE  StoreInv'
  <2>1. /\ \A d \in CallIds : Kind(d)' = Kind(d) /\ call'[d].keys = call[d].keys
        /\ \A d \in CallIds \ {c} : Phase(d)' = Phase(d)
        /\ Phase(c)' = phase
    BY <1>3, BecomeSame
  <2>2. \A d \in CallIds : Kind(d) = "put" /\ Phase(d)' = "returned" =>
           Phase(d) = "returned" \/ (AllSettled(d) /\ ~Failed(d))
    BY <1>3, <2>1
  <2>3. QED
    BY <1>3, <2>1, <2>2, StoreKept
<1>4. ASSUME NEW c \in CallIds, NEW phase, NEW result, Become(c, phase, result),
             UNCHANGED storeVars, Kind(c) = "put" => phase # "returned"
      PROVE  StoreInv'
  BY <1>3, <1>4 DEF storeVars
<1>5. ASSUME NEW c \in CallIds, GiveBack(c)
      PROVE  StoreInv'
  BY <1>4, <1>5 DEF GiveBack, Return, Fetches
<1>6. ASSUME NEW c \in CallIds, Start(c)
      PROVE  StoreInv'
  <2>1. /\ Become(c, "running", <<>>) /\ UNCHANGED <<cached, request, key>>
        /\ \A j \in Jobs : reply'[j] \in {reply[j], "error"}
    BY <1>6 DEF Start, Refuse, storeVars
  <2>2. QED
    BY <1>3, <2>1
<1>7. ASSUME NEW c \in CallIds, Resume(c)
      PROVE  StoreInv'
  <2>1. CASE PutReturns(c)
    <3>1. /\ Become(c, "returned", <<>>) /\ AllSettled(c) /\ ~Failed(c)
          /\ UNCHANGED <<cached, request, key, reply>>
      BY <2>1 DEF PutReturns, Return, storeVars
    <3>2. QED
      BY <1>3, <3>1
  <2>2. CASE GatherRaises(c)
    BY <1>4, <2>2 DEF GatherRaises, Raise
  <2>3. CASE GetReturns(c) \/ PrefetchReturns(c) \/ CountReturns(c)
    BY <1>4, <2>3 DEF GetReturns, PrefetchReturns, CountReturns, Return, Resumes
  <2>4. QED
    BY <1>7, <2>1, <2>2, <2>3 DEF Resume
<1>8. ASSUME NEW c \in CallIds, ProbeReturns(c)
      PROVE  StoreInv'
  BY <1>4, <1>8 DEF ProbeReturns, Probing, Raise, Return, ThreadKinds
<1>9. ASSUME NEW c \in CallIds, Probe(c)
      PROVE  StoreInv'
  <2>1. IsJob(<<c, Cardinality(Probed(c)) + 1>>)
    BY <1>9, ProbeIsJob
  <2>2. QED
    BY <1>9, <2>1, StoreBegun DEF Probe
<1>10. ASSUME NEW j \in Jobs, Work(j)
       PROVE  StoreInv'
  BY <1>10, StoreWorked
<1>11. ASSUME NEW j \in Jobs, GetResumes(j)
       PROVE  StoreInv'
  BY <1>2, <1>11 DEF GetResumes, storeVars
<1>12. CASE TakeJob
  <2>1. IsJob(Head(queue))
    BY <1>12, HeadIsJob
  <2>2. QED
    BY <1>12, <2>1, StoreBegun DEF TakeJob
<1>13. CASE Others
  BY <1>2, <1>13 DEF Others, Store!Drop, Store!Settle
<1>14. CASE Close \/ CloseStore \/ CloseShutdown \/ CloseReturns \/ UNCHANGED vars
  BY <1>2, <1>14 DEF Close, CloseStore, CloseShutdown, CloseReturns, vars, storeVars
<1>15. running \subseteq Jobs
  BY DEF Inv, TypeOK
<1>16. QED
  BY <1>1, <1>5, <1>6, <1>7, <1>8, <1>9, <1>10, <1>11, <1>12, <1>13, <1>14, <1>15
     DEF Next, LoopThread, PoolThreads, OtherThreads

LEMMA InitStoreInv == Init => StoreInv
<1> SUFFICES ASSUME Init
             PROVE  StoreInv
  OBVIOUS
<1>1. /\ call = [c \in CallIds |-> NoCall]
      /\ request = [j \in Jobs |-> "none"] /\ reply = [j \in Jobs |-> "none"]
  BY DEF Init, Store!Init
<1>2. \A c \in CallIds : Kind(c) = "none"
  BY <1>1 DEF Kind, NoCall
<1>3. QED
  BY <1>1, <1>2 DEF StoreInv, ReturnedPutIsStored, Jobs

(* When nothing is removed, expires or is evicted, every chunk of a put     *)
(* that returned is in the store: the failure of a job, also one refused    *)
(* because close() came first, is never taken for success.                  *)
THEOREM PutsAreStored == Spec => []ReturnedPutIsStored
<1>1. Init => StoreInv
  BY InitStoreInv
<1>2. Inv /\ StoreInv /\ [Next]_vars => StoreInv'
  BY StoreStep
<1>3. StoreInv => ReturnedPutIsStored
  BY DEF StoreInv
<1>4. QED
  BY <1>1, <1>2, <1>3, Inductive, PTL DEF Spec

-----------------------------------------------------------------------------
(* What was counted can be read.                                           *)

Counting == {"count", "contains"}

CountedInv ==
    /\ \A j \in Jobs : Kind(j[1]) \in Counting /\ reply[j] = "yes" => KeyOf(j) \in cached
    /\ \A c \in CallIds : Kind(c) \in Counting =>
          \A i \in DOMAIN call[c].result : call[c].result[i] \in cached

(* Under Reliable the store only grows.                                    *)
LEMMA CachedGrows ==
    ASSUME Reliable, Inv, StoreInv, [Next]_vars
    PROVE  cached \subseteq cached'
<1>1. ASSUME NEW j \in Jobs, Work(j)
      PROVE  cached \subseteq cached'
  <2>1. StoreTypeOK /\ Store!Answer(j)
    BY <1>1, TypeParts DEF Inv, Work
  <2>2. request[j] # "none" /\ j[1] \in CallIds
    BY <2>1, AnswerEffect DEF Jobs
  <2>3. request[j] # "remove"
    BY <2>2 DEF StoreInv, Serves
  <2>4. QED
    BY <2>1, <2>3, AnswerFits
<1>2. ASSUME NEW j, BeginJob(j)
      PROVE  cached \subseteq cached'
  BY <1>2 DEF BeginJob, Refuse, Store!Begin
<1>3. CASE Others
  BY <1>3 DEF Others, Store!Drop, Store!Settle
<1>4. ASSUME NEW c \in CallIds, Start(c)
      PROVE  cached \subseteq cached'
  BY <1>4 DEF Start, Refuse, storeVars
<1>5. CASE UNCHANGED storeVars
  BY <1>5 DEF storeVars
<1>6. running \subseteq Jobs
  BY DEF Inv, TypeOK
<1>7. QED
  BY <1>1, <1>2, <1>3, <1>4, <1>5, <1>6 DEF Next, LoopThread, PoolThreads, OtherThreads,
     Submit, GiveBack, Resume, GatherRaises, PutReturns, GetReturns, CountReturns,
     PrefetchReturns, GetResumes, CloseShutdown, CloseReturns, TakeJob, CloseStore,
     Probe, ProbeReturns, Close, vars

(* Jobs that get no new answer, and results that count what is there.      *)
LEMMA CountedKept ==
    ASSUME CountedInv, cached \subseteq cached',
           \A d \in CallIds : Kind(d)' = Kind(d) /\ call'[d].keys = call[d].keys,
           \A j \in Jobs : reply'[j] = "yes" =>
              reply[j] = "yes" \/ (Kind(j[1]) \in Counting => KeyOf(j) \in cached'),
           \A d \in CallIds : Kind(d) \in Counting =>
              \/ call'[d].result = call[d].result
              \/ \A i \in DOMAIN call'[d].result : call'[d].result[i] \in cached
    PROVE  CountedInv'
<1>1. \A j \in Jobs : Kind(j[1])' = Kind(j[1]) /\ KeyOf(j)' = KeyOf(j)
  BY DEF Jobs, KeyOf
<1>2. QED
  BY <1>1 DEF CountedInv

LEMMA CountedReturned ==
    ASSUME Inv, CountedInv, NEW c \in CallIds, Kind(c) \in Counting \cup {"remove"}
    PROVE  LET result == SubSeq(call[c].keys, 1, Prefix(c, {"yes"}))
           IN  Kind(c) \in Counting => \A i \in DOMAIN result : result[i] \in cached
<1> DEFINE p == Prefix(c, {"yes"})
           keys == call[c].keys
<1>1. p \in 0 .. Len(keys) /\ \A i \in 1 .. p : Outcome(<<c, i>>) \in {"yes"}
  BY PrefixIsGood
<1>2. /\ keys \in Seq(Keys) /\ Len(keys) \in Nat /\ Indices(c) = 1 .. Len(keys)
      /\ \A i \in Indices(c) : <<c, i>> \in Jobs
  BY IndicesFinite, CallsAssumption
<1> HIDE DEF p
<1>3. /\ 1 \in Int /\ p \in Int /\ p >= 0
      /\ \A i \in 1 .. p : i \in Indices(c) /\ keys[i] \in Keys
  BY <1>1, <1>2
<1>4. SubSeq(keys, 1, p) = [i \in 1 .. p |-> keys[i]]
  BY <1>3
<1>5. ASSUME Kind(c) \in Counting, NEW i \in 1 .. p
      PROVE  keys[i] \in cached
  <2>1. Outcome(<<c, i>>) = reply[<<c, i>>]
    BY <1>5 DEF Outcome, Fetches, Counting
  <2>2. reply[<<c, i>>] = "yes" /\ <<c, i>> \in Jobs
    BY <1>1, <1>2, <1>3, <2>1
  <2>3. KeyOf(<<c, i>>) \in cached
    BY <1>5, <2>2 DEF CountedInv
  <2>4. QED
    BY <2>3 DEF KeyOf
<1>6. QED
  BY <1>4, <1>5 DEF p

LEMMA AnswerYes ==
    ASSUME StoreTypeOK, NEW j \in Jobs, Store!Answer(j)
    PROVE  /\ reply'[j] = "yes" => reply[j] = "yes" \/ key[j] \in cached'
           /\ Reliable /\ reply'[j] = "miss" => reply[j] = "miss" \/ key[j] \notin cached
           /\ \A k \in Jobs \ {j} : reply'[k] = reply[k]
<1>a. reply \in [Jobs -> Store!Replies]
  BY DEF StoreTypeOK
<1>1. CASE Store!Present(j) \/ Store!Tell(j) \/ Store!Hit(j) \/ Store!Miss(j)
           \/ Store!Absent(j)
  BY <1>1, <1>a DEF Store!Present, Store!Tell, Store!Hit, Store!Miss, Store!Absent,
     Store!Reply
<1>2. CASE Store!Commit(j) \/ Store!Abandon(j)
  BY <1>2, <1>a DEF Store!Commit, Store!Abandon, Store!Reply
<1>3. CASE Store!Lacking(j) \/ Store!Find(j) \/ Store!Measure(j)
  BY <1>3, <1>a DEF Store!Lacking, Store!Find, Store!Measure
<1>4. CASE Store!Remove(j) \/ Store!Swept(j)
  BY <1>4, <1>a DEF Store!Remove, Store!Swept, Store!Reply, Store!Outcome
<1>5. QED
  BY <1>1, <1>2, <1>3, <1>4 DEF Store!Answer

LEMMA CountedStep ==
    ASSUME Reliable, Inv, StoreInv, CountedInv, [Next]_vars
    PROVE  CountedInv'
<1>a. cached \subseteq cached'
  BY CachedGrows
<1>1. ASSUME NEW made \in Calls, Submit(made)
      PROVE  CountedInv'
  <2> DEFINE phase == IF made.kind \in LoopKinds THEN "submitted" ELSE "running"
             new == [kind |-> made.kind, keys |-> made.keys, result |-> <<>>,
                     phase |-> phase]
  <2>1. PICK c \in CallIds : /\ Phase(c) = "none"
                             /\ call' = [call EXCEPT ![c] = new]
                             /\ UNCHANGED storeVars
    BY <1>1, NextCall DEF Submit, Inv
  <2> HIDE DEF phase
  <2>2. call \in [CallIds -> Records]
    BY TypeParts DEF Inv, LocalTypeOK
  <2>3. call'[c] = new /\ \A d \in CallIds \ {c} : call'[d] = call[d]
    BY <2>1, <2>2
  <2>4. UNCHANGED <<cached, reply>>
    BY <2>1 DEF storeVars
  <2>5. \A j \in Jobs : j[1] = c => reply[j] = "none"
    BY <2>1 DEF Inv, JobsOK, IsJob, Started
  <2>6. \A j \in Jobs : j[1] # c => KeyOf(j)' = KeyOf(j) /\ Kind(j[1])' = Kind(j[1])
    BY <2>3 DEF Jobs, KeyOf, Kind
  <2>7. \A j \in Jobs : Kind(j[1])' \in Counting /\ reply'[j] = "yes" => KeyOf(j)' \in cached'
    BY <2>4, <2>5, <2>6 DEF CountedInv
  <2>8. \A d \in CallIds : Kind(d)' \in Counting =>
           \A i \in DOMAIN call'[d].result : call'[d].result[i] \in cached'
    <3> TAKE d \in CallIds
    <3>1. CASE d = c
      <4>1. DOMAIN call'[d].result = {}
        BY <2>3, <3>1, EmptySeq
      <4>2. QED
        BY <4>1
    <3>2. CASE d # c
      BY <2>3, <2>4, <3>2 DEF CountedInv, Kind
    <3>3. QED
      BY <3>1, <3>2
  <2>9. QED
    BY <2>7, <2>8 DEF CountedInv
<1>2. ASSUME UNCHANGED call, \A j \in Jobs : reply'[j] \in {reply[j], "none", "error"}
      PROVE  CountedInv'
  BY <1>2, <1>a, CountedKept DEF Kind
<1>3. ASSUME NEW c \in CallIds, NEW phase, NEW result, Become(c, phase, result),
             \A j \in Jobs : reply'[j] \in {reply[j], "none", "error"},
             Kind(c) \in Counting => \A i \in DOMAIN result : result[i] \in cached
      PROVE  CountedInv'
  <2>1. \A d \in CallIds : Kind(d)' = Kind(d) /\ call'[d].keys = call[d].keys
    BY <1>3, BecomeSame
  <2>2. call \in [CallIds -> Records]
    BY TypeParts DEF Inv, LocalTypeOK
  <2>3. call'[c].result = result /\ \A d \in CallIds \ {c} : call'[d] = call[d]
    BY <1>3, <2>2 DEF Become
  <2>4. QED
    BY <1>3, <1>a, <2>1, <2>3, CountedKept
<1>4. ASSUME NEW c \in CallIds, NEW phase, Become(c, phase, <<>>),
             \A j \in Jobs : reply'[j] \in {reply[j], "none", "error"}
      PROVE  CountedInv'
  <2>1. DOMAIN <<>> = {}
    BY EmptySeq
  <2>2. QED
    BY <1>3, <1>4, <2>1
<1>5. ASSUME NEW c \in CallIds, GiveBack(c) \/ Start(c) \/ GatherRaises(c) \/ PutReturns(c)
      PROVE  CountedInv'
  <2>1. \A j \in Jobs : reply'[j] \in {reply[j], "none", "error"}
    BY <1>5 DEF GiveBack, Start, GatherRaises, PutReturns, Refuse, storeVars
  <2>2. QED
    BY <1>4, <1>5, <2>1 DEF GiveBack, Start, GatherRaises, PutReturns, Return, Raise
<1>6. ASSUME NEW c \in CallIds, GetReturns(c) \/ PrefetchReturns(c)
      PROVE  CountedInv'
  <2>1. Kind(c) \notin Counting /\ UNCHANGED reply
    BY <1>6 DEF GetReturns, PrefetchReturns, Resumes, Counting, storeVars
  <2>2. QED
    BY <1>3, <1>6, <2>1 DEF GetReturns, PrefetchReturns, Return
<1>7. ASSUME NEW c \in CallIds, CountReturns(c) \/ ProbeReturns(c)
      PROVE  CountedInv'
  <2> DEFINE result == SubSeq(call[c].keys, 1, Prefix(c, {"yes"}))
  <2>1. Kind(c) \in Counting \cup {"remove"} /\ UNCHANGED reply
    BY <1>7 DEF CountReturns, ProbeReturns, Probing, Resumes, Counting, ThreadKinds, storeVars
  <2>2. Kind(c) \in Counting => \A i \in DOMAIN result : result[i] \in cached
    BY <2>1, CountedReturned
  <2>3. Become(c, "raised", <<>>) \/ Become(c, "returned", result)
    BY <1>7 DEF CountReturns, ProbeReturns, Return, Raise
  <2> HIDE DEF result
  <2>4. QED
    BY <1>3, <1>4, <2>1, <2>2, <2>3
<1>8. ASSUME NEW j \in Jobs, Work(j)
      PROVE  CountedInv'
  <2>1. StoreTypeOK /\ Store!Answer(j) /\ UNCHANGED call
    BY <1>8, TypeParts DEF Inv, Work
  <2>2. OnlyJobs({j}) /\ request[j] # "none"
    BY <2>1, AnswerEffect
  <2>3. key[j] = KeyOf(j)
    BY <2>2 DEF StoreInv
  <2>4. reply'[j] = "yes" => reply[j] = "yes" \/ key[j] \in cached'
    BY <2>1, AnswerYes
  <2>5. \A k \in Jobs : reply'[k] = "yes" =>
           reply[k] = "yes" \/ (Kind(k[1]) \in Counting => KeyOf(k) \in cached')
    BY <2>2, <2>3, <2>4 DEF OnlyJobs
  <2>6. QED
    BY <1>a, <2>1, <2>5, CountedKept DEF Kind
<1>9. ASSUME NEW j, BeginJob(j), UNCHANGED call
      PROVE  CountedInv'
  <2>1. StoreTypeOK
    BY TypeParts DEF Inv
  <2>2. \A k \in Jobs : reply'[k] \in {reply[k], "none", "error"}
    BY <1>9, <2>1 DEF BeginJob, Refuse, Store!Begin, StoreTypeOK
  <2>3. QED
    BY <1>2, <1>9, <2>2
<1>10. ASSUME NEW j \in Jobs, GetResumes(j)
       PROVE  CountedInv'
  BY <1>2, <1>10 DEF GetResumes, storeVars
<1>11. CASE Others
  BY <1>2, <1>11 DEF Others, Store!Drop, Store!Settle
<1>12. CASE Close \/ CloseStore \/ CloseShutdown \/ CloseReturns \/ UNCHANGED vars
  BY <1>2, <1>12 DEF Close, CloseStore, CloseShutdown, CloseReturns, vars, storeVars
<1>13. CASE TakeJob
  BY <1>9, <1>13 DEF TakeJob
<1>14. ASSUME NEW c \in CallIds, Probe(c)
       PROVE  CountedInv'
  BY <1>9, <1>14 DEF Probe
<1>15. running \subseteq Jobs
  BY DEF Inv, TypeOK
<1>16. QED
  BY <1>1, <1>5, <1>6, <1>7, <1>8, <1>10, <1>11, <1>12, <1>13, <1>14, <1>15
     DEF Next, LoopThread, PoolThreads, OtherThreads, Resume

(* A get misses only what is not in the store.                             *)
LEMMA MissIsTrue ==
    ASSUME Reliable, Inv, [Next]_vars,
           NEW j \in Jobs, reply[j] # "miss", reply'[j] = "miss"
    PROVE  key[j] \notin cached
<1>a. StoreTypeOK
  BY TypeParts DEF Inv
<1>1. ASSUME NEW k \in Jobs, Work(k)
      PROVE  key[j] \notin cached
  BY <1>1, <1>a, AnswerYes DEF Work
<1>2. ASSUME NEW k, BeginJob(k)
      PROVE  FALSE
  BY <1>2, <1>a DEF BeginJob, Refuse, Store!Begin, StoreTypeOK
<1>3. ASSUME NEW c \in CallIds, Start(c)
      PROVE  FALSE
  BY <1>3 DEF Start, Refuse, storeVars
<1>4. CASE Others
  BY <1>4 DEF Others, Store!Drop, Store!Settle
<1>5. CASE UNCHANGED storeVars
  BY <1>5 DEF storeVars
<1>6. running \subseteq Jobs
  BY DEF Inv, TypeOK
<1>7. QED
  BY <1>1, <1>2, <1>3, <1>4, <1>5, <1>6 DEF Next, LoopThread, PoolThreads, OtherThreads,
     Submit, GiveBack, Resume, GatherRaises, PutReturns, GetReturns, CountReturns,
     PrefetchReturns, GetResumes, CloseShutdown, CloseReturns, TakeJob, CloseStore,
     Probe, ProbeReturns, Close, vars

LEMMA InitCountedInv == Init => CountedInv
<1> SUFFICES ASSUME Init
             PROVE  CountedInv
  OBVIOUS
<1>1. \A c \in CallIds : Kind(c) = "none"
  BY DEF Init, Kind, NoCall
<1>2. QED
  BY <1>1 DEF CountedInv, Counting, Jobs

(* When nothing is removed, expires or is evicted, what batched_contains or *)
(* the asynchronous count has reported as a prefix can be fetched from then *)
(* on, although its keys were probed one after the other: no get that meets *)
(* one of these keys misses.                                                *)
THEOREM CountedPrefixesAreReadable ==
    ASSUME Reliable
    PROVE  Spec => CountedIsReadable
<1>1. Init => StoreInv /\ CountedInv
  BY InitStoreInv, InitCountedInv
<1>2. Inv /\ StoreInv /\ [Next]_vars => StoreInv'
  BY StoreStep
<1>3. Inv /\ StoreInv /\ CountedInv /\ [Next]_vars => CountedInv'
  BY CountedStep
<1> DEFINE Read == \A j \in Jobs : reply[j] # "miss" /\ reply'[j] = "miss" =>
              \A c \in CallIds : Kind(c) \in {"count", "contains"} =>
                  \A i \in DOMAIN call[c].result : call[c].result[i] # key[j]
<1>4. Inv /\ CountedInv /\ [Next]_vars => [Read]_vars
  <2> SUFFICES ASSUME Inv, CountedInv, [Next]_vars
               PROVE  Read
    OBVIOUS
  <2>1. ASSUME NEW j \in Jobs, reply[j] # "miss", reply'[j] = "miss"
        PROVE  key[j] \notin cached
    BY <2>1, MissIsTrue
  <2>2. \A c \in CallIds : Kind(c) \in {"count", "contains"} =>
           \A i \in DOMAIN call[c].result : call[c].result[i] \in cached
    BY DEF CountedInv, Counting
  <2>3. QED
    BY <2>1, <2>2
<1>5. (Spec => [][Read]_vars) => (Spec => CountedIsReadable)
  BY DEF CountedIsReadable
<1> HIDE DEF Read
<1>6. Spec => [][Read]_vars
  BY <1>1, <1>2, <1>3, <1>4, Inductive, PTL DEF Spec
<1>7. QED
  BY <1>5, <1>6

-----------------------------------------------------------------------------
(* The pool, and close().                                                  *)

QueueOK ==
    /\ \A n \in DOMAIN queue : queue[n] # CloseJob =>
          Kind(queue[n][1]) \in LoopKinds /\ request[queue[n]] = "none"
    /\ \A n, m \in DOMAIN queue : queue[n] # CloseJob /\ queue[n] = queue[m] => n = m

(* A thread of the pool is at every job of the loop that is at the store.  *)
WorkersOK ==
    /\ \A j \in Jobs : request[j] # "none" => reply[j] = "none"
    /\ \A j \in Jobs : request[j] # "none" /\ Kind(j[1]) \in LoopKinds => j \in running

PoolInv ==
    /\ \A c \in CallIds : Phase(c) = "submitted" => Kind(c) \in LoopKinds
    /\ QueueOK
    /\ WorkersOK
    /\ closer = "closed" => queue = <<>> /\ running = {}

LEMMA QueuedJob ==
    ASSUME Inv, NEW n \in DOMAIN queue, queue[n] # CloseJob
    PROVE  /\ IsJob(queue[n]) /\ queue[n] \in Jobs
           /\ queue[n][1] \in CallIds /\ Phase(queue[n][1]) # "none"
BY DEF Inv, JobsOK, IsJob, Jobs, Started

(* The queue is as it was.                                                 *)
LEMMA QueueSame ==
    ASSUME Inv, QueueOK, UNCHANGED queue,
           \A c \in CallIds : Phase(c) # "none" => Kind(c)' = Kind(c),
           \A n \in DOMAIN queue : queue[n] # CloseJob => request'[queue[n]] = "none"
    PROVE  QueueOK'
<1>1. ASSUME NEW n \in DOMAIN queue, queue[n] # CloseJob
      PROVE  call'[queue[n][1]].kind \in LoopKinds /\ request'[queue[n]] = "none"
  BY <1>1, QueuedJob DEF QueueOK, Kind
<1>2. QED
  BY <1>1 DEF QueueOK, Kind

(* A thread has taken the first job of the queue.                          *)
LEMMA QueueTail ==
    ASSUME Inv, QueueOK, queue # <<>>, queue' = Tail(queue), UNCHANGED call,
           \A n \in DOMAIN queue : n # 1 /\ queue[n] # CloseJob =>
              request'[queue[n]] = "none"
    PROVE  QueueOK'
<1>1. \A n \in DOMAIN queue' : /\ n \in Nat /\ n # 0
                               /\ n + 1 \in DOMAIN queue /\ queue'[n] = queue[n + 1]
  <2>1. queue \in Seq(Jobs \cup {CloseJob})
    BY TypeParts DEF Inv, LocalTypeOK
  <2>2. DOMAIN queue' = 1 .. Len(Tail(queue)) /\ Len(Tail(queue)) \in Nat
    BY <2>1, QueueFront
  <2>3. QED
    BY <2>1, <2>2, QueueFront
<1>2. ASSUME NEW n \in DOMAIN queue', queue'[n] # CloseJob
      PROVE  call'[queue'[n][1]].kind \in LoopKinds /\ request'[queue'[n]] = "none"
  <2>1. n + 1 \in DOMAIN queue /\ queue'[n] = queue[n + 1] /\ n + 1 # 1
    BY <1>1
  <2>2. QED
    BY <1>2, <2>1 DEF QueueOK, Kind
<1>3. ASSUME NEW n \in DOMAIN queue', NEW m \in DOMAIN queue',
             queue'[n] # CloseJob, queue'[n] = queue'[m]
      PROVE  n = m
  <2>1. n + 1 = m + 1
    BY <1>1, <1>3 DEF QueueOK
  <2>2. QED
    BY <1>1, <2>1
<1>4. QED
  BY <1>2, <1>3 DEF QueueOK, Kind

(* Steps in which no job of the pool begins, ends or is queued.            *)
LEMMA PoolKept ==
    ASSUME Inv, PoolInv, UNCHANGED <<request, queue, running>>,
           \A c \in CallIds : Phase(c) # "none" => Kind(c)' = Kind(c),
           \A c \in CallIds : Phase(c)' = "submitted" => Kind(c)' \in LoopKinds,
           \A j \in Jobs : reply'[j] = reply[j] \/ request[j] = "none",
           closer' = "closed" => closer = "closed" \/ (queue = <<>> /\ running = {})
    PROVE  PoolInv'
<1>1. QueueOK'
  BY QueueSame DEF PoolInv, QueueOK
<1>2. \A j \in Jobs : request[j] # "none" => Kind(j[1])' = Kind(j[1])
  BY DEF Inv, JobsOK, IsJob, Started, Jobs
<1>3. WorkersOK'
  BY <1>2 DEF PoolInv, WorkersOK
<1>4. QED
  BY <1>1, <1>3 DEF PoolInv

LEMMA AnswerEnds ==
    ASSUME StoreTypeOK, NEW j \in Jobs, Store!Answer(j), reply[j] = "none",
           reply'[j] # "none"
    PROVE  request'[j] = "none"
<1>a. /\ request \in [Jobs -> Store!Requests \cup {"none", "remove", "sweep"}]
      /\ reply \in [Jobs -> Store!Replies]
  BY DEF StoreTypeOK
<1>1. CASE Store!Present(j) \/ Store!Tell(j) \/ Store!Hit(j) \/ Store!Miss(j)
           \/ Store!Absent(j)
  BY <1>1, <1>a DEF Store!Present, Store!Tell, Store!Hit, Store!Miss, Store!Absent,
     Store!Reply
<1>2. CASE Store!Commit(j) \/ Store!Abandon(j)
  BY <1>2, <1>a DEF Store!Commit, Store!Abandon, Store!Reply
<1>3. CASE Store!Lacking(j) \/ Store!Find(j) \/ Store!Measure(j)
  BY <1>3, <1>a DEF Store!Lacking, Store!Find, Store!Measure
<1>4. CASE Store!Remove(j) \/ Store!Swept(j)
  BY <1>4, <1>a DEF Store!Remove, Store!Swept, Store!Reply
<1>5. QED
  BY <1>1, <1>2, <1>3, <1>4 DEF Store!Answer

LEMMA PoolWorked ==
    ASSUME Inv, PoolInv, NEW j \in Jobs, Work(j)
    PROVE  PoolInv'
<1>1. /\ Store!Answer(j) /\ StoreTypeOK
      /\ running' = IF reply'[j] = "none" THEN running ELSE running \ {j}
      /\ UNCHANGED <<call, queue, closer>>
  BY TypeParts DEF Inv, Work
<1>2. OnlyJobs({j}) /\ request[j] # "none"
  BY <1>1, AnswerEffect
<1>3. reply[j] = "none" /\ (Kind(j[1]) \in LoopKinds => j \in running)
  BY <1>2 DEF PoolInv, WorkersOK
<1>4. reply'[j] # "none" => request'[j] = "none"
  BY <1>1, <1>3, AnswerEnds
<1>5. \A c : Kind(c)' = Kind(c) /\ Phase(c)' = Phase(c)
  BY <1>1 DEF Kind, Phase
<1>6. QueueOK'
  <2>1. ASSUME NEW n \in DOMAIN queue, queue[n] # CloseJob
        PROVE  request'[queue[n]] = "none"
    BY <1>2, <2>1, QueuedJob DEF PoolInv, QueueOK, OnlyJobs
  <2>2. QED
    BY <1>1, <1>5, <2>1, QueueSame DEF PoolInv
<1>7. WorkersOK'
  <2> SUFFICES ASSUME NEW k \in Jobs, request'[k] # "none"
               PROVE  reply'[k] = "none" /\ (Kind(k[1])' \in LoopKinds => k \in running')
    BY DEF WorkersOK
  <2>1. CASE k = j
    BY <1>1, <1>3, <1>4, <1>5, <2>1
  <2>2. CASE k # j
    BY <1>1, <1>2, <1>5, <2>2 DEF PoolInv, WorkersOK, OnlyJobs
  <2>3. QED
    BY <2>1, <2>2
<1>8. closer' = "closed" => queue' = <<>> /\ running' = {}
  BY <1>1 DEF PoolInv
<1>9. QED
  BY <1>5, <1>6, <1>7, <1>8 DEF PoolInv

LEMMA PoolTakes ==
    ASSUME Inv, PoolInv, TakeJob
    PROVE  PoolInv'
<1> DEFINE j == Head(queue)
<1>1. /\ queue # <<>> /\ j # CloseJob /\ queue' = Tail(queue) /\ BeginJob(j)
      /\ running' = IF StoreClosed THEN running ELSE running \cup {j}
      /\ UNCHANGED <<call, closer>>
  BY DEF TakeJob
<1>2. queue \in Seq(Jobs \cup {CloseJob}) /\ StoreTypeOK
  BY TypeParts DEF Inv, LocalTypeOK
<1>3. 1 \in DOMAIN queue /\ j = queue[1]
  BY <1>1, <1>2, QueueFront
<1>4. j \in Jobs /\ request[j] = "none"
  BY <1>1, <1>3, QueuedJob DEF PoolInv, QueueOK
<1>5. /\ \A k \in Jobs \ {j} : request'[k] = request[k] /\ reply'[k] = reply[k]
      /\ StoreClosed => request'[j] = "none"
      /\ ~StoreClosed => reply'[j] = "none"
  <2>1. CASE StoreClosed
    BY <1>1, <1>4, <2>1 DEF BeginJob, Refuse
  <2>2. CASE ~StoreClosed
    BY <1>1, <1>2, <1>4, <2>2 DEF BeginJob, Store!Begin, StoreTypeOK
  <2>3. QED
    BY <2>1, <2>2
<1> HIDE DEF j
<1>6. \A c : Kind(c)' = Kind(c) /\ Phase(c)' = Phase(c)
  BY <1>1 DEF Kind, Phase
<1>7. QueueOK'
  <2>1. ASSUME NEW n \in DOMAIN queue, n # 1, queue[n] # CloseJob
        PROVE  request'[queue[n]] = "none"
    <3>1. queue[n] \in Jobs /\ request[queue[n]] = "none"
      BY <2>1, QueuedJob DEF PoolInv, QueueOK
    <3>2. queue[n] # j
      BY <1>3, <2>1 DEF PoolInv, QueueOK
    <3>3. QED
      BY <1>5, <3>1, <3>2
  <2>2. QED
    BY <1>1, <2>1, QueueTail DEF PoolInv
<1>8. WorkersOK'
  <2> SUFFICES ASSUME NEW k \in Jobs, request'[k] # "none"
               PROVE  reply'[k] = "none" /\ (Kind(k[1])' \in LoopKinds => k \in running')
    BY DEF WorkersOK
  <2>1. CASE k = j
    BY <1>1, <1>5, <2>1
  <2>2. CASE k # j
    BY <1>1, <1>5, <1>6, <2>2 DEF PoolInv, WorkersOK
  <2>3. QED
    BY <2>1, <2>2
<1>9. closer' # "closed"
  BY <1>1 DEF PoolInv
<1>10. QED
  BY <1>6, <1>7, <1>8, <1>9 DEF PoolInv

(* A thread of LMCache begins a request: the pool has nothing to do with it. *)
LEMMA PoolProbed ==
    ASSUME Inv, PoolInv, NEW c \in CallIds, Probe(c)
    PROVE  PoolInv'
<1> DEFINE j == <<c, Cardinality(Probed(c)) + 1>>
<1>1. /\ BeginJob(j) /\ Kind(c) \notin LoopKinds
      /\ \A i \in Indices(c) : request[<<c, i>>] = "none"
      /\ UNCHANGED <<call, queue, running, closer>>
  BY DEF Probe, Probing, ThreadKinds, LoopKinds, poolVars
<1>2. StoreTypeOK
  BY TypeParts DEF Inv
<1>3. IsJob(j)
  BY ProbeIsJob
<1>4. j \in Jobs /\ request[j] = "none" /\ j[1] = c
  BY <1>1, <1>3 DEF IsJob
<1> HIDE DEF j
<1>5. /\ \A k \in Jobs \ {j} : request'[k] = request[k] /\ reply'[k] = reply[k]
      /\ request'[j] = "none" \/ reply'[j] = "none"
  <2>1. CASE StoreClosed
    BY <1>1, <1>4, <2>1 DEF BeginJob, Refuse
  <2>2. CASE ~StoreClosed
    BY <1>1, <1>2, <1>4, <2>2 DEF BeginJob, Store!Begin, StoreTypeOK
  <2>3. QED
    BY <2>1, <2>2
<1>6. \A d : Kind(d)' = Kind(d) /\ Phase(d)' = Phase(d)
  BY <1>1 DEF Kind, Phase
<1>7. QueueOK'
  <2>1. ASSUME NEW n \in DOMAIN queue, queue[n] # CloseJob
        PROVE  request'[queue[n]] = "none"
    <3>1. /\ queue[n] \in Jobs /\ request[queue[n]] = "none"
          /\ Kind(queue[n][1]) \in LoopKinds
      BY <2>1, QueuedJob DEF PoolInv, QueueOK
    <3>2. queue[n] # j
      BY <1>1, <1>4, <3>1
    <3>3. QED
      BY <1>5, <3>1, <3>2
  <2>2. QED
    BY <1>1, <1>6, <2>1, QueueSame DEF PoolInv
<1>8. WorkersOK'
  <2> SUFFICES ASSUME NEW k \in Jobs, request'[k] # "none"
               PROVE  reply'[k] = "none" /\ (Kind(k[1])' \in LoopKinds => k \in running')
    BY DEF WorkersOK
  <2>1. CASE k = j
    BY <1>1, <1>4, <1>5, <1>6, <2>1
  <2>2. CASE k # j
    BY <1>1, <1>5, <1>6, <2>2 DEF PoolInv, WorkersOK
  <2>3. QED
    BY <2>1, <2>2
<1>9. QED
  BY <1>1, <1>6, <1>7, <1>8 DEF PoolInv

LEMMA PoolStarts ==
    ASSUME Inv, PoolInv, NEW c \in CallIds, Start(c)
    PROVE  PoolInv'
<1> DEFINE js == {<<c, i>> : i \in Indices(c)}
<1>1. /\ Phase(c) = "submitted" /\ Become(c, "running", <<>>)
      /\ UNCHANGED <<running, closer, request>>
  BY DEF Start, Refuse, storeVars
<1>2. /\ \A d \in CallIds : Kind(d)' = Kind(d)
      /\ \A d \in CallIds : Phase(d)' = "submitted" => Phase(d) = "submitted"
  BY <1>1, BecomeSame
<1>3. Kind(c) \in LoopKinds
  BY <1>1 DEF PoolInv
<1>4. \A j \in Jobs : IsJob(j) => j[1] # c
  BY <1>1 DEF IsJob, Started
<1>5. \A i \in Indices(c) : <<c, i>> \in Jobs /\ request[<<c, i>>] = "none"
  <2> TAKE i \in Indices(c)
  <2>1. <<c, i>> \in Jobs
    BY IndicesFinite
  <2>2. ~IsJob(<<c, i>>)
    BY <1>4, <2>1
  <2>3. QED
    BY <2>1, <2>2 DEF Inv, JobsOK
<1>6. CASE PoolShut
  <2>1. UNCHANGED queue /\ \A j \in Jobs : reply'[j] = reply[j] \/ j \in js
    BY <1>6 DEF Start, Refuse
  <2>2. \A j \in Jobs : reply'[j] = reply[j] \/ request[j] = "none"
    BY <1>5, <2>1
  <2>3. \A d \in CallIds : Phase(d)' = "submitted" => Kind(d)' \in LoopKinds
    BY <1>2 DEF PoolInv
  <2>4. QED
    BY <1>1, <1>2, <2>1, <2>2, <2>3, PoolKept
<1>7. CASE ~PoolShut
  <2>1. queue' = queue \o JobsOf(c) /\ UNCHANGED <<reply>>
    BY <1>7 DEF Start, storeVars
  <2>2. /\ JobsOf(c) \in Seq(Jobs \cup {CloseJob})
        /\ \A i \in 1 .. Len(JobsOf(c)) : i \in Indices(c) /\ JobsOf(c)[i] = <<c, i>>
    BY IndicesFinite, CallsAssumption DEF JobsOf
  <2> DEFINE q == queue
             s == JobsOf(c)
             S == Jobs \cup {CloseJob}
  <2>3. q \in Seq(S) /\ s \in Seq(S) /\ queue' = q \o s
    BY <2>1, <2>2, TypeParts DEF Inv, LocalTypeOK
  <2> HIDE DEF s, S
  <2>4. /\ Len(q) \in Nat /\ Len(s) \in Nat /\ DOMAIN q = 1 .. Len(q)
        /\ DOMAIN (q \o s) = 1 .. Len(q) + Len(s)
        /\ \A n \in 1 .. Len(q) + Len(s) :
              (q \o s)[n] = IF n <= Len(q) THEN q[n] ELSE s[n - Len(q)]
    BY <2>3, ConcatProperties
  <2>5. ASSUME NEW n \in DOMAIN queue'
        PROVE  \/ n <= Len(q) /\ n \in DOMAIN q /\ queue'[n] = q[n]
               \/ /\ n > Len(q) /\ n - Len(q) \in Indices(c)
                  /\ queue'[n] = <<c, n - Len(q)>>
    <3>1. n \in 1 .. Len(q) + Len(s)
      BY <2>3, <2>4, <2>5
    <3>2. CASE n <= Len(q)
      BY <2>3, <2>4, <3>1, <3>2
    <3>3. CASE n > Len(q)
      <4>1. n - Len(q) \in 1 .. Len(s)
        BY <2>4, <3>1, <3>3
      <4>2. queue'[n] = s[n - Len(q)]
        BY <2>3, <2>4, <3>1, <3>3
      <4>3. QED
        BY <2>2, <3>3, <4>1, <4>2 DEF s
    <3>4. QED
      BY <2>4, <3>1, <3>2, <3>3
  <2>6. ASSUME NEW n \in DOMAIN queue', queue'[n] # CloseJob
        PROVE  call'[queue'[n][1]].kind \in LoopKinds /\ request'[queue'[n]] = "none"
    <3>1. CASE n \in DOMAIN q /\ queue'[n] = q[n]
      BY <1>1, <1>2, <2>6, <3>1, QueuedJob DEF PoolInv, QueueOK, Kind
    <3>2. CASE n - Len(q) \in Indices(c) /\ queue'[n] = <<c, n - Len(q)>>
      BY <1>1, <1>2, <1>3, <1>5, <3>2 DEF Kind
    <3>3. QED
      BY <2>5, <3>1, <3>2
  <2>7. ASSUME NEW n \in DOMAIN queue', NEW m \in DOMAIN queue',
               queue'[n] # CloseJob, queue'[n] = queue'[m]
        PROVE  n = m
    <3>1. n \in Int /\ m \in Int /\ Len(q) \in Int
      BY <2>3, <2>4
    <3>2. CASE n <= Len(q) /\ m <= Len(q)
      BY <2>5, <2>7, <3>1, <3>2 DEF PoolInv, QueueOK
    <3>3. CASE n > Len(q) /\ m > Len(q)
      <4>1. <<c, n - Len(q)>> = <<c, m - Len(q)>>
        BY <2>5, <2>7, <3>1, <3>3
      <4>2. n - Len(q) = m - Len(q)
        BY <4>1
      <4>3. QED
        BY <3>1, <4>2
    <3>4. ASSUME NEW x \in DOMAIN queue', NEW y \in DOMAIN queue',
                 x <= Len(q), y > Len(q), x \in Int, y \in Int,
                 queue'[x] = queue'[y], queue'[x] # CloseJob
          PROVE  FALSE
      <4>1. x \in DOMAIN q /\ queue'[x] = q[x] /\ q[x] # CloseJob
        BY <2>5, <3>1, <3>4
      <4>2. q[x][1] # c
        BY <1>4, <4>1, QueuedJob
      <4>3. queue'[y] = <<c, y - Len(q)>>
        BY <2>5, <3>1, <3>4
      <4>4. q[x] = <<c, y - Len(q)>>
        BY <3>4, <4>1, <4>3
      <4>5. <<c, y - Len(q)>>[1] = c
        OBVIOUS
      <4>6. QED
        BY <4>2, <4>4, <4>5
    <3>5. QED
      BY <2>7, <3>1, <3>2, <3>3, <3>4
  <2>8. QueueOK'
    BY <2>6, <2>7 DEF QueueOK, Kind
  <2>9. WorkersOK'
    BY <1>1, <1>2, <2>1 DEF PoolInv, WorkersOK, Jobs
  <2>10. closer' # "closed"
    BY <1>1, <1>7 DEF PoolShut
  <2>11. QED
    BY <1>2, <2>8, <2>9, <2>10 DEF PoolInv
<1>8. QED
  BY <1>6, <1>7

LEMMA PoolSubmits ==
    ASSUME Inv, PoolInv, NEW made \in Calls, Submit(made)
    PROVE  PoolInv'
<1> DEFINE phase == IF made.kind \in LoopKinds THEN "submitted" ELSE "running"
           new == [kind |-> made.kind, keys |-> made.keys, result |-> <<>>,
                   phase |-> phase]
<1>1. PICK c \in CallIds : /\ Phase(c) = "none"
                           /\ call' = [call EXCEPT ![c] = new]
  BY NextCall DEF Submit, Inv
<1>2. UNCHANGED <<request, reply, queue, running, closer>>
  BY DEF Submit, storeVars, poolVars
<1>3. phase = "submitted" => made.kind \in LoopKinds
  OBVIOUS
<1> HIDE DEF phase
<1>4. call \in [CallIds -> Records]
  BY TypeParts DEF Inv, LocalTypeOK
<1>5. /\ Phase(c)' = phase /\ Kind(c)' = made.kind
      /\ \A d \in CallIds \ {c} : Kind(d)' = Kind(d) /\ Phase(d)' = Phase(d)
  BY <1>1, <1>4 DEF Kind, Phase
<1>6. \A d \in CallIds : Phase(d)' = "submitted" => Kind(d)' \in LoopKinds
  BY <1>3, <1>5 DEF PoolInv
<1>7. \A d \in CallIds : Phase(d) # "none" => Kind(d)' = Kind(d)
  BY <1>1, <1>5
<1>8. QED
  BY <1>2, <1>6, <1>7, PoolKept DEF PoolInv

LEMMA PoolCloses ==
    ASSUME Inv, PoolInv, Close \/ CloseStore \/ CloseShutdown \/ CloseReturns
    PROVE  PoolInv'
<1>a. /\ queue \in Seq(Jobs \cup {CloseJob})
      /\ UNCHANGED <<call, running, request, reply>>
  BY TypeParts DEF Inv, LocalTypeOK, Close, CloseStore, CloseShutdown, CloseReturns,
     storeVars, poolVars
<1>b. \A c : Kind(c)' = Kind(c) /\ Phase(c)' = Phase(c)
  BY <1>a DEF Kind, Phase
<1>c. WorkersOK'
  BY <1>a, <1>b DEF PoolInv, WorkersOK
<1>1. CASE Close
  <2>1. queue' = Append(queue, CloseJob) /\ closer' = "queued"
    BY <1>1 DEF Close
  <2>2. \A n \in DOMAIN queue' : queue'[n] # CloseJob =>
           n \in DOMAIN queue /\ queue'[n] = queue[n]
    BY <1>a, <2>1
  <2>3. ASSUME NEW n \in DOMAIN queue', queue'[n] # CloseJob
        PROVE  call'[queue'[n][1]].kind \in LoopKinds /\ request'[queue'[n]] = "none"
    BY <1>a, <2>2, <2>3 DEF PoolInv, QueueOK, Kind
  <2>4. QueueOK'
    BY <2>2, <2>3 DEF PoolInv, QueueOK, Kind
  <2>5. QED
    BY <1>b, <1>c, <2>1, <2>4 DEF PoolInv
<1>2. CASE CloseStore
  <2>1. queue # <<>> /\ queue' = Tail(queue) /\ closer' = "store closed"
    BY <1>2 DEF CloseStore
  <2>2. \A n \in DOMAIN queue : queue[n] # CloseJob => request'[queue[n]] = "none"
    BY <1>a DEF PoolInv, QueueOK
  <2>3. QueueOK'
    BY <1>a, <2>1, <2>2, QueueTail DEF PoolInv
  <2>4. QED
    BY <1>b, <1>c, <2>1, <2>3 DEF PoolInv
<1>3. CASE CloseShutdown \/ CloseReturns
  <2>1. /\ UNCHANGED queue
        /\ closer' = "closed" => queue = <<>> /\ running = {}
    BY <1>3 DEF CloseShutdown, CloseReturns, Drained, poolVars
  <2>2. QED
    BY <1>a, <1>b, <2>1, PoolKept DEF PoolInv
<1>4. QED
  BY <1>1, <1>2, <1>3

LEMMA PoolStep == Inv /\ PoolInv /\ [Next]_vars => PoolInv'
<1> SUFFICES ASSUME Inv, PoolInv, [Next]_vars
             PROVE  PoolInv'
  OBVIOUS
<1>1. ASSUME NEW made \in Calls, Submit(made)
      PROVE  PoolInv'
  BY <1>1, PoolSubmits
<1>2. ASSUME UNCHANGED <<request, reply, queue, running, closer>>,
             \A d \in CallIds : Kind(d)' = Kind(d),
             \A d \in CallIds : Phase(d)' = "submitted" => Phase(d) = "submitted"
      PROVE  PoolInv'
  BY <1>2, PoolKept DEF PoolInv
<1>3. ASSUME NEW c \in CallIds, NEW phase, NEW result, Become(c, phase, result),
             UNCHANGED <<request, reply, queue, running, closer>>,
             phase # "submitted"
      PROVE  PoolInv'
  BY <1>2, <1>3, BecomeSame
<1>4. ASSUME NEW c \in CallIds, GiveBack(c) \/ Resume(c) \/ ProbeReturns(c)
      PROVE  PoolInv'
  <2>1. UNCHANGED <<request, reply, queue, running, closer>>
    BY <1>4 DEF GiveBack, Resume, GatherRaises, PutReturns, GetReturns, CountReturns,
       PrefetchReturns, ProbeReturns, storeVars, poolVars
  <2>2. \E result : Become(c, "returned", result) \/ Become(c, "raised", result)
    BY <1>4 DEF GiveBack, Resume, GatherRaises, PutReturns, GetReturns, CountReturns,
       PrefetchReturns, ProbeReturns, Return, Raise
  <2>3. QED
    BY <1>3, <2>1, <2>2
<1>5. ASSUME UNCHANGED <<call, request, reply, queue, running, closer>>
      PROVE  PoolInv'
  BY <1>2, <1>5 DEF Kind, Phase
<1>6. ASSUME NEW j \in Jobs, GetResumes(j)
      PROVE  PoolInv'
  BY <1>5, <1>6 DEF GetResumes, storeVars, poolVars
<1>7. CASE Others \/ UNCHANGED vars
  BY <1>5, <1>7 DEF Others, Store!Drop, Store!Settle, vars, storeVars, poolVars
<1>8. running \subseteq Jobs
  BY DEF Inv, TypeOK
<1>9. QED
  BY <1>1, <1>4, <1>6, <1>7, <1>8, PoolStarts, PoolWorked, PoolTakes, PoolProbed,
     PoolCloses DEF Next, LoopThread, PoolThreads, OtherThreads

LEMMA InitPoolInv == Init => PoolInv
<1> SUFFICES ASSUME Init
             PROVE  PoolInv
  OBVIOUS
<1>1. /\ call = [c \in CallIds |-> NoCall] /\ queue = <<>> /\ closer = "open"
      /\ request = [j \in Jobs |-> "none"] /\ reply = [j \in Jobs |-> "none"]
  BY DEF Init, Store!Init
<1>2. \A c \in CallIds : Phase(c) = "none"
  BY <1>1 DEF Phase, NoCall
<1>3. QED
  BY <1>1, <1>2, EmptySeq DEF PoolInv, QueueOK, WorkersOK

(* When close() has returned no job of the pool is at the store: jobs that  *)
(* were queued have been refused or run, and no later call queues one.      *)
THEOREM StoreIsLeftAlone == Spec => []NoUseAfterClose
<1>1. Init => PoolInv
  BY InitPoolInv
<1>2. Inv /\ PoolInv /\ [Next]_vars => PoolInv'
  BY PoolStep
<1>3. PoolInv => NoUseAfterClose
  BY DEF PoolInv, WorkersOK, NoUseAfterClose
<1>4. QED
  BY <1>1, <1>2, <1>3, Inductive, PTL DEF Spec

-----------------------------------------------------------------------------
(* No job is lost, and nobody waits for what is not going to happen.       *)

Queued(j) == \E n \in DOMAIN queue : queue[n] = j

(* Until it is answered a job of the loop waits in the queue or is with a  *)
(* thread that is at the store for it; a job of close() is in the queue as *)
(* long as close() waits for it.                                           *)
PlacesOK ==
    /\ \A j \in Jobs : IsJob(j) /\ Kind(j[1]) \in LoopKinds =>
          reply[j] # "none" \/ j \in running \/ Queued(j)
    /\ \A j \in running : request[j] # "none"
    /\ \A n \in DOMAIN queue : queue[n] # CloseJob => reply[queue[n]] = "none"
    /\ \A n, m \in DOMAIN queue : queue[n] = queue[m] => n = m
    /\ Queued(CloseJob) <=> closer = "queued"

(* What a fetch asks and is told.                                          *)
FetchJobsOK ==
    \A j \in Jobs : Kind(j[1]) \in Fetches =>
        /\ request[j] \in {"none", "fetch"}
        /\ reply[j] \in {"none", "hit", "miss", "error"}

(* The store answers when it is done, and not before.                      *)
LEMMA AnswerNow ==
    ASSUME StoreTypeOK, NEW j \in Jobs, Store!Answer(j), reply[j] = "none"
    PROVE  /\ reply'[j] = "none" => request'[j] # "none"
           /\ request[j] = "fetch" =>
                 /\ request'[j] \in {"none", "fetch"}
                 /\ reply'[j] \in {"none", "hit", "miss", "error"}
<1>a. /\ request \in [Jobs -> Store!Requests \cup {"none", "remove", "sweep"}]
      /\ reply \in [Jobs -> Store!Replies]
  BY DEF StoreTypeOK
<1>1. CASE Store!Present(j) \/ Store!Tell(j) \/ Store!Hit(j) \/ Store!Miss(j)
           \/ Store!Absent(j)
  BY <1>1, <1>a DEF Store!Present, Store!Tell, Store!Hit, Store!Miss, Store!Absent,
     Store!Reply
<1>2. CASE Store!Commit(j) \/ Store!Abandon(j)
  BY <1>2, <1>a DEF Store!Commit, Store!Abandon, Store!Reply
<1>3. CASE Store!Lacking(j) \/ Store!Find(j) \/ Store!Measure(j)
  BY <1>3, <1>a DEF Store!Lacking, Store!Find, Store!Measure
<1>4. CASE Store!Remove(j) \/ Store!Swept(j)
  BY <1>4, <1>a DEF Store!Remove, Store!Swept, Store!Reply, Store!Outcome
<1>5. QED
  BY <1>1, <1>2, <1>3, <1>4 DEF Store!Answer

(* What is behind the first job of the queue moves up by one.              *)
LEMMA TailShifts ==
    ASSUME NEW S, NEW q \in Seq(S), q # <<>>
    PROVE  /\ \A n \in DOMAIN Tail(q) : /\ n + 1 \in DOMAIN q /\ n \in Nat /\ n + 1 # 1
                                        /\ Tail(q)[n] = q[n + 1]
           /\ \A n \in DOMAIN q \ {1} : n - 1 \in DOMAIN Tail(q) /\ Tail(q)[n - 1] = q[n]
<1>1. Len(q) \in Nat /\ Len(q) # 0 /\ DOMAIN q = 1 .. Len(q)
  BY EmptySeq
<1>2. /\ Tail(q) \in Seq(S) /\ Len(Tail(q)) = Len(q) - 1
      /\ \A i \in 1 .. Len(Tail(q)) : Tail(q)[i] = q[i + 1]
  BY HeadTailProperties
<1>3. DOMAIN Tail(q) = 1 .. Len(q) - 1
  BY <1>2
<1>4. \A n \in DOMAIN q \ {1} : n - 1 \in DOMAIN Tail(q) /\ (n - 1) + 1 = n
  BY <1>1, <1>3
<1>5. QED
  BY <1>1, <1>2, <1>3, <1>4

(* Steps in which no job moves.                                            *)
LEMMA PlacesKept ==
    ASSUME Inv, PlacesOK, UNCHANGED <<request, reply, queue, running, closer>>,
           \A j \in Jobs : IsJob(j)' /\ Kind(j[1])' \in LoopKinds =>
              IsJob(j) /\ Kind(j[1]) \in LoopKinds
    PROVE  PlacesOK'
BY DEF PlacesOK, Queued

LEMMA PlacesSubmitted ==
    ASSUME Inv, PlacesOK, NEW made \in Calls, Submit(made)
    PROVE  PlacesOK'
<1> DEFINE phase == IF made.kind \in LoopKinds THEN "submitted" ELSE "running"
           new == [kind |-> made.kind, keys |-> made.keys, result |-> <<>>,
                   phase |-> phase]
<1>1. PICK c \in CallIds : call' = [call EXCEPT ![c] = new]
  BY NextCall DEF Submit, Inv
<1>2. UNCHANGED <<request, reply, queue, running, closer>>
  BY DEF Submit, storeVars, poolVars
<1>3. made.kind \in LoopKinds => phase = "submitted"
  OBVIOUS
<1> HIDE DEF phase
<1>4. call \in [CallIds -> Records]
  BY TypeParts DEF Inv, LocalTypeOK
<1>5. call'[c] = new /\ \A d \in CallIds \ {c} : call'[d] = call[d]
  BY <1>1, <1>4
<1>6. ASSUME NEW j \in Jobs, IsJob(j)', Kind(j[1])' \in LoopKinds
      PROVE  IsJob(j) /\ Kind(j[1]) \in LoopKinds
  <2>1. j[1] \in CallIds
    BY DEF Jobs
  <2>2. j[1] # c
    BY <1>3, <1>5, <1>6 DEF IsJob, Started, Phase, Kind
  <2>3. QED
    BY <1>5, <1>6, <2>1, <2>2 DEF IsJob, Started, Phase, Kind, Indices
<1>7. QED
  BY <1>2, <1>6, PlacesKept

(* A call that has started goes on: its jobs stay where they are.          *)
LEMMA PlacesResumed ==
    ASSUME Inv, PlacesOK, NEW c \in CallIds,
           GiveBack(c) \/ Resume(c) \/ ProbeReturns(c)
    PROVE  PlacesOK'
<1>1. UNCHANGED <<request, reply, queue, running, closer>>
  BY DEF GiveBack, Resume, GatherRaises, PutReturns, GetReturns, CountReturns,
     PrefetchReturns, ProbeReturns, storeVars, poolVars
<1>2. PICK result : Become(c, "returned", result) \/ Become(c, "raised", result)
  BY DEF GiveBack, Resume, GatherRaises, PutReturns, GetReturns, CountReturns,
     PrefetchReturns, ProbeReturns, Return, Raise
<1>3. Started(c)
  <2>1. CASE GiveBack(c)
    <3>1. Phase(c) = "returned"
      BY <2>1 DEF GiveBack, Inv, CallsOK
    <3>2. QED
      BY <3>1 DEF Started
  <2>2. CASE Resume(c) \/ ProbeReturns(c)
    BY <2>2 DEF Resume, GatherRaises, PutReturns, GetReturns, CountReturns,
       PrefetchReturns, ProbeReturns, Resumes, Probing, Started
  <2>3. QED
    BY <2>1, <2>2
<1>4. /\ \A d \in CallIds : Kind(d)' = Kind(d) /\ call'[d].keys = call[d].keys
      /\ \A d \in CallIds \ {c} : Phase(d)' = Phase(d)
  BY <1>2, BecomeSame
<1>5. \A j \in Jobs : IsJob(j)' /\ Kind(j[1])' \in LoopKinds =>
         IsJob(j) /\ Kind(j[1]) \in LoopKinds
  BY <1>3, <1>4 DEF IsJob, Started, Indices, Jobs
<1>6. QED
  BY <1>1, <1>5, PlacesKept

(* gather hands all jobs of the call to the queue, or none of them.        *)
LEMMA PlacesStarted ==
    ASSUME Inv, PoolInv, PlacesOK, NEW c \in CallIds, Start(c)
    PROVE  PlacesOK'
<1> DEFINE js == {<<c, i>> : i \in Indices(c)}
<1>1. /\ Phase(c) = "submitted" /\ Become(c, "running", <<>>)
      /\ UNCHANGED <<running, closer, request>>
  BY DEF Start, Refuse, storeVars
<1>2. /\ \A d \in CallIds : Kind(d)' = Kind(d) /\ call'[d].keys = call[d].keys
      /\ \A d \in CallIds \ {c} : Phase(d)' = Phase(d)
  BY <1>1, BecomeSame
<1>3. \A j \in Jobs : IsJob(j) => j[1] # c
  BY <1>1 DEF IsJob, Started
<1>4. \A j \in js : j \in Jobs /\ reply[j] = "none" /\ j[1] = c
  <2> TAKE j \in js
  <2>1. j \in Jobs /\ j[1] = c
    BY IndicesFinite
  <2>2. QED
    BY <1>3, <2>1 DEF Inv, JobsOK
<1>5. \A j \in Jobs : IsJob(j)' => IsJob(j) \/ j \in js
  <2> TAKE j \in Jobs
  <2>1. j[1] \in CallIds /\ j = <<j[1], j[2]>>
    BY DEF Jobs
  <2>2. CASE j[1] = c
    BY <1>2, <2>1, <2>2 DEF IsJob, Indices
  <2>3. CASE j[1] # c
    BY <1>2, <2>1, <2>3 DEF IsJob, Started, Indices
  <2>4. QED
    BY <2>2, <2>3
<1>6. CASE PoolShut
  <2>1. /\ UNCHANGED queue
        /\ \A j \in Jobs : reply'[j] = IF j \in js THEN "error" ELSE reply[j]
    BY <1>6 DEF Start, Refuse
  <2>2. \A j \in Jobs : IsJob(j)' /\ Kind(j[1])' \in LoopKinds =>
           reply'[j] # "none" \/ j \in running \/ Queued(j)
    BY <1>2, <1>5, <2>1 DEF PlacesOK, Jobs
  <2>3. ASSUME NEW n \in DOMAIN queue, queue[n] # CloseJob
        PROVE  reply'[queue[n]] = "none"
    <3>1. queue[n] \in Jobs /\ queue[n] \notin js
      BY <1>3, <1>4, <2>3, QueuedJob
    <3>2. QED
      BY <2>1, <2>3, <3>1 DEF PlacesOK
  <2>4. QED
    BY <1>1, <2>1, <2>2, <2>3 DEF PlacesOK, Queued
<1>7. CASE ~PoolShut
  <2>1. queue' = queue \o JobsOf(c) /\ UNCHANGED reply
    BY <1>7 DEF Start, storeVars
  <2> DEFINE q == queue
             s == JobsOf(c)
  <2>2. /\ q \in Seq(Jobs \cup {CloseJob}) /\ s \in Seq(Jobs \cup {CloseJob})
        /\ \A i \in Indices(c) : i \in 1 .. Len(s)
        /\ \A i \in 1 .. Len(s) : i \in Indices(c) /\ s[i] = <<c, i>>
    <3>1. /\ s \in Seq(Jobs \cup {CloseJob})
          /\ \A i \in 1 .. Len(s) : i \in Indices(c) /\ s[i] = <<c, i>>
      BY IndicesFinite, CallsAssumption DEF JobsOf
    <3>2. Indices(c) = 1 .. Len(s)
      BY <3>1, IndicesFinite, CallsAssumption DEF JobsOf
    <3>3. q \in Seq(Jobs \cup {CloseJob})
      BY TypeParts DEF Inv, LocalTypeOK
    <3>4. QED
      BY <3>1, <3>2, <3>3
  <2> HIDE DEF s
  <2>3. /\ Len(q) \in Nat /\ Len(s) \in Nat /\ DOMAIN q = 1 .. Len(q)
        /\ DOMAIN (q \o s) = 1 .. Len(q) + Len(s)
        /\ \A n \in 1 .. Len(q) + Len(s) :
              (q \o s)[n] = IF n <= Len(q) THEN q[n] ELSE s[n - Len(q)]
    BY <2>2, ConcatProperties
  <2>4. queue' = q \o s
    BY <2>1 DEF s
  <2>5. ASSUME NEW n \in DOMAIN queue'
        PROVE  \/ n <= Len(q) /\ n \in DOMAIN q /\ queue'[n] = q[n]
               \/ n > Len(q) /\ n - Len(q) \in Indices(c) /\ queue'[n] = <<c, n - Len(q)>>
    <3>1. n \in 1 .. Len(q) + Len(s)
      BY <2>3, <2>4, <2>5
    <3>2. CASE n <= Len(q)
      BY <2>3, <2>4, <3>1, <3>2
    <3>3. CASE n > Len(q)
      <4>1. n - Len(q) \in 1 .. Len(s)
        BY <2>3, <3>1, <3>3
      <4>2. queue'[n] = s[n - Len(q)]
        BY <2>3, <2>4, <3>1, <3>3
      <4>3. QED
        BY <2>2, <3>3, <4>1, <4>2
    <3>4. QED
      BY <2>3, <3>1, <3>2, <3>3
  <2>6. \A j : Queued(j) => Queued(j)'
    <3> SUFFICES ASSUME NEW n \in DOMAIN q
                 PROVE  n \in DOMAIN queue' /\ queue'[n] = q[n]
      BY DEF Queued
    <3>1. n \in 1 .. Len(q) + Len(s) /\ n <= Len(q)
      BY <2>3
    <3>2. QED
      BY <2>3, <2>4, <3>1
  <2>7. ASSUME NEW i \in Indices(c)
        PROVE  Queued(<<c, i>>)'
    <3>1. i \in 1 .. Len(s) /\ s[i] = <<c, i>>
      BY <2>2
    <3> DEFINE n == Len(q) + i
    <3>2. ASSUME NEW a \in Nat, NEW b \in Nat, NEW x \in 1 .. b
          PROVE  a + x \in 1 .. a + b /\ ~(a + x <= a) /\ (a + x) - a = x
      OBVIOUS
    <3>3. n \in 1 .. Len(q) + Len(s) /\ n - Len(q) = i /\ ~(n <= Len(q))
      BY <2>3, <3>1, <3>2
    <3> HIDE DEF n
    <3>4. n \in DOMAIN queue' /\ queue'[n] = s[i]
      BY <2>3, <2>4, <3>3
    <3>5. QED
      BY <3>1, <3>4 DEF Queued
  <2>8. ASSUME NEW j \in Jobs, IsJob(j)', Kind(j[1])' \in LoopKinds
        PROVE  reply[j] # "none" \/ j \in running \/ Queued(j)'
    <3>1. CASE IsJob(j)
      <4>1. Kind(j[1]) \in LoopKinds
        BY <1>2, <2>8 DEF Jobs
      <4>2. QED
        BY <2>6, <2>8, <3>1, <4>1 DEF PlacesOK
    <3>2. CASE j \in js
      BY <2>7, <3>2
    <3>3. QED
      BY <1>5, <2>8, <3>1, <3>2
  <2>9. \A n \in DOMAIN queue' : queue'[n] # CloseJob => reply[queue'[n]] = "none"
    BY <1>4, <2>5 DEF PlacesOK
  <2>10. CloseJob \notin js
    BY <1>4 DEF Jobs, CloseJob, CallIds
  <2>11. Queued(CloseJob)' => Queued(CloseJob)
    BY <2>5, <2>10 DEF Queued
  <2>12. ASSUME NEW n \in DOMAIN queue', NEW m \in DOMAIN queue', queue'[n] = queue'[m]
         PROVE  n = m
    <3>1. n \in Int /\ m \in Int /\ Len(q) \in Int
      BY <2>3, <2>4
    <3>2. CASE n <= Len(q) /\ m <= Len(q)
      BY <2>5, <2>12, <3>1, <3>2 DEF PlacesOK
    <3>3. CASE n > Len(q) /\ m > Len(q)
      <4>1. <<c, n - Len(q)>> = <<c, m - Len(q)>>
        BY <2>5, <2>12, <3>1, <3>3
      <4>2. n - Len(q) = m - Len(q)
        BY <4>1
      <4>3. QED
        BY <3>1, <4>2
    <3>4. ASSUME NEW x \in DOMAIN queue', NEW y \in DOMAIN queue',
                 x <= Len(q), y > Len(q), x \in Int, y \in Int, queue'[x] = queue'[y]
          PROVE  FALSE
      <4>1. x \in DOMAIN q /\ queue'[x] = q[x]
        BY <2>5, <3>1, <3>4
      <4>2. y - Len(q) \in Indices(c) /\ queue'[y] = <<c, y - Len(q)>>
        BY <2>5, <3>1, <3>4
      <4>3. q[x] = <<c, y - Len(q)>> /\ q[x] \in js
        BY <3>4, <4>1, <4>2
      <4>4. q[x] # CloseJob
        BY <2>10, <4>3
      <4>5. q[x][1] # c
        BY <1>3, <4>1, <4>4, QueuedJob
      <4>6. QED
        BY <1>4, <4>3, <4>5
    <3>5. QED
      BY <2>12, <3>1, <3>2, <3>3, <3>4
  <2>13. QED
    BY <1>1, <2>1, <2>6, <2>8, <2>9, <2>11, <2>12 DEF PlacesOK
<1>8. QED
  BY <1>6, <1>7

(* A thread of the pool takes the first job and is at the store for it, or *)
(* refuses it.                                                             *)
LEMMA PlacesTaken ==
    ASSUME Inv, PoolInv, PlacesOK, TakeJob
    PROVE  PlacesOK'
<1> DEFINE j == Head(queue)
<1>1. /\ queue # <<>> /\ j # CloseJob /\ queue' = Tail(queue) /\ BeginJob(j)
      /\ running' = IF StoreClosed THEN running ELSE running \cup {j}
      /\ UNCHANGED <<call, closer>>
  BY DEF TakeJob
<1>2. queue \in Seq(Jobs \cup {CloseJob}) /\ StoreTypeOK
  BY TypeParts DEF Inv, LocalTypeOK
<1>3. 1 \in DOMAIN queue /\ j = queue[1]
  BY <1>1, <1>2, QueueFront
<1>4. j \in Jobs /\ request[j] = "none" /\ IsJob(j)
  BY <1>1, <1>3, QueuedJob DEF PoolInv, QueueOK
<1>5. RequestOf(Kind(j[1])) # "none"
  BY DEF RequestOf
<1>6. /\ \A k \in Jobs \ {j} : request'[k] = request[k] /\ reply'[k] = reply[k]
      /\ StoreClosed => reply'[j] = "error"
      /\ ~StoreClosed => request'[j] # "none"
  <2>1. CASE StoreClosed
    BY <1>1, <1>4, <2>1 DEF BeginJob, Refuse
  <2>2. CASE ~StoreClosed
    <3> DEFINE r == RequestOf(Kind(j[1]))
    <3>1. Store!Begin(j, r, KeyOf(j)) /\ r # "none"
      BY <1>1, <1>5, <2>2 DEF BeginJob
    <3> HIDE DEF r
    <3>2. QED
      BY <1>2, <1>4, <2>2, <3>1 DEF Store!Begin, StoreTypeOK
  <2>3. QED
    BY <2>1, <2>2
<1> HIDE DEF j
<1>7. /\ \A n \in DOMAIN queue' : /\ n + 1 \in DOMAIN queue /\ n \in Nat /\ n + 1 # 1
                                  /\ queue'[n] = queue[n + 1]
      /\ \A n \in DOMAIN queue \ {1} : n - 1 \in DOMAIN queue' /\ queue'[n - 1] = queue[n]
  BY <1>1, <1>2, TailShifts
<1>8. /\ \A k : Queued(k)' => Queued(k) /\ k # j
      /\ \A k : Queued(k) /\ k # j => Queued(k)'
  <2>1. ASSUME NEW k, NEW n \in DOMAIN queue', queue'[n] = k
        PROVE  Queued(k) /\ k # j
    BY <1>3, <1>7, <2>1 DEF PlacesOK, Queued
  <2>2. ASSUME NEW k, NEW n \in DOMAIN queue, queue[n] = k, k # j
        PROVE  Queued(k)'
    BY <1>3, <1>7, <2>2 DEF Queued
  <2>3. QED
    BY <2>1, <2>2 DEF Queued
<1>9. \A k : IsJob(k)' <=> IsJob(k)
  BY <1>1 DEF IsJob, Started, Phase, Indices
<1>10. \A k \in Jobs : IsJob(k)' /\ Kind(k[1])' \in LoopKinds =>
          reply'[k] # "none" \/ k \in running' \/ Queued(k)'
  BY <1>1, <1>6, <1>8, <1>9 DEF PlacesOK, Kind
<1>11. \A k \in running' : request'[k] # "none"
  BY <1>1, <1>4, <1>6, TypeParts DEF PlacesOK, Inv, LocalTypeOK
<1>12. ASSUME NEW n \in DOMAIN queue', queue'[n] # CloseJob
       PROVE  reply'[queue'[n]] = "none"
  <2>1. n + 1 \in DOMAIN queue /\ queue'[n] = queue[n + 1] /\ queue'[n] # j
    BY <1>7, <1>8 DEF Queued
  <2>2. queue[n + 1] \in Jobs /\ reply[queue[n + 1]] = "none"
    BY <1>12, <2>1, QueuedJob DEF PlacesOK
  <2>3. QED
    BY <1>6, <2>1, <2>2
<1>13. ASSUME NEW n \in DOMAIN queue', NEW m \in DOMAIN queue', queue'[n] = queue'[m]
       PROVE  n = m
  <2>1. n + 1 = m + 1
    BY <1>7, <1>13 DEF PlacesOK
  <2>2. QED
    BY <1>7, <2>1
<1>14. Queued(CloseJob)' <=> closer' = "queued"
  BY <1>1, <1>8 DEF PlacesOK
<1>15. QED
  BY <1>10, <1>11, <1>12, <1>13, <1>14 DEF PlacesOK

(* A thread that is not of the pool asks the store.                        *)
LEMMA PlacesProbed ==
    ASSUME Inv, PoolInv, PlacesOK, NEW c \in CallIds, Probe(c)
    PROVE  PlacesOK'
<1> DEFINE j == <<c, Cardinality(Probed(c)) + 1>>
<1>1. /\ BeginJob(j) /\ Kind(c) \notin LoopKinds
      /\ \A i \in Indices(c) : request[<<c, i>>] = "none"
      /\ UNCHANGED <<call, queue, running, closer>>
  BY DEF Probe, Probing, ThreadKinds, LoopKinds, poolVars
<1>2. StoreTypeOK /\ IsJob(j)
  BY TypeParts, ProbeIsJob DEF Inv
<1>3. j \in Jobs /\ request[j] = "none" /\ j[1] = c
  BY <1>1, <1>2 DEF IsJob
<1> HIDE DEF j
<1>4. \A k \in Jobs \ {j} : request'[k] = request[k] /\ reply'[k] = reply[k]
  <2>1. CASE StoreClosed
    BY <1>1, <1>3, <2>1 DEF BeginJob, Refuse
  <2>2. CASE ~StoreClosed
    BY <1>1, <1>2, <1>3, <2>2 DEF BeginJob, Store!Begin, StoreTypeOK
  <2>3. QED
    BY <2>1, <2>2
<1>5. j \notin running
  BY <1>3 DEF PlacesOK
<1>6. \A n \in DOMAIN queue : queue[n] # CloseJob => queue[n] \in Jobs \ {j}
  BY <1>1, <1>3, QueuedJob DEF PoolInv, QueueOK
<1>7. \A k \in Jobs : IsJob(k)' /\ Kind(k[1])' \in LoopKinds =>
         IsJob(k) /\ Kind(k[1]) \in LoopKinds /\ k # j
  BY <1>1, <1>3 DEF IsJob, Started, Phase, Indices, Kind
<1>8. running \subseteq Jobs \ {j}
  BY <1>5, TypeParts DEF Inv, LocalTypeOK
<1>9. QED
  BY <1>1, <1>4, <1>6, <1>7, <1>8 DEF PlacesOK, Queued

LEMMA PlacesWorked ==
    ASSUME Inv, PoolInv, PlacesOK, NEW j \in Jobs, Work(j)
    PROVE  PlacesOK'
<1>1. /\ Store!Answer(j) /\ StoreTypeOK
      /\ running' = IF reply'[j] = "none" THEN running ELSE running \ {j}
      /\ UNCHANGED <<call, queue, closer>>
  BY TypeParts DEF Inv, Work
<1>2. OnlyJobs({j}) /\ request[j] # "none" /\ reply[j] = "none"
  BY <1>1, AnswerEffect DEF PoolInv, WorkersOK
<1>3. reply'[j] = "none" => request'[j] # "none"
  BY <1>1, <1>2, AnswerNow
<1>4. \A n \in DOMAIN queue : queue[n] # CloseJob => queue[n] \in Jobs \ {j}
  BY <1>2, QueuedJob DEF PoolInv, QueueOK
<1>5. \A k \in Jobs : IsJob(k)' /\ Kind(k[1])' \in LoopKinds =>
         IsJob(k) /\ Kind(k[1]) \in LoopKinds
  BY <1>1 DEF IsJob, Started, Phase, Indices, Kind
<1>6. \A k \in Jobs : IsJob(k) /\ Kind(k[1]) \in LoopKinds =>
         reply'[k] # "none" \/ k \in running' \/ Queued(k)
  BY <1>1, <1>2 DEF PlacesOK, OnlyJobs
<1>7. \A k \in running' : request'[k] # "none"
  <2>1. running \subseteq Jobs
    BY TypeParts DEF Inv, LocalTypeOK
  <2>2. QED
    BY <1>1, <1>2, <1>3, <2>1 DEF PlacesOK, OnlyJobs
<1>8. \A n \in DOMAIN queue : queue[n] # CloseJob => reply'[queue[n]] = "none"
  BY <1>2, <1>4 DEF PlacesOK, OnlyJobs
<1>9. QED
  BY <1>1, <1>5, <1>6, <1>7, <1>8 DEF PlacesOK, Queued

LEMMA PlacesClosed ==
    ASSUME Inv, PlacesOK, Close \/ CloseStore \/ CloseShutdown \/ CloseReturns
    PROVE  PlacesOK'
<1>a. /\ queue \in Seq(Jobs \cup {CloseJob})
      /\ UNCHANGED <<call, running, request, reply>>
  BY TypeParts DEF Inv, LocalTypeOK, Close, CloseStore, CloseShutdown, CloseReturns,
     storeVars, poolVars
<1>b. \A k : (IsJob(k)' <=> IsJob(k)) /\ Kind(k[1])' = Kind(k[1])
  BY <1>a DEF IsJob, Started, Phase, Indices, Kind
<1>c. CloseJob \notin Jobs
  BY DEF CloseJob, Jobs, CallIds
<1>1. CASE Close
  <2>1. queue' = Append(queue, CloseJob) /\ closer = "open" /\ closer' = "queued"
    BY <1>1 DEF Close
  <2>2. ~Queued(CloseJob)
    BY <2>1 DEF PlacesOK
  <2>3. /\ Len(queue) \in Nat /\ DOMAIN queue = 1 .. Len(queue)
        /\ DOMAIN queue' = 1 .. Len(queue) + 1
        /\ queue'[Len(queue) + 1] = CloseJob
        /\ \A n \in DOMAIN queue : queue'[n] = queue[n]
    BY <1>a, <2>1
  <2>4. \A n \in DOMAIN queue' : n \in DOMAIN queue \/ n = Len(queue) + 1
    BY <2>3
  <2>5. \A k : Queued(k) => Queued(k)'
    BY <2>3 DEF Queued
  <2>6. Queued(CloseJob)'
    <3>1. Len(queue) + 1 \in DOMAIN queue'
      BY <2>3
    <3>2. QED
      BY <2>3, <3>1 DEF Queued
  <2>7. \A n \in DOMAIN queue' : queue'[n] # CloseJob => reply[queue'[n]] = "none"
    BY <2>3, <2>4 DEF PlacesOK
  <2>8. \A n, m \in DOMAIN queue' : queue'[n] = queue'[m] => n = m
    BY <2>2, <2>3, <2>4 DEF PlacesOK, Queued
  <2>9. QED
    BY <1>a, <1>b, <2>1, <2>5, <2>6, <2>7, <2>8 DEF PlacesOK
<1>2. CASE CloseStore
  <2>1. /\ queue # <<>> /\ queue' = Tail(queue) /\ Head(queue) = CloseJob
        /\ closer' = "store closed"
    BY <1>2 DEF CloseStore
  <2>2. 1 \in DOMAIN queue /\ queue[1] = CloseJob
    BY <1>a, <2>1, QueueFront
  <2>3. /\ \A n \in DOMAIN queue' : /\ n + 1 \in DOMAIN queue /\ n \in Nat /\ n + 1 # 1
                                    /\ queue'[n] = queue[n + 1]
        /\ \A n \in DOMAIN queue \ {1} : n - 1 \in DOMAIN queue' /\ queue'[n - 1] = queue[n]
    BY <1>a, <2>1, TailShifts
  <2>4. ~Queued(CloseJob)'
    BY <2>2, <2>3 DEF PlacesOK, Queued
  <2>5. \A k \in Jobs : Queued(k) => Queued(k)'
    BY <1>c, <2>2, <2>3 DEF Queued
  <2>6. \A n \in DOMAIN queue' : queue'[n] # CloseJob => reply[queue'[n]] = "none"
    BY <2>3 DEF PlacesOK
  <2>7. ASSUME NEW n \in DOMAIN queue', NEW m \in DOMAIN queue', queue'[n] = queue'[m]
        PROVE  n = m
    <3>1. n + 1 = m + 1
      BY <2>3, <2>7 DEF PlacesOK
    <3>2. QED
      BY <2>3, <3>1
  <2>8. \A k \in Jobs : IsJob(k)' /\ Kind(k[1])' \in LoopKinds =>
           reply'[k] # "none" \/ k \in running' \/ Queued(k)'
    BY <1>a, <1>b, <2>5 DEF PlacesOK
  <2>9. Queued(CloseJob)' <=> closer' = "queued"
    BY <2>1, <2>4
  <2>10. QED
    BY <1>a, <2>6, <2>7, <2>8, <2>9 DEF PlacesOK
<1>3. CASE CloseShutdown \/ CloseReturns
  <2>1. UNCHANGED queue /\ closer # "queued" /\ closer' # "queued"
    BY <1>3 DEF CloseShutdown, CloseReturns, poolVars
  <2>2. QED
    BY <1>a, <1>b, <2>1 DEF PlacesOK, Queued
<1>4. QED
  BY <1>1, <1>2, <1>3

LEMMA PlacesStep == Inv /\ PoolInv /\ PlacesOK /\ [Next]_vars => PlacesOK'
<1> SUFFICES ASSUME Inv, PoolInv, PlacesOK, [Next]_vars
             PROVE  PlacesOK'
  OBVIOUS
<1>1. ASSUME UNCHANGED <<call, request, reply, queue, running, closer>>
      PROVE  PlacesOK'
  BY <1>1, PlacesKept DEF IsJob, Started, Phase, Indices, Kind
<1>2. ASSUME NEW j \in Jobs, GetResumes(j)
      PROVE  PlacesOK'
  BY <1>1, <1>2 DEF GetResumes, storeVars, poolVars
<1>3. CASE Others \/ UNCHANGED vars
  BY <1>1, <1>3 DEF Others, Store!Drop, Store!Settle, vars, storeVars, poolVars
<1>4. running \subseteq Jobs
  BY DEF Inv, TypeOK
<1>5. QED
  BY <1>2, <1>3, <1>4, PlacesSubmitted, PlacesResumed, PlacesStarted, PlacesTaken,
     PlacesProbed, PlacesWorked, PlacesClosed
     DEF Next, LoopThread, PoolThreads, OtherThreads

(* A fetch only ever reads, and is told so.                                *)
LEMMA FetchJobsStep == Inv /\ PoolInv /\ FetchJobsOK /\ [Next]_vars => FetchJobsOK'
<1> SUFFICES ASSUME Inv, PoolInv, FetchJobsOK, [Next]_vars
             PROVE  FetchJobsOK'
  OBVIOUS
<1>1. ASSUME \A j \in Jobs : request'[j] = request[j] /\ reply'[j] \in {reply[j], "error"},
             \A d \in CallIds : Kind(d)' = Kind(d)
      PROVE  FetchJobsOK'
  BY <1>1 DEF FetchJobsOK, Jobs
<1>2. ASSUME NEW c \in CallIds, NEW phase, NEW result, Become(c, phase, result),
             UNCHANGED request, \A j \in Jobs : reply'[j] \in {reply[j], "error"}
      PROVE  FetchJobsOK'
  BY <1>1, <1>2, BecomeSame
<1>3. ASSUME NEW c \in CallIds,
             GiveBack(c) \/ Resume(c) \/ ProbeReturns(c) \/ Start(c)
      PROVE  FetchJobsOK'
  <2>1. UNCHANGED request /\ \A j \in Jobs : reply'[j] \in {reply[j], "error"}
    BY <1>3 DEF GiveBack, Resume, GatherRaises, PutReturns, GetReturns, CountReturns,
       PrefetchReturns, ProbeReturns, Start, Refuse, storeVars
  <2>2. PICK phase, result : Become(c, phase, result)
    BY <1>3 DEF GiveBack, Resume, GatherRaises, PutReturns, GetReturns, CountReturns,
       PrefetchReturns, ProbeReturns, Return, Raise, Start
  <2>3. QED
    BY <1>2, <2>1, <2>2
<1>4. ASSUME UNCHANGED <<call, request, reply>>
      PROVE  FetchJobsOK'
  BY <1>1, <1>4 DEF Kind
<1>5. ASSUME NEW made \in Calls, Submit(made)
      PROVE  FetchJobsOK'
  <2> DEFINE phase == IF made.kind \in LoopKinds THEN "submitted" ELSE "running"
             new == [kind |-> made.kind, keys |-> made.keys, result |-> <<>>,
                     phase |-> phase]
  <2>1. PICK c \in CallIds : Phase(c) = "none" /\ call' = [call EXCEPT ![c] = new]
    BY <1>5, NextCall DEF Submit, Inv
  <2> HIDE DEF new
  <2>2. UNCHANGED <<request, reply>>
    BY <1>5 DEF Submit, storeVars
  <2>3. \A d \in CallIds \ {c} : Kind(d)' = Kind(d)
    BY <2>1, TypeParts DEF Inv, LocalTypeOK, Kind
  <2>4. \A j \in Jobs : j[1] = c => request[j] = "none" /\ reply[j] = "none"
    BY <2>1 DEF Inv, JobsOK, IsJob, Started
  <2>5. QED
    BY <2>2, <2>3, <2>4 DEF FetchJobsOK, Jobs
<1>6. ASSUME NEW j, IsJob(j), BeginJob(j), UNCHANGED call
      PROVE  FetchJobsOK'
  <2>1. StoreTypeOK /\ j \in Jobs
    BY <1>6, TypeParts DEF Inv, IsJob
  <2>2. CASE StoreClosed
    BY <1>1, <1>6, <2>2 DEF BeginJob, Refuse, Kind
  <2>3. CASE ~StoreClosed
    <3> DEFINE r == RequestOf(Kind(j[1]))
    <3>1. Store!Begin(j, r, KeyOf(j)) /\ (Kind(j[1]) \in Fetches => r = "fetch")
      BY <1>6, <2>3 DEF BeginJob, RequestOf
    <3> HIDE DEF r
    <3>2. /\ request'[j] = r /\ reply'[j] = "none"
          /\ \A k \in Jobs \ {j} : request'[k] = request[k] /\ reply'[k] = reply[k]
      BY <2>1, <3>1 DEF Store!Begin, StoreTypeOK
    <3>3. \A k : Kind(k[1])' = Kind(k[1])
      BY <1>6 DEF Kind
    <3>4. QED
      BY <3>1, <3>2, <3>3 DEF FetchJobsOK
  <2>4. QED
    BY <2>2, <2>3
<1>7. ASSUME NEW c \in CallIds, Probe(c)
      PROVE  FetchJobsOK'
  BY <1>6, <1>7, ProbeIsJob DEF Probe
<1>8. CASE TakeJob
  <2>1. IsJob(Head(queue))
    BY <1>8, HeadIsJob
  <2>2. QED
    BY <1>6, <1>8, <2>1 DEF TakeJob
<1>9. ASSUME NEW j \in Jobs, Work(j)
      PROVE  FetchJobsOK'
  <2>1. Store!Answer(j) /\ StoreTypeOK /\ UNCHANGED call
    BY <1>9, TypeParts DEF Inv, Work
  <2>2. OnlyJobs({j}) /\ request[j] # "none" /\ reply[j] = "none"
    BY <2>1, AnswerEffect DEF PoolInv, WorkersOK
  <2>3. request[j] = "fetch" =>
           request'[j] \in {"none", "fetch"} /\ reply'[j] \in {"none", "hit", "miss", "error"}
    BY <2>1, <2>2, AnswerNow
  <2>4. \A k : Kind(k[1])' = Kind(k[1])
    BY <2>1 DEF Kind
  <2>5. QED
    BY <2>2, <2>3, <2>4 DEF FetchJobsOK, OnlyJobs
<1>10. ASSUME NEW j \in Jobs, GetResumes(j)
       PROVE  FetchJobsOK'
  BY <1>4, <1>10 DEF GetResumes, storeVars
<1>11. CASE Others \/ UNCHANGED vars
  BY <1>4, <1>11 DEF Others, Store!Drop, Store!Settle, vars, storeVars
<1>12. CASE Close \/ CloseStore \/ CloseShutdown \/ CloseReturns
  BY <1>4, <1>12 DEF Close, CloseStore, CloseShutdown, CloseReturns, storeVars
<1>13. running \subseteq Jobs
  BY DEF Inv, TypeOK
<1>14. QED
  BY <1>3, <1>5, <1>7, <1>8, <1>9, <1>10, <1>11, <1>12, <1>13
     DEF Next, LoopThread, PoolThreads, OtherThreads

LEMMA InitPlaces == Init => PlacesOK /\ FetchJobsOK
<1> SUFFICES ASSUME Init
             PROVE  PlacesOK /\ FetchJobsOK
  OBVIOUS
<1>1. /\ call = [c \in CallIds |-> NoCall] /\ queue = <<>> /\ closer = "open"
      /\ running = {}
      /\ request = [j \in Jobs |-> "none"] /\ reply = [j \in Jobs |-> "none"]
  BY DEF Init, Store!Init
<1>2. \A j \in Jobs : ~IsJob(j)
  BY <1>1 DEF Phase, NoCall, IsJob, Started, Jobs
<1>3. QED
  BY <1>1, <1>2, EmptySeq DEF PlacesOK, FetchJobsOK, Queued

(* A started job is in one place, and in no other.                         *)
LEMMA PlacesAreOne == Inv /\ PoolInv /\ PlacesOK => JobsAccounted
<1> SUFFICES ASSUME Inv, PoolInv, PlacesOK
             PROVE  JobsAccounted
  OBVIOUS
<1>1. ASSUME NEW c \in CallIds, Kind(c) \in LoopKinds, Phase(c) # "submitted",
             NEW j \in {<<c, i>> : i \in Indices(c)}
      PROVE  \/ Queued(j) /\ j \notin running /\ reply[j] = "none"
             \/ j \in running /\ ~Queued(j) /\ reply[j] = "none"
             \/ reply[j] # "none" /\ ~Queued(j) /\ j \notin running
  <2>1. j \in Jobs /\ j[1] = c /\ j[2] \in Indices(c)
    BY IndicesFinite
  <2>2. Phase(c) \in Phases \ {"submitted", "none"}
    <3>1. Phase(c) # "none"
      BY <1>1 DEF Inv, CallsOK, NoCall, Kind, LoopKinds
    <3>2. Phase(c) \in Phases
      BY TypeParts DEF Inv, LocalTypeOK, Records, Phase
    <3>3. QED
      BY <1>1, <3>1, <3>2
  <2>3. IsJob(j)
    BY <2>1, <2>2 DEF IsJob, Started, Phases
  <2>4. reply[j] # "none" \/ j \in running \/ Queued(j)
    BY <1>1, <2>1, <2>3 DEF PlacesOK
  <2>5. j # CloseJob
    BY <2>1 DEF Jobs, CloseJob, CallIds
  <2>6. Queued(j) => reply[j] = "none" /\ request[j] = "none"
    BY <2>5 DEF PlacesOK, PoolInv, QueueOK, Queued
  <2>7. j \in running => request[j] # "none"
    BY DEF PlacesOK
  <2>8. request[j] # "none" => reply[j] = "none"
    BY <2>1 DEF PoolInv, WorkersOK
  <2>9. QED
    BY <2>4, <2>6, <2>7, <2>8
<1>2. QED
  BY <1>1 DEF JobsAccounted, PlacesOK, Queued

(* A thread that is at a job can go on, and without one a thread is free.  *)
LEMMA RunningGoesOn ==
    ASSUME Inv, PlacesOK, running # {}
    PROVE  CanGoOn
<1>1. PICK j \in running : request[j] # "none"
  BY DEF PlacesOK
<1>2. QED
  BY <1>1, TypeParts DEF CanGoOn, Inv, LocalTypeOK

LEMMA PoolGoesOn ==
    ASSUME Inv, PlacesOK, queue # <<>>
    PROVE  CanGoOn
<1>1. CASE running = {}
  <2>1. Cardinality(running) < MaxWorkers
    BY <1>1, FS_EmptySet, PoolAssumption
  <2>2. QED
    BY <2>1 DEF CanGoOn
<1>2. QED
  BY <1>1, RunningGoesOn

(* A job that is not answered keeps the pool busy.                         *)
LEMMA UnansweredGoesOn ==
    ASSUME Inv, PlacesOK, NEW j \in Jobs, IsJob(j), Kind(j[1]) \in LoopKinds,
           reply[j] = "none"
    PROVE  CanGoOn
<1>1. CASE Queued(j)
  <2>1. queue # <<>>
    BY <1>1, EmptySeq DEF Queued
  <2>2. QED
    BY <2>1, PoolGoesOn
<1>2. CASE j \in running
  BY <1>2 DEF PlacesOK, CanGoOn
<1>3. QED
  BY <1>1, <1>2 DEF PlacesOK

(* A call on the loop waits for jobs that are not answered, or resumes.    *)
LEMMA LoopGoesOn ==
    ASSUME Inv, PoolInv, PlacesOK, FetchJobsOK, closer # "draining",
           NEW c \in CallIds, Kind(c) \in LoopKinds, Phase(c) = "running"
    PROVE  CanGoOn
<1>1. CASE \E i \in Indices(c) : reply[<<c, i>>] = "none"
  <2>1. PICK i \in Indices(c) : reply[<<c, i>>] = "none"
    BY <1>1
  <2>2. <<c, i>> \in Jobs
    BY IndicesFinite
  <2>3. IsJob(<<c, i>>)
    BY <2>2 DEF IsJob, Started
  <2>4. QED
    BY <2>1, <2>2, <2>3, UnansweredGoesOn
<1>2. CASE /\ \A i \in Indices(c) : reply[<<c, i>>] # "none"
           /\ Kind(c) \in Fetches /\ \E i \in Indices(c) : got[<<c, i>>] = "none"
  <2>1. PICK i \in Indices(c) : got[<<c, i>>] = "none"
    BY <1>2
  <2>2. <<c, i>> \in Jobs
    BY IndicesFinite
  <2>3. reply[<<c, i>>] \in {"hit", "miss", "error"}
    BY <1>2, <2>2 DEF FetchJobsOK
  <2>4. QED
    BY <1>2, <2>1, <2>2, <2>3 DEF CanGoOn, LoopFree
<1>3. CASE /\ \A i \in Indices(c) : reply[<<c, i>>] # "none"
           /\ ~(Kind(c) \in Fetches /\ \E i \in Indices(c) : got[<<c, i>>] = "none")
  <2>1. AllSettled(c)
    BY <1>3 DEF AllSettled, Outcome
  <2>2. QED
    BY <2>1 DEF CanGoOn, LoopFree
<1>4. QED
  BY <1>1, <1>2, <1>3

(* While a call or close() is under way, one of the threads has what it    *)
(* waits for: a job and a thread for it, an answer of the store, a result, *)
(* or a pool that has drained.  So nobody ever waits for everybody,        *)
(* whatever the number of threads and of calls.                            *)
(* Every job of a call that has started is once in the queue, with one     *)
(* thread, or answered: no gather waits for what nobody will run (close()  *)
(* and the awaits it cuts off).                                            *)
THEOREM NobodyIsStuck == Spec => []NobodyStuck
<1>1. Inv /\ PoolInv /\ PlacesOK /\ FetchJobsOK => NobodyStuck
  <2> SUFFICES ASSUME Inv, PoolInv, PlacesOK, FetchJobsOK, Pending
               PROVE  CanGoOn
    BY PlacesAreOne DEF NobodyStuck
  <2>1. closer \in {"open", "queued", "store closed", "draining", "closed"}
    BY TypeParts DEF Inv, LocalTypeOK
  <2>2. CASE closer = "store closed"
    BY <2>2 DEF CanGoOn
  <2>3. CASE closer = "queued"
    <3>1. queue # <<>>
      BY <2>3, EmptySeq DEF PlacesOK, Queued
    <3>2. QED
      BY <3>1, PoolGoesOn
  <2>4. CASE closer = "draining"
    <3>1. CASE Drained
      BY <2>4, <3>1 DEF CanGoOn
    <3>2. CASE queue # <<>>
      BY <3>2, PoolGoesOn
    <3>3. CASE running # {}
      BY <3>3, RunningGoesOn
    <3>4. QED
      BY <3>1, <3>2, <3>3 DEF Drained
  <2>5. CASE closer \in {"open", "closed"}
    <3>1. PICK c \in CallIds : Phase(c) \in {"submitted", "running"}
      BY <2>5 DEF Pending
    <3>2. CASE Phase(c) = "submitted"
      BY <2>5, <3>2 DEF CanGoOn, LoopFree
    <3>3. CASE Phase(c) = "running" /\ Kind(c) \in LoopKinds
      BY <2>5, <3>3, LoopGoesOn
    <3>4. CASE Phase(c) = "running" /\ Kind(c) \in ThreadKinds
      <4>1. \A i \in Indices(c) : <<c, i>> \in Jobs
        BY IndicesFinite
      <4>2. QED
        BY <3>4, <4>1 DEF CanGoOn, Probing
    <3>5. Kind(c) \in LoopKinds \cup ThreadKinds
      BY <3>1 DEF Inv, CallsOK
    <3>6. QED
      BY <3>1, <3>2, <3>3, <3>4, <3>5
  <2>6. QED
    BY <2>1, <2>2, <2>3, <2>4, <2>5
<1>2. Init => PoolInv /\ PlacesOK /\ FetchJobsOK
  BY InitPoolInv, InitPlaces
<1>3. Inv /\ PoolInv /\ [Next]_vars => PoolInv'
  BY PoolStep
<1>4. Inv /\ PoolInv /\ PlacesOK /\ [Next]_vars => PlacesOK'
  BY PlacesStep
<1>5. Inv /\ PoolInv /\ FetchJobsOK /\ [Next]_vars => FetchJobsOK'
  BY FetchJobsStep
<1>6. QED
  BY <1>1, <1>2, <1>3, <1>4, <1>5, Inductive, PTL DEF Spec
=============================================================================
