--------------------------- MODULE L2AdapterProofs ---------------------------
(***************************************************************************)
(* Proofs about L2Adapter, whatever the number of tasks, keys and threads: *)
(* no wake-up and no result is lost; a result that is published is         *)
(* complete and final; nothing uses the store once it is closed; what a    *)
(* result reports present can be loaded; what is listed is in the store.   *)
(***************************************************************************)
EXTENDS L2Adapter, FiniteSetTheorems, SequenceTheorems, TLAPS

(* The bookkeeping of results, which the store and the pool do not touch.  *)
bookVars == <<completed, efd, asking, fetched>>

TaskRecords == [kind : TaskKinds \cup {"none"}, keys : KeyLists \cup {<<>>},
                phase : Phases]

BooksTyped ==
    /\ task \in [TaskIds -> TaskRecords]
    /\ completed \in [Signalled -> SUBSET TaskIds]
    /\ efd \in [Signalled -> BOOLEAN]
    /\ asking \in [Signalled -> SUBSET TaskIds]
    /\ fetched \subseteq TaskIds

Published(t) == Phase(t) \in {"published", "done"}

(* Task ids are given out in order.                                        *)
Numbered == \E n \in Nat : Submitted = 0 .. n - 1

(* Only published results are in the dictionaries, each in that of its     *)
(* kind, or fetched.                                                       *)
Entries ==
    /\ \A t \in Submitted : Kind(t) # "none"
    /\ \A t \in TaskIds : Phase(t) \in {"resumed", "published"} =>
          Kind(t) \in Signalled
    /\ \A t \in TaskIds : Phase(t) = "returned" => Kind(t) = "delete"
    /\ \A q \in Signalled : \A t \in completed[q] : Kind(t) = q /\ Published(t)
    /\ \A t \in fetched : Published(t)

Books == BooksTyped /\ Numbered /\ Entries

Inv == Books /\ ResultsKept /\ NoLostWakeup

-----------------------------------------------------------------------------

(* The next task id is that of no task.                                    *)
LEMMA NextIdIsNew ==
    ASSUME NEW n \in Nat, Submitted = 0 .. n - 1
    PROVE  Cardinality(Submitted) = n
  <1>1. Cardinality(0 .. n - 1) = IF 0 > n - 1 THEN 0 ELSE n - 1 - 0 + 1
    BY FS_Interval
  <1>. QED BY <1>1

(* What a task that is not published may do without touching the books.    *)
MovesOff(t) ==
    /\ Kind(t)' = Kind(t)
    /\ Phase(t) \notin {"none", "published", "done"}
    /\ Phase(t)' \notin {"none", "published"}
    /\ Phase(t)' = "done" => Kind(t) = "delete"
    /\ Phase(t)' = "resumed" => Kind(t) \in Signalled
    /\ Phase(t)' = "returned" => Kind(t) = "delete"

(* Steps before publication, and those of deletes, keep the invariant.     *)
LEMMA OffTheBooks ==
    ASSUME Inv, UNCHANGED bookVars, task' \in [TaskIds -> TaskRecords],
           \A t \in TaskIds : task'[t] = task[t] \/ MovesOff(t)
    PROVE  Inv'
  <1>. USE DEF Inv, Books, bookVars, Phase, Kind
  <1>1. BooksTyped'
    BY DEF BooksTyped
  <1>2. Submitted' = Submitted
    BY DEF Submitted, MovesOff
  <1>3. Numbered'
    BY <1>2 DEF Numbered
  <1>4. \A t \in TaskIds : Published(t) /\ Kind(t) # "delete" => task'[t] = task[t]
    BY DEF Published, MovesOff
  <1>5. \A t \in TaskIds : Published(t) => task'[t] = task[t]
    BY DEF Published, MovesOff
  <1>6. Entries'
    <2>1. \A t \in TaskIds : Phase(t)' \in {"resumed", "published"} =>
              Kind(t)' \in Signalled
      BY DEF Entries, MovesOff
    <2>2. \A q \in Signalled : \A t \in completed'[q] :
              Kind(t)' = q /\ Published(t)'
      BY <1>5 DEF Entries, Published, BooksTyped
    <2>3. \A t \in fetched' : Published(t)'
      BY <1>5 DEF Entries, Published, BooksTyped
    <2>4. \A t \in Submitted' : Kind(t)' # "none"
      BY <1>2 DEF Entries, MovesOff, Submitted
    <2>5. \A t \in TaskIds : Phase(t)' = "returned" => Kind(t)' = "delete"
      BY DEF Entries, MovesOff
    <2>. QED BY <2>1, <2>2, <2>3, <2>4, <2>5 DEF Entries
  <1>7. ResultsKept'
    BY <1>5 DEF ResultsKept, MovesOff, Published
  <1>8. NoLostWakeup'
    BY <1>5 DEF NoLostWakeup, Published
  <1>. QED BY <1>1, <1>3, <1>6, <1>7, <1>8

LEMMA InitBooks == Init => Inv
  <1>. SUFFICES ASSUME Init PROVE Inv
    OBVIOUS
  <1>1. BooksTyped
    BY DEF Init, BooksTyped, TaskRecords, NoTask, Phases
  <1>2. Submitted = {} /\ Submitted = 0 .. 0 - 1
    BY DEF Init, Submitted, Phase, NoTask
  <1>3. Numbered
    BY <1>2 DEF Numbered
  <1>4. Entries /\ ResultsKept /\ NoLostWakeup
    BY <1>2 DEF Init, Entries, ResultsKept, NoLostWakeup, Phase, NoTask, Published
  <1>. QED BY <1>1, <1>3, <1>4 DEF Inv, Books

LEMMA SubmitKeeps ==
    ASSUME Inv, NEW kind \in Kinds, NEW keys \in KeyLists, Submit(kind, keys)
    PROVE  Inv'
  <1>. USE DEF Inv, Books, Phase, Kind
  <1>. DEFINE fresh == [kind |-> kind, keys |-> keys, phase |-> "submitted"]
  <1>1. PICK n \in Nat : Submitted = 0 .. n - 1
    BY DEF Numbered
  <1>2. Cardinality(Submitted) = n
    BY <1>1, NextIdIsNew
  <1>3. n \in TaskIds /\ task' = [task EXCEPT ![n] = fresh]
    BY <1>2 DEF Submit
  <1>4. UNCHANGED <<completed, efd, asking, fetched>>
    BY DEF Submit, clientVars
  <1>5. Phase(n) = "none"
    BY <1>1, <1>3 DEF Submitted
  <1>6. task'[n] = fresh /\ \A t \in TaskIds \ {n} : task'[t] = task[t]
    BY <1>3 DEF BooksTyped
  <1>7. Phase(n)' = "submitted"
    BY <1>6
  <1>8. BooksTyped'
    <2>1. fresh \in TaskRecords
      BY KindsAssumption DEF TaskRecords, Phases
    <2>. QED BY <1>3, <1>4, <2>1 DEF BooksTyped
  <1>9. Numbered'
    <2>1. Submitted' = Submitted \cup {n}
      BY <1>3, <1>6, <1>7 DEF Submitted
    <2>2. Submitted' = 0 .. (n + 1) - 1
      BY <1>1, <2>1
    <2>. QED BY <2>2 DEF Numbered
  <1>10. \A t \in TaskIds : Phase(t)' \in {"resumed", "published", "done"} =>
            task'[t] = task[t]
    BY <1>6, <1>7
  <1>11. \A t \in TaskIds : Published(t) => task'[t] = task[t]
    BY <1>5, <1>6 DEF Published
  <1>12. Entries'
    <2>1. kind # "none"
      BY KindsAssumption DEF TaskKinds
    <2>2. \A t \in Submitted' : Kind(t)' # "none"
      BY <1>6, <2>1 DEF Entries, Submitted
    <2>3. \A t \in TaskIds : Phase(t)' = "returned" => Kind(t)' = "delete"
      BY <1>6 DEF Entries
    <2>4. \A t \in TaskIds : Phase(t)' \in {"resumed", "published"} =>
              Kind(t)' \in Signalled
      BY <1>10 DEF Entries
    <2>5. /\ \A q \in Signalled : \A t \in completed'[q] :
                Kind(t)' = q /\ Published(t)'
          /\ \A t \in fetched' : Published(t)'
      BY <1>4, <1>11 DEF Entries, Published, BooksTyped
    <2>. QED BY <2>2, <2>3, <2>4, <2>5 DEF Entries
  <1>13. ResultsKept'
    BY <1>4, <1>10 DEF ResultsKept
  <1>14. NoLostWakeup'
    BY <1>4, <1>11 DEF NoLostWakeup, Published
  <1>. QED BY <1>8, <1>9, <1>12, <1>13, <1>14

LEMMA FinishKeeps ==
    ASSUME Inv, NEW t \in TaskIds, Finish(t)
    PROVE  Inv'
  <1>. USE DEF Inv, Books, Phase, Kind
  <1>0. UNCHANGED <<asking, fetched>>
    BY DEF Finish, clientVars
  <1>1. Phase(t) \in {"resumed", "published"} /\ Kind(t) \in Signalled
    BY DEF Finish, PublishAndSignal, Entries
  <1>2. \A u \in TaskIds \ {t} : task'[u] = task[u]
    BY DEF Finish, PublishAndSignal, Goto, BooksTyped
  <1>3. Kind(t)' = Kind(t) /\ task' \in [TaskIds -> TaskRecords]
    <2>1. PICK phase \in Phases : task' = [task EXCEPT ![t].phase = phase]
      BY DEF Finish, PublishAndSignal, Goto, Phases
    <2>2. task[t] \in TaskRecords
      BY DEF BooksTyped
    <2>3. task'[t] = [task[t] EXCEPT !.phase = phase]
      BY <2>1 DEF BooksTyped
    <2>4. [task[t] EXCEPT !.phase = phase] \in TaskRecords
      BY <2>2 DEF TaskRecords
    <2>5. Kind(t)' = Kind(t)
      BY <2>2, <2>3 DEF TaskRecords
    <2>. QED BY <2>1, <2>3, <2>4, <2>5 DEF BooksTyped
  <1>4. Submitted' = Submitted
    BY <1>1, <1>2 DEF Submitted, Finish, PublishAndSignal, Goto, BooksTyped, TaskRecords
  <1>5. /\ Numbered'
        /\ \A u \in Submitted' : Kind(u)' # "none"
    BY <1>2, <1>3, <1>4 DEF Numbered, Entries, Submitted
  <1>6. CASE Phase(t) = "resumed"
    <2>1. /\ completed' = [completed EXCEPT ![Kind(t)] = @ \cup {t}]
          /\ Phase(t)' = "published"
          /\ efd' = efd
      BY <1>6 DEF Finish, PublishAndSignal, Goto, BooksTyped, TaskRecords
    <2>2. BooksTyped'
      BY <1>0, <1>1, <1>3, <2>1 DEF BooksTyped
    <2>3. \A q \in Signalled : completed'[q] =
              IF q = Kind(t) THEN completed[q] \cup {t} ELSE completed[q]
      BY <1>1, <2>1 DEF BooksTyped
    <2>4. Entries'
      BY <1>0, <1>1, <1>2, <1>3, <1>5, <2>1, <2>3 DEF Entries, Published, BooksTyped
    <2>5. t \notin fetched
      BY <1>6 DEF Entries, Published
    <2>6. ResultsKept'
      <3>. SUFFICES ASSUME NEW u \in TaskIds, Phase(u)' \in {"published", "done"},
                           Kind(u)' # "delete"
                    PROVE  (u \in completed'[Kind(u)']) # (u \in fetched')
        BY DEF ResultsKept
      <3>1. CASE u = t
        BY <1>0, <1>1, <1>3, <2>3, <2>5, <3>1
      <3>2. CASE u # t
        <4>1. task'[u] = task[u]
          BY <1>2, <3>2
        <4>2. (u \in completed[Kind(u)]) # (u \in fetched)
          BY <4>1 DEF ResultsKept
        <4>3. u \in completed'[Kind(u)] <=> u \in completed[Kind(u)]
          BY <2>1, <3>2 DEF BooksTyped
        <4>. QED BY <1>0, <4>1, <4>2, <4>3
      <3>. QED BY <3>1, <3>2
    <2>7. NoLostWakeup'
      BY <1>0, <1>1, <1>2, <1>3, <1>6, <2>1, <2>3 DEF NoLostWakeup
    <2>. QED BY <1>5, <2>2, <2>4, <2>6, <2>7
  <1>7. CASE Phase(t) = "published"
    <2>1. /\ efd' = [efd EXCEPT ![Kind(t)] = TRUE]
          /\ Phase(t)' = "done"
          /\ completed' = completed
      BY <1>7 DEF Finish, PublishAndSignal, Goto, BooksTyped, TaskRecords
    <2>2. BooksTyped'
      BY <1>0, <1>1, <1>3, <2>1 DEF BooksTyped
    <2>3. Entries'
      BY <1>0, <1>2, <1>3, <1>5, <2>1 DEF Entries, Published, BooksTyped
    <2>4. ResultsKept'
      BY <1>0, <1>2, <1>3, <1>7, <2>1 DEF ResultsKept
    <2>5. \A q \in Signalled : efd[q] \/ q = Kind(t) => efd'[q]
      BY <1>1, <2>1 DEF BooksTyped
    <2>6. NoLostWakeup'
      BY <1>0, <1>1, <1>2, <2>1, <2>5 DEF NoLostWakeup
    <2>. QED BY <1>5, <2>2, <2>3, <2>4, <2>6
  <1>. QED BY <1>1, <1>6, <1>7

LEMMA WakeKeeps ==
    ASSUME Inv, NEW q \in Signalled, Wake(q)
    PROVE  Inv'
  <1>. USE DEF Inv, Books, Phase, Kind
  <1>1. /\ UNCHANGED <<task, completed, fetched>>
        /\ efd' = [efd EXCEPT ![q] = FALSE]
        /\ asking' = [asking EXCEPT ![q] = Outstanding(q)]
    BY DEF Wake
  <1>2. BooksTyped'
    BY <1>1 DEF BooksTyped, Outstanding, Submitted
  <1>3. Numbered' /\ Entries' /\ ResultsKept'
    BY <1>1 DEF Numbered, Submitted, Entries, ResultsKept, Published
  <1>4. \A t \in completed[q] : t \in Outstanding(q)
    <2>. SUFFICES ASSUME NEW t \in completed[q] PROVE t \in Outstanding(q)
      OBVIOUS
    <2>1. t \in TaskIds /\ Kind(t) = q /\ Published(t)
      BY DEF BooksTyped, Entries
    <2>2. t \notin fetched
      BY <2>1 DEF ResultsKept, Published, Signalled
    <2>. QED BY <2>1, <2>2 DEF Outstanding, Submitted, Published
  <1>5. NoLostWakeup'
    BY <1>1, <1>4 DEF NoLostWakeup, BooksTyped
  <1>. QED BY <1>2, <1>3, <1>5

LEMMA PopKeeps ==
    ASSUME Inv, PopStores
    PROVE  Inv'
  <1>. USE DEF Inv, Books, Phase, Kind
  <1>1. /\ UNCHANGED <<task, efd>>
        /\ fetched' = fetched \cup completed["store"]
        /\ completed' = [completed EXCEPT !["store"] = {}]
        /\ asking' = [asking EXCEPT !["store"] = {}]
    BY DEF PopStores, Popped
  <1>2. "store" \in Signalled
    BY DEF Signalled, TaskKinds
  <1>3. BooksTyped'
    BY <1>1, <1>2 DEF BooksTyped
  <1>4. Numbered'
    BY <1>1 DEF Numbered, Submitted
  <1>5. Entries'
    BY <1>1, <1>2 DEF Entries, Published, BooksTyped, Submitted
  <1>6. ResultsKept'
    <2>. SUFFICES ASSUME NEW t \in TaskIds, Phase(t) \in {"published", "done"},
                         Kind(t) # "delete"
                  PROVE  (t \in completed'[Kind(t)]) # (t \in fetched')
      BY <1>1 DEF ResultsKept
    <2>1. (t \in completed[Kind(t)]) # (t \in fetched)
      BY DEF ResultsKept
    <2>2. CASE Kind(t) = "store"
      BY <1>1, <1>2, <2>1, <2>2 DEF BooksTyped
    <2>3. CASE Kind(t) # "store"
      <3>1. completed'[Kind(t)] = completed[Kind(t)]
        BY <1>1, <2>3 DEF BooksTyped
      <3>2. t \notin completed["store"]
        BY <1>2, <2>3 DEF Entries
      <3>. QED BY <1>1, <2>1, <3>1, <3>2
    <2>. QED BY <2>2, <2>3
  <1>7. NoLostWakeup'
    BY <1>1, <1>2 DEF NoLostWakeup, BooksTyped
  <1>. QED BY <1>3, <1>4, <1>5, <1>6, <1>7

LEMMA QueryKeeps ==
    ASSUME Inv, NEW t \in TaskIds, Query(t)
    PROVE  Inv'
  <1>. USE DEF Inv, Books, Phase, Kind
  <1>. DEFINE q == Kind(t)
  <1>1. /\ UNCHANGED <<task, efd>>
        /\ asking' = [asking EXCEPT ![q] = @ \ {t}]
        /\ fetched' = fetched \cup ({t} \cap completed[q])
        /\ completed' = [completed EXCEPT ![q] = @ \ {t}]
    BY DEF Query
  <1>2. q \in Signalled
    BY DEF Query, Signalled, TaskKinds
  <1>. HIDE DEF q
  <1>3. BooksTyped'
    BY <1>1, <1>2 DEF BooksTyped
  <1>4. Numbered'
    BY <1>1 DEF Numbered, Submitted
  <1>5. Entries'
    BY <1>1, <1>2 DEF Entries, Published, BooksTyped, Submitted
  <1>6. ResultsKept'
    <2>. SUFFICES ASSUME NEW u \in TaskIds, Phase(u) \in {"published", "done"},
                         Kind(u) # "delete"
                  PROVE  (u \in completed'[Kind(u)]) # (u \in fetched')
      BY <1>1 DEF ResultsKept
    <2>1. (u \in completed[Kind(u)]) # (u \in fetched)
      BY DEF ResultsKept
    <2>2. CASE u = t
      <3>1. Kind(u) = q
        BY <2>2 DEF q
      <3>. QED BY <1>1, <1>2, <2>1, <2>2, <3>1 DEF BooksTyped
    <2>3. CASE u # t
      <3>1. u \in completed'[Kind(u)] <=> u \in completed[Kind(u)]
        BY <1>1, <2>3 DEF BooksTyped
      <3>. QED BY <1>1, <2>1, <2>3, <3>1
    <2>. QED BY <2>2, <2>3
  <1>7. NoLostWakeup'
    BY <1>1, <1>2 DEF NoLostWakeup, BooksTyped
  <1>. QED BY <1>3, <1>4, <1>5, <1>6, <1>7
(* A step that moves one task, off the books.                              *)
LEMMA GotoKeeps ==
    ASSUME Inv, UNCHANGED bookVars, NEW t \in TaskIds, NEW phase \in Phases,
           Goto(t, phase), Phase(t) \notin {"none", "published", "done"},
           phase \notin {"none", "published"},
           phase = "done" => Kind(t) = "delete",
           phase = "resumed" => Kind(t) \in Signalled,
           phase = "returned" => Kind(t) = "delete"
    PROVE  Inv'
  <1>1. task[t] \in TaskRecords /\ task' = [task EXCEPT ![t].phase = phase]
    BY DEF Inv, Books, BooksTyped, Goto
  <1>2. task'[t] = [task[t] EXCEPT !.phase = phase]
    BY <1>1 DEF Inv, Books, BooksTyped
  <1>3. Kind(t)' = Kind(t) /\ Phase(t)' = phase
    BY <1>1, <1>2 DEF TaskRecords, Kind, Phase
  <1>4. [task[t] EXCEPT !.phase = phase] \in TaskRecords
    BY <1>1 DEF TaskRecords
  <1>5. task' \in [TaskIds -> TaskRecords]
    BY <1>1, <1>2, <1>4 DEF Inv, Books, BooksTyped
  <1>6. \A u \in TaskIds : task'[u] = task[u] \/ u = t
    BY <1>1 DEF Inv, Books, BooksTyped
  <1>7. MovesOff(t)
    BY <1>3 DEF MovesOff
  <1>. QED BY <1>5, <1>6, <1>7, OffTheBooks

LEMMA StartKeeps ==
    ASSUME Inv, NEW t \in TaskIds, Start(t)
    PROVE  Inv'
  <1>1. /\ Phase(t) = "submitted"
        /\ \E phase \in {"lost", "waiting"} : Goto(t, phase)
        /\ UNCHANGED bookVars
    BY DEF Start, bookVars, clientVars
  <1>2. {"lost", "waiting"} \subseteq Phases
    BY DEF Phases
  <1>. QED BY <1>1, <1>2, GotoKeeps

LEMMA ResumeKeeps ==
    ASSUME Inv, NEW t \in TaskIds, Resume(t)
    PROVE  Inv'
  <1>. DEFINE phase == IF Kind(t) = "delete" THEN "returned" ELSE "resumed"
  <1>1. /\ Phase(t) = "waiting"
        /\ Goto(t, phase)
        /\ UNCHANGED bookVars
    BY DEF Resume, bookVars, clientVars
  <1>2. Kind(t) \in Signalled \cup {"delete"}
    <2>1. task[t] \in TaskRecords /\ t \in Submitted
      BY <1>1 DEF Inv, Books, BooksTyped, Submitted
    <2>2. Kind(t) # "none"
      BY <2>1 DEF Inv, Books, Entries
    <2>. QED BY <2>1, <2>2 DEF TaskRecords, Kind, Signalled, TaskKinds
  <1>3. CASE Kind(t) = "delete"
    BY <1>1, <1>3, GotoKeeps DEF Phases
  <1>4. CASE Kind(t) # "delete"
    BY <1>1, <1>2, <1>4, GotoKeeps DEF Phases
  <1>. QED BY <1>3, <1>4

LEMMA DeleteReturnsKeeps ==
    ASSUME Inv, NEW t \in TaskIds, DeleteReturns(t)
    PROVE  Inv'
  <1>1. Phase(t) = "returned" /\ Goto(t, "done") /\ UNCHANGED bookVars
    BY DEF DeleteReturns, bookVars, clientVars
  <1>2. Kind(t) = "delete"
    BY <1>1 DEF Inv, Books, Entries
  <1>. QED BY <1>1, <1>2, GotoKeeps DEF Phases

(* close() cancels only coroutines that wait for their jobs.               *)
LEMMA ShutdownKeeps ==
    ASSUME Inv, CloseShutdown
    PROVE  Inv'
  <1>. DEFINE lost(t) == Cancelled(t)
  <1>1. /\ task' = [t \in TaskIds |->
               IF lost(t) THEN [task[t] EXCEPT !.phase = "lost"] ELSE task[t]]
        /\ UNCHANGED bookVars
    BY DEF CloseShutdown, bookVars, clientVars
  <1>2. \A t \in TaskIds : lost(t) => Phase(t) = "waiting"
    BY DEF Cancelled
  <1>. HIDE DEF lost
  <1>3. ASSUME NEW t \in TaskIds
        PROVE  /\ task'[t] \in TaskRecords
               /\ task'[t] = task[t] \/ MovesOff(t)
    <2>1. task[t] \in TaskRecords
      BY DEF Inv, Books, BooksTyped
    <2>2. CASE lost(t)
      <3>1. task'[t] = [task[t] EXCEPT !.phase = "lost"]
        BY <1>1, <2>2
      <3>2. task'[t] \in TaskRecords /\ Phase(t)' = "lost" /\ Kind(t)' = Kind(t)
        BY <2>1, <3>1 DEF TaskRecords, Phases, Phase, Kind
      <3>. QED BY <1>2, <2>2, <3>2 DEF MovesOff
    <2>3. CASE ~lost(t)
      BY <1>1, <2>1, <2>3
    <2>. QED BY <2>2, <2>3
  <1>4. task' \in [TaskIds -> TaskRecords]
    BY <1>1, <1>3
  <1>. QED BY <1>1, <1>3, <1>4, OffTheBooks

(* The store, the pool, the loop's life and close touch no books.          *)
LEMMA OthersKeep ==
    ASSUME Inv, UNCHANGED <<task, bookVars>>
    PROVE  Inv'
  <1>1. task' \in [TaskIds -> TaskRecords]
    BY DEF Inv, Books, BooksTyped
  <1>. QED BY <1>1, OffTheBooks

LEMMA StepKeeps == Inv /\ [Next]_vars => Inv'
  <1>. SUFFICES ASSUME Inv, [Next]_vars PROVE Inv'
    OBVIOUS
  <1>1. CASE \E kind \in Kinds, keys \in KeyLists : Submit(kind, keys)
    BY <1>1, SubmitKeeps
  <1>2. CASE LoopRuns \/ LoopStops \/ TakeJob \/ CloseStop \/ CloseStore \/ Others
    BY <1>2, OthersKeep
    DEF LoopRuns, LoopStops, TakeJob, CloseStop, CloseStore, Others, bookVars,
        clientVars
  <1>3. CASE \E t \in TaskIds : LoopStep(t)
    BY <1>3, StartKeeps, ResumeKeeps, FinishKeeps DEF LoopStep
  <1>4. CASE \E t \in TaskIds : Query(t)
    BY <1>4, QueryKeeps
  <1>5. CASE \E t \in TaskIds : DeleteStep(t)
    <2>. PICK t \in TaskIds : DeleteStep(t)
      BY <1>5
    <2>1. CASE DeleteReturns(t)
      BY <2>1, DeleteReturnsKeeps
    <2>2. CASE DeleteTimesOut(t)
      BY <2>2, OthersKeep DEF DeleteTimesOut, bookVars
    <2>. QED BY <2>1, <2>2 DEF DeleteStep
  <1>6. CASE \E j \in Jobs : Work(j)
    BY <1>6, OthersKeep DEF Work, bookVars, clientVars
  <1>7. CASE \E q \in Signalled : Wake(q)
    BY <1>7, WakeKeeps
  <1>8. CASE PopStores
    BY <1>8, PopKeeps
  <1>9. CASE CloseShutdown
    BY <1>9, ShutdownKeeps
  <1>10. CASE UNCHANGED vars
    BY <1>10, OthersKeep DEF vars, bookVars, clientVars
  <1>. QED BY <1>1, <1>2, <1>3, <1>4, <1>5, <1>6, <1>7, <1>8, <1>9, <1>10
          DEF Next, CloseStep

LEMMA SpecInv == Spec => []Inv
  <1>. QED BY InitBooks, StepKeeps, PTL DEF Spec

(* A published result that LMCache has not fetched is being asked for, or   *)
(* its event fd is signalled or about to be, for any number of tasks and    *)
(* threads (_store, _lookup and _load publish before they notify).          *)
THEOREM WakeupsAreNotLost == Spec => []NoLostWakeup
  <1>1. Inv => NoLostWakeup
    BY DEF Inv
  <1>. QED BY <1>1, SpecInv, PTL

-----------------------------------------------------------------------------
(* The tasks and the jobs of the pool.                                     *)

StoreTypeOK ==
    /\ cached \subseteq Keys /\ inDoubt \subseteq Keys
    /\ request \in [Jobs -> Store!Requests \cup {"none", "remove", "sweep"}]
    /\ key \in [Jobs -> Keys]
    /\ found \in [Jobs -> BOOLEAN]
    /\ reply \in [Jobs -> Store!Replies]

TasksTyped ==
    task \in [TaskIds -> {NoTask} \cup
        [kind : TaskKinds, keys : KeyLists, phase : Phases \ {"none"}]]

LocalTypeOK ==
    /\ queue \in Seq(Jobs)
    /\ running \subseteq Jobs
    /\ loop \in {"starting", "running", "stopping", "stopped"}
    /\ gaveUp \subseteq TaskIds
    /\ listed \subseteq Keys
    /\ closer \in {"open", "joining", "draining", "closed"}

(* The job of a key of a task that was started.                            *)
IsJob(j) ==
    /\ j \in Jobs
    /\ Phase(j[1]) \notin {"none", "submitted"}
    /\ j[2] \in DOMAIN task[j[1]].keys

Ended == {"resumed", "published", "returned", "done"}

QueueOK ==
    /\ \A n \in DOMAIN queue :
          IsJob(queue[n]) /\ request[queue[n]] = "none" /\ reply[queue[n]] = "none"
    /\ \A n, m \in DOMAIN queue : queue[n] = queue[m] => n = m

WorkersOK ==
    /\ \A j \in Jobs : request[j] # "none" \/ reply[j] # "none" => IsJob(j)
    /\ \A j \in Jobs : request[j] # "none" => reply[j] = "none" /\ j \in running

(* Jobs are queued, at work or answered; a task ends when all its jobs are *)
(* answered, and none is left when the store is closed.                    *)
PoolInv ==
    /\ QueueOK
    /\ WorkersOK
    /\ \A t \in TaskIds : Phase(t) \in Ended => AllResults(t)
    /\ PoolShut => queue = <<>>
    /\ closer = "closed" => running = {}

Types == StoreTypeOK /\ TasksTyped /\ LocalTypeOK

-----------------------------------------------------------------------------

OnlyJob(k) ==
    \A j \in Jobs \ {k} : request'[j] = request[j] /\ reply'[j] = reply[j]

LEMMA ReplyTyped ==
    ASSUME StoreTypeOK, NEW j \in Jobs, NEW outcome \in Store!Replies,
           Store!Reply(j, outcome)
    PROVE  /\ request' \in [Jobs -> Store!Requests \cup {"none", "remove", "sweep"}]
           /\ found' \in [Jobs -> BOOLEAN]
           /\ reply' \in [Jobs -> Store!Replies]
           /\ key' = key
           /\ OnlyJob(j)
           /\ request'[j] = "none"
  BY DEF StoreTypeOK, Store!Reply, OnlyJob

(* The store answers one job, and is done with it when it does.            *)
LEMMA AnswerTyped ==
    ASSUME StoreTypeOK, NEW j \in Jobs, Store!Answer(j)
    PROVE  /\ StoreTypeOK'
           /\ OnlyJob(j)
           /\ request[j] # "none"
           /\ reply'[j] = reply[j] \/ request'[j] = "none"
  <1>1. CASE Store!Present(j) \/ Store!Tell(j) \/ Store!Hit(j) \/ Store!Miss(j)
             \/ Store!Absent(j)
    <2>1. PICK outcome \in Store!Replies : Store!Reply(j, outcome)
      BY <1>1 DEF Store!Present, Store!Tell, Store!Hit, Store!Miss, Store!Absent,
         Store!Replies
    <2>2. request[j] # "none" /\ UNCHANGED <<cached, inDoubt>>
      BY <1>1 DEF Store!Present, Store!Tell, Store!Hit, Store!Miss, Store!Absent
    <2>. QED BY <2>1, <2>2, ReplyTyped DEF StoreTypeOK
  <1>2. CASE Store!Commit(j)
    <2>1. Store!Reply(j, "stored") /\ "stored" \in Store!Replies
      BY <1>2 DEF Store!Commit, Store!Replies
    <2>. QED BY <1>2, <2>1, ReplyTyped DEF StoreTypeOK, Store!Commit
  <1>3. CASE Store!Lacking(j) \/ Store!Find(j) \/ Store!Measure(j)
    <2>1. found' \in [Jobs -> BOOLEAN]
      <3>1. CASE Store!Lacking(j) \/ Store!Find(j)
        BY <3>1 DEF Store!Lacking, Store!Find, StoreTypeOK
      <3>2. CASE Store!Measure(j)
        <4>. DEFINE b == key[j] \in cached
        <4>1. b \in BOOLEAN
          OBVIOUS
        <4>2. found' = [found EXCEPT ![j] = b] /\ found \in [Jobs -> BOOLEAN]
          BY <3>2 DEF Store!Measure, StoreTypeOK
        <4>. HIDE DEF b
        <4>. QED BY <4>1, <4>2
      <3>. QED BY <1>3, <3>1, <3>2
    <2>2. PICK next \in Store!Requests \cup {"remove"} :
             request' = request \/ request' = [request EXCEPT ![j] = next]
      BY <1>3 DEF Store!Lacking, Store!Find, Store!Measure, Store!Requests
    <2>3. request[j] # "none" /\ UNCHANGED <<cached, inDoubt, key, reply>>
      BY <1>3 DEF Store!Lacking, Store!Find, Store!Measure
    <2>. QED BY <2>1, <2>2, <2>3 DEF StoreTypeOK, OnlyJob
  <1>4. CASE Store!Remove(j) \/ Store!Swept(j)
    <2>1. Store!Outcome(j) \in Store!Replies
      BY DEF Store!Outcome, Store!Replies
    <2>2. CASE Store!Reply(j, Store!Outcome(j))
      BY <1>4, <2>1, <2>2, ReplyTyped DEF StoreTypeOK, Store!Remove, Store!Swept
    <2>3. CASE ~Store!Reply(j, Store!Outcome(j))
      BY <1>4, <2>3 DEF StoreTypeOK, OnlyJob, Store!Remove, Store!Swept
    <2>. QED BY <2>2, <2>3
  <1>5. CASE Store!Abandon(j)
    <2>1. Store!Reply(j, "error") /\ "error" \in Store!Replies
      BY <1>5 DEF Store!Abandon, Store!Replies
    <2>2. request[j] # "none" /\ cached' = cached /\ inDoubt' \subseteq Keys
      BY <1>5 DEF StoreTypeOK, Store!Abandon
    <2>. QED BY <2>1, <2>2, ReplyTyped DEF StoreTypeOK
  <1>. QED BY <1>1, <1>2, <1>3, <1>4, <1>5 DEF Store!Answer

-----------------------------------------------------------------------------
(* Tasks go on.                                                            *)

(* A task that was started or submitted enters another phase.              *)
Moved(t) ==
    \/ task'[t] = task[t]
    \/ /\ Phase(t) # "none"
       /\ \E p \in Phases \ {"none", "submitted"} :
             task'[t] = [task[t] EXCEPT !.phase = p]

LEMMA Moves ==
    ASSUME TasksTyped, task' \in [TaskIds -> TaskRecords],
           \A t \in TaskIds : Moved(t)
    PROVE  /\ TasksTyped'
           /\ \A t \in TaskIds : /\ Kind(t)' = Kind(t) /\ task'[t].keys = task[t].keys
                                 /\ JobsOf(t)' = JobsOf(t)
           /\ \A j \in Jobs : KeyOf(j)' = KeyOf(j)
           /\ \A j \in Jobs : IsJob(j) => IsJob(j)'
  <1>. DEFINE T == {NoTask} \cup
                   [kind : TaskKinds, keys : KeyLists, phase : Phases \ {"none"}]
  <1>1. ASSUME NEW t \in TaskIds
        PROVE  /\ task'[t] \in T
               /\ task'[t].kind = task[t].kind /\ task'[t].keys = task[t].keys
               /\ Phase(t) \notin {"none", "submitted"} =>
                     Phase(t)' \notin {"none", "submitted"}
    <2>1. task[t] \in T
      BY DEF TasksTyped
    <2>2. CASE task'[t] = task[t]
      BY <2>1, <2>2 DEF Phase
    <2>3. ASSUME NEW p \in Phases \ {"none", "submitted"}, Phase(t) # "none",
                 task'[t] = [task[t] EXCEPT !.phase = p]
          PROVE  /\ task'[t] \in T
                 /\ task'[t].kind = task[t].kind /\ task'[t].keys = task[t].keys
                 /\ Phase(t)' \notin {"none", "submitted"}
      <3>1. task[t] \in [kind : TaskKinds, keys : KeyLists, phase : Phases \ {"none"}]
        BY <2>1, <2>3 DEF NoTask, Phase
      <3>. QED BY <2>3, <3>1 DEF Phase
    <2>. QED BY <2>2, <2>3 DEF Moved
  <1>2. TasksTyped'
    BY <1>1 DEF TasksTyped
  <1>. HIDE DEF T
  <1>3. \A j \in Jobs : KeyOf(j)' = KeyOf(j) /\ (IsJob(j) => IsJob(j)')
    BY <1>1 DEF KeyOf, IsJob, Jobs
  <1>4. \A t \in TaskIds : JobsOf(t)' = JobsOf(t)
    BY <1>1 DEF JobsOf
  <1>. QED BY <1>1, <1>2, <1>3, <1>4 DEF Kind

(* The keys of a task.                                                     *)
LEMMA TaskKeys ==
    ASSUME TasksTyped, NEW t \in TaskIds
    PROVE  /\ task[t].keys \in Seq(Keys)
           /\ Len(task[t].keys) \in 0 .. MaxKeys
           /\ DOMAIN task[t].keys = 1 .. Len(task[t].keys)
           /\ \A i \in DOMAIN task[t].keys : <<t, i>> \in Jobs /\ task[t].keys[i] \in Keys
           /\ Phase(t) # "none" => Kind(t) \in TaskKinds
  <1>1. task[t].keys \in Seq(Keys) /\ Len(task[t].keys) <= MaxKeys
    <2>1. CASE task[t] = NoTask
      BY <2>1, KeyListsAssumption, EmptySeq DEF NoTask
    <2>2. CASE task[t] # NoTask
      BY <2>2, KeyListsAssumption DEF TasksTyped
    <2>. QED BY <2>1, <2>2
  <1>2. Phase(t) # "none" => Kind(t) \in TaskKinds
    BY DEF TasksTyped, Phase, Kind, NoTask
  <1>3. Len(task[t].keys) \in Nat /\ MaxKeys \in Nat
    BY <1>1, KeyListsAssumption
  <1>4. DOMAIN task[t].keys = 1 .. Len(task[t].keys)
    BY <1>1
  <1>. QED BY <1>1, <1>2, <1>3, <1>4 DEF Jobs

(* A result is one when, and only when, the store has answered.            *)
LEMMA ResultIsReply ==
    ASSUME NEW j
    PROVE  Result(j) = "none" <=> reply[j] = "none"
  BY DEF Result

(* Answers are not taken back.                                             *)
LEMMA ResultsStay ==
    ASSUME NEW t \in TaskIds, AllResults(t), JobsOf(t)' = JobsOf(t),
           \A n \in DOMAIN JobsOf(t) : reply'[<<t, n>>] = reply[<<t, n>>]
    PROVE  AllResults(t)'
  <1>1. \A n \in DOMAIN JobsOf(t) : Result(<<t, n>>)' # "none"
    BY DEF AllResults, Result
  <1>. QED BY <1>1 DEF AllResults

-----------------------------------------------------------------------------
(* Steps in which no job is queued, begins or is answered.                 *)

LEMMA Quiet ==
    ASSUME Types, PoolInv, task' \in [TaskIds -> TaskRecords],
           \A t \in TaskIds : Moved(t),
           \A t \in TaskIds : Phase(t)' \in Ended => Phase(t) \in Ended \/ AllResults(t),
           UNCHANGED <<request, reply, running>>,
           queue' = queue \/ queue' = <<>>,
           PoolShut' => queue' = <<>>,
           closer' = "closed" => closer = "closed" \/ running = {}
    PROVE  PoolInv'
  <1>1. /\ \A t \in TaskIds : JobsOf(t)' = JobsOf(t)
        /\ \A j \in Jobs : IsJob(j) => IsJob(j)'
    BY Moves DEF Types
  <1>2. QueueOK'
    <2>1. CASE queue' = <<>>
      BY <2>1, EmptySeq DEF QueueOK
    <2>2. CASE queue' = queue
      <3>1. ASSUME NEW n \in DOMAIN queue'
            PROVE  IsJob(queue[n])' /\ request'[queue'[n]] = "none"
                   /\ reply'[queue'[n]] = "none"
        <4>1. /\ n \in DOMAIN queue /\ queue[n] \in Jobs /\ IsJob(queue[n])
              /\ request[queue[n]] = "none" /\ reply[queue[n]] = "none"
          BY <2>2, <3>1 DEF PoolInv, QueueOK, IsJob
        <4>2. PICK j \in Jobs : j = queue[n] /\ IsJob(j)
          BY <4>1
        <4>3. IsJob(j)' /\ j = queue'[n]
          BY <1>1, <2>2, <4>2
        <4>. QED BY <2>2, <4>1, <4>3 DEF IsJob, Phase
      <3>. QED BY <2>2, <3>1 DEF PoolInv, QueueOK
    <2>. QED BY <2>1, <2>2
  <1>3. WorkersOK'
    BY <1>1 DEF PoolInv, WorkersOK
  <1>4. \A t \in TaskIds : Phase(t)' \in Ended => AllResults(t)'
    <2> TAKE t \in TaskIds
    <2>1. Phase(t)' \in Ended => AllResults(t)
      BY DEF PoolInv
    <2>. QED BY <1>1, <2>1, ResultsStay
  <1>5. closer' = "closed" => running' = {}
    BY DEF PoolInv
  <1>. QED BY <1>2, <1>3, <1>4, <1>5 DEF PoolInv

(* One task goes on.                                                       *)
LEMMA GotoMoves ==
    ASSUME Types, Inv, NEW t \in TaskIds, NEW p \in Phases \ {"none", "submitted"},
           Phase(t) # "none", Goto(t, p)
    PROVE  /\ \A u \in TaskIds : Moved(u)
           /\ Phase(t)' = p
           /\ \A u \in TaskIds \ {t} : task'[u] = task[u]
  <1>1. task \in [TaskIds -> TaskRecords]
    BY DEF Inv, Books, BooksTyped
  <1>2. task'[t] = [task[t] EXCEPT !.phase = p]
        /\ \A u \in TaskIds \ {t} : task'[u] = task[u]
    BY <1>1 DEF Goto
  <1>3. task[t] \in TaskRecords
    BY <1>1
  <1>4. Phase(t)' = p
    BY <1>2, <1>3 DEF Phase, TaskRecords
  <1>. QED BY <1>2, <1>4 DEF Moved

LEMMA GotoQuiet ==
    ASSUME Types, Inv, PoolInv, Inv', NEW t \in TaskIds,
           NEW p \in Phases \ {"none", "submitted"}, Phase(t) # "none", Goto(t, p),
           p \in Ended => Phase(t) \in Ended \/ AllResults(t),
           UNCHANGED <<storeVars, poolVars, closer>>
    PROVE  PoolInv'
  <1>1. /\ \A u \in TaskIds : Moved(u)
        /\ Phase(t)' = p
        /\ \A u \in TaskIds \ {t} : task'[u] = task[u]
    BY GotoMoves
  <1>2. task' \in [TaskIds -> TaskRecords]
    BY DEF Inv, Books, BooksTyped
  <1>3. \A u \in TaskIds : Phase(u)' \in Ended => Phase(u) \in Ended \/ AllResults(u)
    BY <1>1 DEF Phase
  <1>4. UNCHANGED <<request, reply, running, queue, closer>>
    BY DEF storeVars, poolVars
  <1>5. PoolShut' => queue' = <<>>
    BY <1>4 DEF PoolInv, PoolShut
  <1>. QED BY <1>1, <1>2, <1>3, <1>4, <1>5, Quiet

LEMMA SameTasks ==
    ASSUME Inv, UNCHANGED task
    PROVE  /\ task' \in [TaskIds -> TaskRecords]
           /\ \A t \in TaskIds : Moved(t)
           /\ \A t \in TaskIds : Phase(t)' = Phase(t)
  BY DEF Inv, Books, BooksTyped, Moved, Phase

LEMMA TasksQuiet ==
    ASSUME Types, Inv, PoolInv, UNCHANGED <<task, request, reply, poolVars>>,
           PoolShut' => PoolShut,
           closer' = "closed" => closer = "closed" \/ running = {}
    PROVE  PoolInv'
  <1>1. /\ task' \in [TaskIds -> TaskRecords]
        /\ \A t \in TaskIds : Moved(t)
        /\ \A t \in TaskIds : Phase(t)' = Phase(t)
    BY SameTasks
  <1>2. UNCHANGED <<queue, running>> /\ (PoolShut' => queue' = <<>>)
    BY DEF poolVars, PoolInv
  <1>. QED BY <1>1, <1>2, Quiet

LEMMA ShutdownQuiet ==
    ASSUME Types, Inv, PoolInv, CloseShutdown
    PROVE  PoolInv'
  <1>1. /\ queue' = <<>> /\ UNCHANGED <<request, reply, running>>
        /\ closer' # "closed"
    BY DEF CloseShutdown, storeVars
  <1>2. task \in [TaskIds -> TaskRecords]
    BY DEF Inv, Books, BooksTyped
  <1>3. \A t \in TaskIds :
           \/ task'[t] = task[t]
           \/ Phase(t) = "waiting" /\ task'[t] = [task[t] EXCEPT !.phase = "lost"]
    BY DEF CloseShutdown, Cancelled
  <1>4. \A t \in TaskIds : Moved(t)
    BY <1>3 DEF Moved, Phases
  <1>5. task' \in [TaskIds -> TaskRecords]
    BY <1>2 DEF CloseShutdown, TaskRecords, Phases
  <1>6. \A t \in TaskIds : Phase(t)' \in Ended => Phase(t) \in Ended
    <2> TAKE t \in TaskIds
    <2>1. CASE task'[t] = task[t]
      BY <2>1 DEF Phase
    <2>2. CASE task'[t] = [task[t] EXCEPT !.phase = "lost"]
      <3>1. Phase(t)' = "lost"
        BY <1>2, <2>2 DEF Phase, TaskRecords
      <3>. QED BY <3>1 DEF Ended
    <2>. QED BY <1>3, <2>1, <2>2
  <1>. QED BY <1>1, <1>4, <1>5, <1>6, Quiet

-----------------------------------------------------------------------------
(* Jobs are queued, begin, and are answered.                               *)

LEMMA TakeKeeps ==
    ASSUME Types, Inv, PoolInv, TakeJob
    PROVE  PoolInv' /\ StoreTypeOK'
  <1>. DEFINE j == Head(queue)
  <1>1. /\ queue # <<>> /\ queue' = Tail(queue) /\ running' = running \cup {j}
        /\ Store!Begin(j, RequestOf[Kind(j[1])], KeyOf(j))
        /\ UNCHANGED <<task, closer>>
    BY DEF TakeJob
  <1>2. queue \in Seq(Jobs) /\ StoreTypeOK /\ TasksTyped
    BY DEF Types, LocalTypeOK
  <1>3. /\ 1 \in DOMAIN queue /\ j = queue[1]
        /\ \A n \in DOMAIN queue' : /\ n \in Nat /\ n # 0
                                    /\ n + 1 \in DOMAIN queue /\ queue'[n] = queue[n + 1]
    <2>1. Len(queue) \in Nat /\ Len(queue) # 0 /\ DOMAIN queue = 1 .. Len(queue)
      BY <1>1, <1>2, EmptySeq
    <2>2. /\ Tail(queue) \in Seq(Jobs) /\ Len(Tail(queue)) = Len(queue) - 1
          /\ \A i \in 1 .. Len(Tail(queue)) : Tail(queue)[i] = queue[i + 1]
      BY <1>1, <1>2, HeadTailProperties
    <2>3. DOMAIN Tail(queue) = 1 .. Len(queue) - 1
      BY <2>2
    <2>. QED BY <1>1, <1>2, <2>1, <2>2, <2>3
  <1>4. IsJob(j) /\ request[j] = "none" /\ reply[j] = "none"
    BY <1>3 DEF PoolInv, QueueOK
  <1>5. j \in Jobs /\ RequestOf[Kind(j[1])] \in Store!Requests /\ KeyOf(j) \in Keys
    <2>1. /\ j \in Jobs /\ j[1] \in TaskIds /\ j[2] \in DOMAIN task[j[1]].keys
          /\ Phase(j[1]) # "none"
      BY <1>4 DEF IsJob, Jobs
    <2>2. Kind(j[1]) \in TaskKinds /\ task[j[1]].keys[j[2]] \in Keys
      BY <1>2, <2>1, TaskKeys
    <2>. QED BY <2>1, <2>2 DEF RequestOf, TaskKinds, KeyOf, Store!Requests
  <1>. HIDE DEF j
  <1>6. /\ \A k \in Jobs \ {j} : request'[k] = request[k] /\ reply'[k] = reply[k]
        /\ reply'[j] = "none"
        /\ StoreTypeOK'
    <2>. DEFINE r == RequestOf[Kind(j[1])]
                k == KeyOf(j)
    <2>1. r \in Store!Requests /\ k \in Keys /\ Store!Begin(j, r, k)
      BY <1>1, <1>5
    <2>. HIDE DEF r, k
    <2>. QED BY <1>2, <1>5, <2>1 DEF Store!Begin, Store!Replies, StoreTypeOK
  <1>7. \A k : IsJob(k)' <=> IsJob(k)
    BY <1>1 DEF IsJob, Phase
  <1>8. ASSUME NEW n \in DOMAIN queue'
        PROVE  /\ IsJob(queue[n + 1]) /\ queue'[n] = queue[n + 1]
               /\ request'[queue'[n]] = "none" /\ reply'[queue'[n]] = "none"
    <2>1. n + 1 \in DOMAIN queue /\ queue'[n] = queue[n + 1] /\ n + 1 # 1
      BY <1>3
    <2>2. queue[n + 1] # j
      BY <1>3, <2>1 DEF PoolInv, QueueOK
    <2>3. IsJob(queue[n + 1]) /\ queue[n + 1] \in Jobs
      BY <2>1 DEF PoolInv, QueueOK, IsJob
    <2>. QED BY <1>6, <2>1, <2>2, <2>3 DEF PoolInv, QueueOK
  <1>9. QueueOK'
    <2>1. \A n \in DOMAIN queue' : IsJob(queue'[n])
      BY <1>8
    <2>2. \A n \in DOMAIN queue' : IsJob(queue[n])'
      BY <1>1, <2>1 DEF IsJob, Phase
    <2>3. ASSUME NEW n \in DOMAIN queue', NEW m \in DOMAIN queue', queue'[n] = queue'[m]
          PROVE  n = m
      <3>1. n + 1 = m + 1
        BY <1>3, <2>3 DEF PoolInv, QueueOK
      <3>. QED BY <1>3, <3>1
    <2>. QED BY <1>8, <2>2, <2>3 DEF QueueOK
  <1>10. WorkersOK'
    BY <1>1, <1>4, <1>6, <1>7 DEF PoolInv, WorkersOK
  <1>11. ~PoolShut' /\ closer' # "closed"
    BY <1>1 DEF PoolInv, PoolShut
  <1>12. \A t \in TaskIds : Phase(t)' \in Ended => AllResults(t)'
    <2>1. ASSUME NEW t \in TaskIds, Phase(t)' \in Ended
          PROVE  AllResults(t)'
      <3>1. AllResults(t) /\ JobsOf(t)' = JobsOf(t) /\ DOMAIN JobsOf(t) = DOMAIN task[t].keys
        BY <1>1, <2>1 DEF PoolInv, Phase, JobsOf
      <3>2. ASSUME NEW n \in DOMAIN JobsOf(t)
            PROVE  reply'[<<t, n>>] = reply[<<t, n>>]
        <4>1. <<t, n>> \in Jobs /\ reply[<<t, n>>] # "none"
          BY <1>2, <3>1, TaskKeys, ResultIsReply DEF AllResults
        <4>. QED BY <1>4, <1>6, <4>1
      <3>. QED BY <3>1, <3>2, ResultsStay
    <2>. QED BY <2>1
  <1>. QED BY <1>6, <1>9, <1>10, <1>11, <1>12 DEF PoolInv

LEMMA WorkKeeps ==
    ASSUME Types, Inv, PoolInv, NEW j \in Jobs, Work(j)
    PROVE  PoolInv' /\ StoreTypeOK'
  <1>1. /\ j \in running /\ Store!Answer(j)
        /\ running' = IF reply'[j] = "none" THEN running ELSE running \ {j}
        /\ UNCHANGED <<task, queue, closer>>
    BY DEF Work
  <1>2. StoreTypeOK /\ TasksTyped
    BY DEF Types
  <1>3. /\ StoreTypeOK' /\ OnlyJob(j) /\ request[j] # "none"
        /\ reply'[j] = reply[j] \/ request'[j] = "none"
    BY <1>1, <1>2, AnswerTyped
  <1>4. IsJob(j) /\ reply[j] = "none"
    BY <1>3 DEF PoolInv, WorkersOK
  <1>5. \A k : IsJob(k)' <=> IsJob(k)
    BY <1>1 DEF IsJob, Phase
  <1>6. QueueOK'
    <2>1. ASSUME NEW n \in DOMAIN queue
          PROVE  /\ IsJob(queue[n]) /\ request'[queue[n]] = "none"
                 /\ reply'[queue[n]] = "none"
      <3>1. /\ IsJob(queue[n]) /\ queue[n] \in Jobs
            /\ request[queue[n]] = "none" /\ reply[queue[n]] = "none"
        BY <2>1 DEF PoolInv, QueueOK, IsJob
      <3>. QED BY <1>3, <3>1 DEF OnlyJob
    <2>2. \A n \in DOMAIN queue' : IsJob(queue[n])'
      BY <1>1, <2>1 DEF IsJob, Phase
    <2>. QED BY <1>1, <2>1, <2>2 DEF PoolInv, QueueOK
  <1>7. WorkersOK'
    <2>1. ASSUME NEW k \in Jobs
          PROVE  /\ request'[k] # "none" \/ reply'[k] # "none" => IsJob(k)
                 /\ request'[k] # "none" => reply'[k] = "none" /\ k \in running'
      <3>1. CASE k = j
        BY <1>1, <1>3, <1>4, <3>1
      <3>2. CASE k # j
        BY <1>1, <1>3, <3>2 DEF PoolInv, WorkersOK, OnlyJob
      <3>. QED BY <3>1, <3>2
    <2>. QED BY <1>5, <2>1 DEF WorkersOK
  <1>8. closer' # "closed"
    BY <1>1 DEF PoolInv
  <1>9. PoolShut' => queue' = <<>>
    BY <1>1 DEF PoolInv, PoolShut
  <1>10. \A t \in TaskIds : Phase(t)' \in Ended => AllResults(t)'
    <2>1. ASSUME NEW t \in TaskIds, Phase(t)' \in Ended
          PROVE  AllResults(t)'
      <3>1. AllResults(t) /\ JobsOf(t)' = JobsOf(t) /\ DOMAIN JobsOf(t) = DOMAIN task[t].keys
        BY <1>1, <2>1 DEF PoolInv, Phase, JobsOf
      <3>2. ASSUME NEW n \in DOMAIN JobsOf(t)
            PROVE  reply'[<<t, n>>] = reply[<<t, n>>]
        <4>1. <<t, n>> \in Jobs /\ reply[<<t, n>>] # "none"
          BY <1>2, <3>1, TaskKeys, ResultIsReply DEF AllResults
        <4>. QED BY <1>3, <1>4, <4>1 DEF OnlyJob
      <3>. QED BY <3>1, <3>2, ResultsStay
    <2>. QED BY <2>1
  <1>. QED BY <1>3, <1>6, <1>7, <1>8, <1>9, <1>10 DEF PoolInv

LEMMA StartQueues ==
    ASSUME Types, Inv, Inv', PoolInv, NEW t \in TaskIds, Start(t)
    PROVE  PoolInv' /\ queue' \in Seq(Jobs) /\ \A u \in TaskIds : Moved(u)
  <1>1. Phase(t) = "submitted" /\ UNCHANGED <<request, reply, running, closer>>
    BY DEF Start, storeVars
  <1>2. task' \in [TaskIds -> TaskRecords] /\ TasksTyped /\ queue \in Seq(Jobs)
    BY DEF Inv, Books, BooksTyped, Types, LocalTypeOK
  <1>3. {"lost", "waiting"} \subseteq Phases \ ({"none", "submitted"} \cup Ended)
    BY DEF Phases, Ended
  <1>4. PICK p \in {"lost", "waiting"} :
           /\ Goto(t, p)
           /\ p = "lost" => UNCHANGED queue
           /\ p = "waiting" => /\ queue' = queue \o JobsOf(t)
                               /\ ~PoolShut \/ task[t].keys = <<>>
    BY DEF Start
  <1>5. /\ \A u \in TaskIds : Moved(u)
        /\ Phase(t)' = p
        /\ \A u \in TaskIds \ {t} : task'[u] = task[u]
    BY <1>1, <1>3, <1>4, GotoMoves
  <1>6. \A u \in TaskIds : Phase(u)' \in Ended => Phase(u) \in Ended
    BY <1>3, <1>5 DEF Phase
  <1>7. CASE p = "lost"
    <2>1. UNCHANGED queue
      BY <1>4, <1>7
    <2>2. PoolShut' => queue' = <<>>
      BY <1>1, <2>1 DEF PoolInv, PoolShut
    <2>. QED BY <1>1, <1>2, <1>5, <1>6, <2>1, <2>2, Quiet
  <1>8. CASE p = "waiting"
    <2>1. /\ \A u \in TaskIds : JobsOf(u)' = JobsOf(u) /\ task'[u].keys = task[u].keys
          /\ \A j \in Jobs : IsJob(j) => IsJob(j)'
      BY <1>2, <1>5, Moves
    <2>. DEFINE q == queue
                s == JobsOf(t)
    <2>2. /\ s \in Seq(Jobs) /\ Len(s) = Len(task[t].keys)
          /\ \A i \in 1 .. Len(s) : i \in DOMAIN task[t].keys /\ s[i] = <<t, i>>
      <3>1. /\ Len(task[t].keys) \in Nat
            /\ DOMAIN task[t].keys = 1 .. Len(task[t].keys)
            /\ \A i \in DOMAIN task[t].keys : <<t, i>> \in Jobs
        BY <1>2, TaskKeys
      <3>. DEFINE n == Len(task[t].keys)
      <3>2. s = [i \in 1 .. n |-> <<t, i>>]
        BY <3>1 DEF JobsOf
      <3>3. n \in Nat /\ \A i \in 1 .. n : <<t, i>> \in Jobs
        BY <3>1
      <3>. HIDE DEF n, s
      <3>4. s \in [1 .. n -> Jobs] /\ DOMAIN s = 1 .. n
        BY <3>2, <3>3
      <3>5. s \in Seq(Jobs) /\ Len(s) = n
        BY <3>3, <3>4
      <3>. QED BY <3>1, <3>2, <3>5 DEF n
    <2>3. q \in Seq(Jobs) /\ queue' = q \o s
      BY <1>2, <1>4, <1>8
    <2>4. \A i \in DOMAIN task[t].keys :
             /\ <<t, i>> \in Jobs
             /\ request[<<t, i>>] = "none" /\ reply[<<t, i>>] = "none"
             /\ IsJob(<<t, i>>)'
      <3> TAKE i \in DOMAIN task[t].keys
      <3>1. <<t, i>> \in Jobs
        BY <1>2, TaskKeys
      <3>2. ~IsJob(<<t, i>>)
        BY <1>1 DEF IsJob
      <3>3. request[<<t, i>>] = "none" /\ reply[<<t, i>>] = "none"
        BY <3>1, <3>2 DEF PoolInv, WorkersOK
      <3>4. IsJob(<<t, i>>)'
        BY <1>5, <1>8, <2>1, <3>1 DEF IsJob
      <3>. QED BY <3>1, <3>3, <3>4
    <2>. HIDE DEF s, q
    <2>5. /\ Len(q) \in Nat /\ Len(s) \in Nat /\ DOMAIN q = 1 .. Len(q)
          /\ q \o s \in Seq(Jobs)
          /\ DOMAIN (q \o s) = 1 .. Len(q) + Len(s)
          /\ \A n \in 1 .. Len(q) + Len(s) :
                (q \o s)[n] = IF n <= Len(q) THEN q[n] ELSE s[n - Len(q)]
      <3>1. q \in Seq(Jobs) /\ s \in Seq(Jobs)
        BY <2>2, <2>3
      <3>2. /\ q \o s \in Seq(Jobs) /\ Len(q \o s) = Len(q) + Len(s)
            /\ \A n \in 1 .. Len(q) + Len(s) :
                (q \o s)[n] = IF n <= Len(q) THEN q[n] ELSE s[n - Len(q)]
        BY <3>1, ConcatProperties, Zenon
      <3>3. DOMAIN (q \o s) = 1 .. Len(q \o s)
        BY <3>2
      <3>4. /\ Len(q) \in Nat /\ DOMAIN q = 1 .. Len(q)
            /\ Len(s) \in Nat
        BY <3>1
      <3>. QED BY <3>2, <3>3, <3>4
    <2>6. ASSUME NEW n \in DOMAIN queue'
          PROVE  \/ n <= Len(q) /\ n \in DOMAIN q /\ queue'[n] = q[n]
                 \/ /\ n > Len(q) /\ n - Len(q) \in DOMAIN task[t].keys
                    /\ queue'[n] = <<t, n - Len(q)>>
      <3>1. n \in 1 .. Len(q) + Len(s)
        BY <2>3, <2>5, <2>6
      <3>2. CASE n <= Len(q)
        BY <2>3, <2>5, <3>1, <3>2
      <3>3. CASE n > Len(q)
        <4>1. n - Len(q) \in 1 .. Len(s)
          BY <2>5, <3>1, <3>3
        <4>2. queue'[n] = s[n - Len(q)]
          BY <2>3, <2>5, <3>1, <3>3
        <4>. QED BY <2>2, <3>3, <4>1, <4>2
      <3>. QED BY <2>5, <3>1, <3>2, <3>3
    <2>7. ASSUME NEW n \in DOMAIN queue'
          PROVE  /\ IsJob(queue[n])'
                 /\ request'[queue'[n]] = "none" /\ reply'[queue'[n]] = "none"
      <3>1. CASE n \in DOMAIN q /\ queue'[n] = q[n]
        <4>1. /\ IsJob(q[n]) /\ q[n] \in Jobs
              /\ request[q[n]] = "none" /\ reply[q[n]] = "none"
          BY <3>1 DEF PoolInv, QueueOK, IsJob, q
        <4>2. PICK j \in Jobs : j = q[n] /\ IsJob(j)
          BY <4>1
        <4>3. IsJob(j)' /\ queue'[n] = j
          BY <2>1, <3>1, <4>2
        <4>4. IsJob(queue[n])'
          BY <4>3 DEF IsJob, Phase
        <4>. QED BY <1>1, <3>1, <4>1, <4>4
      <3>2. ASSUME NEW i \in DOMAIN task[t].keys, queue'[n] = <<t, i>>
            PROVE  /\ IsJob(queue[n])'
                   /\ request'[queue'[n]] = "none" /\ reply'[queue'[n]] = "none"
        <4>1. IsJob(<<t, i>>)' /\ request[<<t, i>>] = "none" /\ reply[<<t, i>>] = "none"
          BY <2>4
        <4>2. IsJob(queue[n])'
          BY <3>2, <4>1 DEF IsJob, Phase
        <4>. QED BY <1>1, <3>2, <4>1, <4>2
      <3>. QED BY <2>6, <3>1, <3>2
    <2>8. ASSUME NEW n \in DOMAIN queue', NEW m \in DOMAIN queue', queue'[n] = queue'[m]
          PROVE  n = m
      <3>1. n \in Int /\ m \in Int /\ Len(q) \in Int
        BY <2>3, <2>5
      <3>2. CASE n <= Len(q) /\ m <= Len(q)
        BY <2>6, <2>8, <3>1, <3>2 DEF PoolInv, QueueOK, q
      <3>3. CASE n > Len(q) /\ m > Len(q)
        <4>1. <<t, n - Len(q)>> = <<t, m - Len(q)>>
          BY <2>6, <2>8, <3>1, <3>3
        <4>2. n - Len(q) = m - Len(q)
          BY <4>1
        <4>. QED BY <3>1, <4>2
      <3>4. ASSUME NEW x \in DOMAIN queue', NEW y \in DOMAIN queue',
                   x <= Len(q), y > Len(q), x \in Int, y \in Int,
                   queue'[x] = queue'[y]
            PROVE  FALSE
        <4>1. x \in DOMAIN q /\ queue'[x] = q[x]
          BY <2>6, <3>1, <3>4
        <4>2. q[x][1] # t
          <5>1. IsJob(q[x])
            BY <4>1 DEF PoolInv, QueueOK, q
          <5>. QED BY <1>1, <5>1 DEF IsJob
        <4>3. q[x] = <<t, y - Len(q)>>
          <5>1. queue'[y] = <<t, y - Len(q)>>
            <6>1. ~(y <= Len(q))
              BY <3>1, <3>4
            <6>. QED BY <2>6, <6>1
          <5>. QED BY <3>4, <4>1, <5>1
        <4>4. <<t, y - Len(q)>>[1] = t
          OBVIOUS
        <4>. QED BY <4>2, <4>3, <4>4
      <3>. QED BY <2>8, <3>1, <3>2, <3>3, <3>4
    <2>9. QueueOK'
      BY <2>7, <2>8 DEF QueueOK
    <2>10. WorkersOK'
      BY <1>1, <2>1 DEF PoolInv, WorkersOK
    <2>11. \A u \in TaskIds : Phase(u)' \in Ended => AllResults(u)'
      <3> TAKE u \in TaskIds
      <3>1. Phase(u)' \in Ended => AllResults(u)
        BY <1>6 DEF PoolInv
      <3>. QED BY <1>1, <2>1, <3>1, ResultsStay
    <2>12. PoolShut' => queue' = <<>>
      <3>1. task[t].keys = <<>> => s = <<>>
        BY <2>2, EmptySeq
      <3>2. PoolShut' => PoolShut
        BY <1>1 DEF PoolShut
      <3>. QED BY <1>4, <1>8, <2>3, <3>1, <3>2, ConcatEmptySeq, EmptySeq
         DEF PoolInv, q
    <2>13. closer' = "closed" => running' = {}
      BY <1>1 DEF PoolInv
    <2>. QED BY <1>5, <2>3, <2>5, <2>9, <2>10, <2>11, <2>12, <2>13 DEF PoolInv
  <1>. QED BY <1>2, <1>4, <1>5, <1>7, <1>8

(* A task that is submitted is new.                                        *)
LEMMA SubmitKeepsPool ==
    ASSUME Types, Inv, PoolInv, NEW kind \in Kinds, NEW keys \in KeyLists,
           Submit(kind, keys)
    PROVE  PoolInv' /\ TasksTyped'
  <1>. DEFINE fresh == [kind |-> kind, keys |-> keys, phase |-> "submitted"]
  <1>1. PICK n \in Nat : Submitted = 0 .. n - 1
    BY DEF Inv, Books, Numbered
  <1>2. Cardinality(Submitted) = n
    BY <1>1, NextIdIsNew
  <1>3. n \in TaskIds /\ task' = [task EXCEPT ![n] = fresh]
        /\ UNCHANGED <<request, reply, queue, running, closer>>
    BY <1>2 DEF Submit, storeVars, poolVars
  <1>4. Phase(n) = "none"
    BY <1>1, <1>3 DEF Submitted
  <1>5. fresh \in [kind : TaskKinds, keys : KeyLists, phase : Phases \ {"none"}]
    BY KindsAssumption DEF Phases
  <1>6. TasksTyped'
    BY <1>3, <1>5 DEF Types, TasksTyped
  <1>7. task'[n] = fresh /\ \A t \in TaskIds \ {n} : task'[t] = task[t]
    BY <1>3 DEF Types, TasksTyped
  <1>8. \A j \in Jobs : IsJob(j) => IsJob(j)'
    BY <1>4, <1>7 DEF IsJob, Phase, Jobs
  <1>9. QueueOK'
    <2>1. ASSUME NEW m \in DOMAIN queue'
          PROVE  IsJob(queue[m])'
      <3>1. IsJob(queue[m]) /\ queue[m] \in Jobs
        BY <1>3, <2>1 DEF PoolInv, QueueOK, IsJob
      <3>2. PICK j \in Jobs : j = queue[m] /\ IsJob(j)
        BY <3>1
      <3>3. IsJob(j)' /\ queue'[m] = j
        BY <1>3, <1>8, <3>2
      <3>. QED BY <3>3 DEF IsJob, Phase
    <2>. QED BY <1>3, <2>1 DEF PoolInv, QueueOK
  <1>10. WorkersOK'
    BY <1>3, <1>8 DEF PoolInv, WorkersOK
  <1>11. \A t \in TaskIds : Phase(t)' \in Ended => AllResults(t)'
    <2> TAKE t \in TaskIds
    <2>1. CASE t = n
      BY <1>7, <2>1 DEF Phase, Ended
    <2>2. CASE t # n
      <3>1. /\ Phase(t)' = Phase(t) /\ JobsOf(t)' = JobsOf(t)
            /\ Phase(t) \in Ended => AllResults(t)
        BY <1>7, <2>2 DEF Phase, JobsOf, PoolInv
      <3>. QED BY <1>3, <3>1, ResultsStay
    <2>. QED BY <2>1, <2>2
  <1>12. (PoolShut' => queue' = <<>>) /\ (closer' = "closed" => running' = {})
    BY <1>3 DEF PoolInv, PoolShut
  <1>. QED BY <1>6, <1>9, <1>10, <1>11, <1>12 DEF PoolInv

-----------------------------------------------------------------------------
(* Every step.                                                             *)

(* What a task's results are about are keys.                               *)
LEMMA KeysWithAreKeys ==
    ASSUME TasksTyped, NEW t \in TaskIds, NEW results
    PROVE  KeysWith(t, results) \subseteq Keys
  BY TaskKeys DEF KeysWith

LEMMA InitPool == Init => Types /\ PoolInv
  <1>. SUFFICES ASSUME Init
                PROVE  Types /\ PoolInv
    OBVIOUS
  <1>1. /\ task = [t \in TaskIds |-> NoTask] /\ queue = <<>> /\ running = {}
        /\ loop = "starting" /\ gaveUp = {} /\ listed = {} /\ closer = "open"
        /\ key = [j \in Jobs |-> CHOOSE k \in Keys : TRUE]
        /\ cached \subseteq Keys /\ inDoubt = {}
        /\ request = [j \in Jobs |-> "none"] /\ found = [j \in Jobs |-> FALSE]
        /\ reply = [j \in Jobs |-> "none"]
    BY DEF Init, Store!Init
  <1>2. (CHOOSE k \in Keys : TRUE) \in Keys
    BY KeysAssumption
  <1>3. key \in [Jobs -> Keys]
    BY <1>1, <1>2
  <1>4. StoreTypeOK
    BY <1>1, <1>3 DEF StoreTypeOK, Store!Replies
  <1>5. TasksTyped /\ LocalTypeOK
    BY <1>1, EmptySeq DEF TasksTyped, LocalTypeOK
  <1>6. \A t \in TaskIds : Phase(t) = "none"
    BY <1>1 DEF Phase, NoTask
  <1>7. PoolInv
    BY <1>1, <1>6, EmptySeq DEF PoolInv, QueueOK, WorkersOK, Ended, PoolShut
  <1>. QED BY <1>4, <1>5, <1>7 DEF Types

(* The steps of the loop.                                                  *)
LEMMA LoopKeepsPool ==
    ASSUME Types, Inv, Inv', PoolInv, NEW t \in TaskIds, LoopStep(t)
    PROVE  PoolInv' /\ Types'
  <1>. USE DEF Types
  <1>1. CASE Start(t)
    <2>1. PoolInv' /\ queue' \in Seq(Jobs) /\ \A u \in TaskIds : Moved(u)
      BY <1>1, StartQueues
    <2>2. TasksTyped'
      BY <2>1, Moves DEF Inv, Books, BooksTyped
    <2>3. StoreTypeOK' /\ LocalTypeOK'
      BY <1>1, <2>1 DEF Start, storeVars, clientVars, StoreTypeOK, LocalTypeOK
    <2>. QED BY <2>1, <2>2, <2>3
  <1>2. CASE Resume(t)
    <2>. DEFINE p == IF Kind(t) = "delete" THEN "returned" ELSE "resumed"
    <2>1. /\ p \in Phases \ {"none", "submitted"} /\ Phase(t) = "waiting"
          /\ Goto(t, p) /\ AllResults(t)
          /\ UNCHANGED <<storeVars, poolVars, loop, clientVars, closer>>
      BY <1>2 DEF Resume, Phases
    <2>. HIDE DEF p
    <2>2. PoolInv'
      BY <2>1, GotoQuiet
    <2>3. TasksTyped'
      BY <2>1, GotoMoves, Moves DEF Inv, Books, BooksTyped
    <2>4. listed' \subseteq Keys
      BY <1>2, KeysWithAreKeys DEF Resume, LocalTypeOK
    <2>5. StoreTypeOK' /\ LocalTypeOK'
      BY <2>1, <2>4 DEF storeVars, poolVars, clientVars, StoreTypeOK, LocalTypeOK
    <2>. QED BY <2>2, <2>3, <2>5
  <1>3. CASE Finish(t)
    <2>1. PICK p \in {"published", "done"} : Goto(t, p)
      BY <1>3 DEF Finish, PublishAndSignal
    <2>2. p \in Phases \ {"none", "submitted"} /\ Phase(t) \in Ended /\ Phase(t) # "none"
      BY <1>3, <2>1 DEF Finish, PublishAndSignal, Phases, Ended
    <2>3. UNCHANGED <<storeVars, poolVars, loop, clientVars, listed, closer>>
      BY <1>3 DEF Finish
    <2>4. PoolInv'
      BY <2>1, <2>2, <2>3, GotoQuiet
    <2>5. TasksTyped'
      BY <2>1, <2>2, GotoMoves, Moves DEF Inv, Books, BooksTyped
    <2>6. StoreTypeOK' /\ LocalTypeOK'
      BY <2>3 DEF storeVars, poolVars, clientVars, StoreTypeOK, LocalTypeOK
    <2>. QED BY <2>4, <2>5, <2>6
  <1>. QED BY <1>1, <1>2, <1>3 DEF LoopStep

(* The steps of the thread in delete().                                    *)
LEMMA DeleteKeepsPool ==
    ASSUME Types, Inv, Inv', PoolInv, NEW t \in TaskIds, DeleteStep(t)
    PROVE  PoolInv' /\ Types'
  <1>. USE DEF Types
  <1>1. CASE DeleteReturns(t)
    <2>1. /\ Phase(t) = "returned" /\ Goto(t, "done")
          /\ listed' = listed \ KeysWith(t, {"removed"})
          /\ UNCHANGED <<storeVars, poolVars, loop, clientVars, closer>>
      BY <1>1 DEF DeleteReturns
    <2>2. "done" \in Phases \ {"none", "submitted"} /\ Phase(t) \in Ended /\ Phase(t) # "none"
      BY <2>1 DEF Phases, Ended
    <2>3. PoolInv'
      BY <2>1, <2>2, GotoQuiet
    <2>4. TasksTyped'
      BY <2>1, <2>2, GotoMoves, Moves DEF Inv, Books, BooksTyped
    <2>5. StoreTypeOK' /\ LocalTypeOK'
      BY <2>1 DEF storeVars, poolVars, clientVars, StoreTypeOK, LocalTypeOK
    <2>. QED BY <2>3, <2>4, <2>5
  <1>2. CASE DeleteTimesOut(t)
    <2>1. UNCHANGED <<storeVars, task, poolVars, loop, listed, closer>>
          /\ gaveUp' \subseteq TaskIds
      BY <1>2 DEF DeleteTimesOut, LocalTypeOK
    <2>2. PoolInv'
      BY <2>1, TasksQuiet DEF storeVars, PoolShut
    <2>3. Types'
      BY <2>1 DEF storeVars, poolVars, StoreTypeOK, LocalTypeOK, TasksTyped
    <2>. QED BY <2>2, <2>3
  <1>. QED BY <1>1, <1>2 DEF DeleteStep

(* The steps of the thread in close().                                     *)
LEMMA CloseKeepsPool ==
    ASSUME Types, Inv, Inv', PoolInv, CloseStop \/ CloseStep
    PROVE  PoolInv' /\ Types'
  <1>. USE DEF Types
  <1>1. CASE CloseStop
    <2>1. /\ UNCHANGED <<storeVars, task, poolVars, clientVars, listed>>
          /\ closer' = "joining" /\ loop' \in {"stopping", loop}
      BY <1>1 DEF CloseStop
    <2>2. PoolInv'
      BY <2>1, TasksQuiet DEF storeVars, PoolShut
    <2>3. Types'
      BY <2>1 DEF storeVars, poolVars, clientVars, StoreTypeOK, LocalTypeOK, TasksTyped
    <2>. QED BY <2>2, <2>3
  <1>2. CASE CloseShutdown
    <2>1. PoolInv'
      BY <1>2, ShutdownQuiet
    <2>2. \A t \in TaskIds : Moved(t)
      <3>1. \A t \in TaskIds :
               \/ task'[t] = task[t]
               \/ Phase(t) = "waiting" /\ task'[t] = [task[t] EXCEPT !.phase = "lost"]
        BY <1>2 DEF CloseShutdown, Cancelled
      <3>. QED BY <3>1 DEF Moved, Phases
    <2>3. TasksTyped'
      BY <2>2, Moves DEF Inv, Books, BooksTyped
    <2>4. StoreTypeOK' /\ LocalTypeOK'
      BY <1>2, EmptySeq DEF CloseShutdown, storeVars, clientVars, StoreTypeOK, LocalTypeOK
    <2>. QED BY <2>1, <2>3, <2>4
  <1>3. CASE CloseStore
    <2>1. /\ UNCHANGED <<storeVars, task, poolVars, loop, clientVars, listed>>
          /\ closer = "draining" /\ closer' = "closed" /\ running = {}
      BY <1>3 DEF CloseStore, Drained
    <2>2. PoolInv'
      BY <2>1, TasksQuiet DEF storeVars, PoolShut
    <2>3. Types'
      BY <2>1 DEF storeVars, poolVars, clientVars, StoreTypeOK, LocalTypeOK, TasksTyped
    <2>. QED BY <2>2, <2>3
  <1>. QED BY <1>1, <1>2, <1>3 DEF CloseStep

(* Steps that touch neither tasks nor jobs.                                *)
LEMMA AsideKeepsPool ==
    ASSUME Types, Inv, Inv', PoolInv,
           \/ LoopRuns \/ LoopStops \/ PopStores \/ Others \/ UNCHANGED vars
           \/ \E q \in Signalled : Wake(q)
           \/ \E t \in TaskIds : Query(t)
    PROVE  PoolInv' /\ Types'
  <1>. USE DEF Types
  <1>1. /\ UNCHANGED <<task, poolVars, gaveUp, listed, closer>>
        /\ loop' \in {loop, "running", "stopped"}
    BY DEF LoopRuns, LoopStops, PopStores, Others, Wake, Query, vars, clientVars
  <1>2. UNCHANGED <<request, reply>> /\ StoreTypeOK'
    <2>1. CASE Others
      <3>1. CASE \E k \in Keys : cached' \in {cached \cup {k}, cached \ {k}}
                 /\ UNCHANGED <<inDoubt, request, key, found, reply>>
        BY <3>1 DEF StoreTypeOK
      <3>2. CASE \E k \in inDoubt : Store!Settle(k)
        BY <3>2 DEF StoreTypeOK, Store!Settle
      <3>3. CASE \E k \in Keys : Store!Drop(k)
        BY <3>3 DEF StoreTypeOK, Store!Drop
      <3>. QED BY <2>1, <3>1, <3>2, <3>3 DEF Others
    <2>2. CASE ~Others
      <3>1. UNCHANGED storeVars
        BY <2>2 DEF LoopRuns, LoopStops, PopStores, Wake, Query, vars
      <3>. QED BY <3>1 DEF storeVars, StoreTypeOK
    <2>. QED BY <2>1, <2>2
  <1>3. PoolInv'
    BY <1>1, <1>2, TasksQuiet DEF PoolShut
  <1>4. TasksTyped' /\ LocalTypeOK'
    BY <1>1 DEF poolVars, LocalTypeOK, TasksTyped
  <1>. QED BY <1>2, <1>3, <1>4

LEMMA PoolStep == Types /\ Inv /\ Inv' /\ PoolInv /\ [Next]_vars => PoolInv' /\ Types'
  <1>. SUFFICES ASSUME Types, Inv, Inv', PoolInv, [Next]_vars
                PROVE  PoolInv' /\ Types'
    OBVIOUS
  <1>1. ASSUME NEW kind \in Kinds, NEW keys \in KeyLists, Submit(kind, keys)
        PROVE  PoolInv' /\ Types'
    <2>1. PoolInv' /\ TasksTyped'
      BY <1>1, SubmitKeepsPool
    <2>2. StoreTypeOK' /\ LocalTypeOK'
      BY <1>1 DEF Submit, storeVars, poolVars, clientVars, StoreTypeOK, LocalTypeOK, Types
    <2>. QED BY <2>1, <2>2 DEF Types
  <1>2. CASE TakeJob
    <2>1. PoolInv' /\ StoreTypeOK'
      BY <1>2, TakeKeeps
    <2>2. UNCHANGED <<task, loop, clientVars, listed, closer>> /\ queue # <<>>
          /\ queue' = Tail(queue) /\ running' = running \cup {Head(queue)}
      BY <1>2 DEF TakeJob
    <2>3. queue \in Seq(Jobs)
      BY DEF Types, LocalTypeOK
    <2>4. Head(queue) \in Jobs /\ Tail(queue) \in Seq(Jobs)
      BY <2>2, <2>3, HeadTailProperties
    <2>5. LocalTypeOK' /\ TasksTyped'
      BY <2>2, <2>4 DEF Types, LocalTypeOK, TasksTyped, clientVars
    <2>. QED BY <2>1, <2>5 DEF Types
  <1>3. ASSUME NEW j \in Jobs, Work(j)
        PROVE  PoolInv' /\ Types'
    <2>1. PoolInv' /\ StoreTypeOK'
      BY <1>3, WorkKeeps
    <2>2. UNCHANGED <<task, queue, loop, clientVars, listed, closer>>
          /\ running' \subseteq running
      BY <1>3 DEF Work
    <2>3. LocalTypeOK' /\ TasksTyped'
      BY <2>2 DEF Types, LocalTypeOK, TasksTyped, clientVars
    <2>. QED BY <2>1, <2>3 DEF Types
  <1>. QED BY <1>1, <1>2, <1>3, LoopKeepsPool, DeleteKeepsPool, CloseKeepsPool,
              AsideKeepsPool DEF Next

LEMMA SpecPool == Spec => [](Types /\ Inv /\ PoolInv)
  <1>. QED BY InitPool, InitBooks, StepKeeps, PoolStep, PTL DEF Spec

-----------------------------------------------------------------------------

(* Every variable keeps its type, for any number of tasks, keys and         *)
(* threads: a job of the pool always names a key of its task.               *)
THEOREM TypeCorrect == Spec => []TypeOK
  <1>1. Types /\ Inv => TypeOK
    BY DEF Types, StoreTypeOK, TasksTyped, LocalTypeOK, Inv, Books, BooksTyped, TypeOK
  <1>. QED BY <1>1, SpecPool, PTL

(* No job is at the store when close() has closed it: the pool is drained   *)
(* first, and a task that starts later queues nothing.                      *)
THEOREM StoreIsLeftAlone == Spec => []NoUseAfterClose
  <1>1. PoolInv => NoUseAfterClose
    BY DEF PoolInv, WorkersOK, NoUseAfterClose
  <1>. QED BY <1>1, SpecPool, PTL

(* What LMCache fetches is complete and stays as it was published, whatever *)
(* the pool still runs.                                                     *)
PublishedIsFinal ==
    [][\A t \in TaskIds : Phase(t) \in {"published", "done"} =>
          /\ AllResults(t)
          /\ \A n \in DOMAIN JobsOf(t) : reply'[<<t, n>>] = reply[<<t, n>>]]_vars

(* A coroutine publishes only when the pool has answered all its jobs, and  *)
(* no thread of the pool answers one of them again.                         *)
THEOREM ResultsAreFinal == Spec => PublishedIsFinal
  <1>1. Types /\ Inv /\ PoolInv /\ [Next]_vars =>
          [\A t \in TaskIds : Phase(t) \in {"published", "done"} =>
             /\ AllResults(t)
             /\ \A n \in DOMAIN JobsOf(t) : reply'[<<t, n>>] = reply[<<t, n>>]]_vars
    <2>. SUFFICES ASSUME Types, Inv, PoolInv, Next,
                         NEW t \in TaskIds, Phase(t) \in {"published", "done"}
                  PROVE  /\ AllResults(t)
                         /\ \A n \in DOMAIN JobsOf(t) : reply'[<<t, n>>] = reply[<<t, n>>]
      OBVIOUS
    <2>1. AllResults(t)
      BY DEF PoolInv, Ended
    <2>2. ASSUME NEW n \in DOMAIN JobsOf(t)
          PROVE  reply'[<<t, n>>] = reply[<<t, n>>]
      <3>1. <<t, n>> \in Jobs /\ reply[<<t, n>>] # "none"
        BY <2>1, TaskKeys, ResultIsReply DEF AllResults, JobsOf, Types
      <3>2. CASE \E j \in Jobs : Work(j)
        <4>1. PICK j \in Jobs : Work(j)
          BY <3>2
        <4>2. OnlyJob(j) /\ request[j] # "none"
          BY <4>1, AnswerTyped DEF Work, Types
        <4>3. reply[j] = "none"
          BY <4>2 DEF PoolInv, WorkersOK
        <4>. QED BY <3>1, <4>2, <4>3 DEF OnlyJob
      <3>3. CASE TakeJob
        <4>1. /\ queue # <<>> /\ queue \in Seq(Jobs)
              /\ \E r, k : Store!Begin(Head(queue), r, k)
          BY <3>3 DEF TakeJob, Types, LocalTypeOK
        <4>2. 1 \in DOMAIN queue /\ Head(queue) = queue[1]
          BY <4>1, EmptySeq
        <4>3. reply[Head(queue)] = "none" /\ Head(queue) \in Jobs
          BY <4>2 DEF PoolInv, QueueOK, IsJob
        <4>4. \A j \in Jobs \ {Head(queue)} : reply'[j] = reply[j]
          BY <4>1 DEF Store!Begin, Types, StoreTypeOK
        <4>. QED BY <3>1, <4>3, <4>4
      <3>4. CASE ~TakeJob /\ ~\E j \in Jobs : Work(j)
        <4>1. UNCHANGED reply
          BY <3>4 DEF Next, Submit, LoopRuns, LoopStops, LoopStep, Start, Resume,
             Finish, Query, DeleteStep, DeleteReturns, DeleteTimesOut, Wake,
             PopStores, CloseStop, CloseStep, CloseShutdown, CloseStore, Others,
             Store!Settle, Store!Drop, storeVars
        <4>. QED BY <4>1
      <3>. QED BY <3>2, <3>3, <3>4
    <2>. QED BY <2>1, <2>2
  <1>. QED BY <1>1, SpecPool, PTL DEF Spec, PublishedIsFinal

-----------------------------------------------------------------------------
(* While nothing is removed or lost: what a job was told of is cached.     *)

Good == {"stored", "present", "yes", "hit"}

(* A job removes nothing; what it found or was told of is cached; and it   *)
(* asks about its own key.                                                 *)
JobOK(j) ==
    /\ request[j] \in {"none", "offer", "write", "ask", "fetch"}
    /\ request[j] = "none" => ~found[j]
    /\ found[j] \/ reply[j] \in Good => key[j] \in cached
    /\ request[j] # "none" \/ reply[j] # "none" => key[j] = KeyOf(j)

CacheInv ==
    /\ \A t \in TaskIds : Kind(t) # "delete"
    /\ \A j \in Jobs : JobOK(j)
    /\ \A j \in running : request[j] # "none"

SameJob(j) ==
    /\ request'[j] = request[j] /\ key'[j] = key[j]
    /\ found'[j] = found[j] /\ reply'[j] = reply[j]

(* The store has not shrunk, and answers yes only for what is cached, and  *)
(* a miss only for what is not.                                            *)
Answered(j) ==
    /\ cached \subseteq cached'
    /\ \A k \in Jobs \ {j} : SameJob(k)
    /\ key' = key
    /\ request'[j] \in {"none", "offer", "write", "ask", "fetch"}
    /\ request'[j] = "none" => ~found'[j]
    /\ found'[j] \/ reply'[j] \in Good => key[j] \in cached'
    /\ reply'[j] = "none" => request'[j] # "none"
    /\ reply'[j] = "miss" => key[j] \notin cached

(* A job is fine as long as the store does not shrink.                     *)
LEMMA JobStays ==
    ASSUME NEW j, JobOK(j), SameJob(j), cached \subseteq cached',
           request[j] # "none" \/ reply[j] # "none" => KeyOf(j)' = KeyOf(j)
    PROVE  JobOK(j)'
  BY DEF JobOK, SameJob

LEMMA ReplySame ==
    ASSUME StoreTypeOK, NEW j \in Jobs, NEW outcome \in Store!Replies \ {"none"},
           Store!Reply(j, outcome), cached \subseteq cached',
           outcome \in Good => key[j] \in cached',
           outcome = "miss" => key[j] \notin cached
    PROVE  Answered(j)
  <1>1. /\ request'[j] = "none" /\ found'[j] = FALSE /\ reply'[j] = outcome
        /\ key' = key
        /\ \A k \in Jobs \ {j} : SameJob(k)
    BY DEF StoreTypeOK, Store!Reply, SameJob
  <1>. QED BY <1>1 DEF Answered

LEMMA AnswerIsRight ==
    ASSUME Reliable, StoreTypeOK, NEW j \in Jobs, JobOK(j), reply[j] = "none",
           request[j] # "none", Store!Answer(j)
    PROVE  Answered(j)
  <1>. DEFINE R == Store!Replies \ {"none"}
  <1>0. {"present", "yes", "no", "hit", "miss", "stored", "error"} \subseteq R
    BY DEF Store!Replies
  <1>1. CASE Store!Present(j)
    <2>1. Store!Reply(j, "present") /\ key[j] \in cached /\ cached' = cached
      BY <1>1 DEF Store!Present
    <2>. QED BY <2>1, <1>0, ReplySame
  <1>2. CASE Store!Tell(j)
    <2>1. CASE key[j] \in cached
      <3>1. Store!Reply(j, "yes") /\ cached' = cached
        BY <1>2, <2>1 DEF Store!Tell
      <3>. QED BY <1>0, <2>1, <3>1, ReplySame
    <2>2. CASE key[j] \notin cached
      <3>1. Store!Reply(j, "no") /\ cached' = cached
        BY <1>2, <2>2 DEF Store!Tell
      <3>. QED BY <1>0, <3>1, ReplySame DEF Good
    <2>. QED BY <2>1, <2>2
  <1>3. CASE Store!Hit(j)
    <2>1. Store!Reply(j, "hit") /\ key[j] \in cached /\ cached' = cached
      BY <1>3 DEF Store!Hit, JobOK
    <2>. QED BY <2>1, <1>0, ReplySame
  <1>4. CASE Store!Miss(j)
    <2>1. Store!Reply(j, "miss") /\ key[j] \notin cached /\ cached' = cached
      BY <1>4 DEF Store!Miss
    <2>. QED BY <2>1, <1>0, ReplySame DEF Good
  <1>5. CASE Store!Commit(j)
    <2>1. Store!Reply(j, "stored") /\ cached' = cached \cup {key[j]}
      BY <1>5 DEF Store!Commit
    <2>. QED BY <2>1, <1>0, ReplySame
  <1>6. CASE Store!Lacking(j)
    <2>1. /\ request[j] = "offer" /\ request' = [request EXCEPT ![j] = "write"]
          /\ UNCHANGED <<cached, key, found, reply>>
      BY <1>6 DEF Store!Lacking
    <2>. QED BY <2>1 DEF StoreTypeOK, SameJob, JobOK, Answered, Good
  <1>7. CASE Store!Find(j)
    <2>1. /\ key[j] \in cached /\ found' = [found EXCEPT ![j] = TRUE]
          /\ UNCHANGED <<cached, request, key, reply>>
      BY <1>7 DEF Store!Find
    <2>. QED BY <2>1 DEF StoreTypeOK, SameJob, JobOK, Answered, Good
  <1>8. CASE Store!Abandon(j)
    <2>1. Store!Reply(j, "error") /\ cached' = cached
      BY <1>8 DEF Store!Abandon
    <2>. QED BY <2>1, <1>0, ReplySame DEF Good
  <1>9. CASE Store!Measure(j) \/ Store!Absent(j) \/ Store!Remove(j) \/ Store!Swept(j)
    BY <1>9 DEF Store!Measure, Store!Absent, Store!Remove, Store!Swept, JobOK
  <1>. QED BY <1>1, <1>2, <1>3, <1>4, <1>5, <1>6, <1>7, <1>8, <1>9 DEF Store!Answer

(* Jobs begin to ask, and are answered.                                    *)
LEMMA TakeKeepsCache ==
    ASSUME Reliable, Types, PoolInv, CacheInv, TakeJob
    PROVE  CacheInv'
  <1>1. /\ queue # <<>> /\ queue \in Seq(Jobs)
        /\ StoreTypeOK /\ TasksTyped /\ running \subseteq Jobs
    BY DEF TakeJob, Types, LocalTypeOK
  <1>2. 1 \in DOMAIN queue /\ Head(queue) = queue[1]
    BY <1>1, EmptySeq
  <1>3. Head(queue) \in Jobs
    BY <1>2 DEF PoolInv, QueueOK, IsJob
  <1>4. PICK j \in Jobs :
          /\ IsJob(j) /\ request[j] = "none" /\ reply[j] = "none"
          /\ running' = running \cup {j} /\ UNCHANGED task
          /\ Store!Begin(j, RequestOf[Kind(j[1])], KeyOf(j))
    BY <1>2, <1>3 DEF PoolInv, QueueOK, TakeJob
  <1>5. RequestOf[Kind(j[1])] \in {"offer", "ask", "fetch"}
    <2>1. j[1] \in TaskIds /\ Phase(j[1]) # "none"
      BY <1>4 DEF IsJob, Jobs
    <2>2. Kind(j[1]) \in TaskKinds \ {"delete"}
      BY <1>1, <2>1, TaskKeys DEF CacheInv
    <2>. QED BY <2>2 DEF RequestOf, TaskKinds
  <1>6. ~found[j] /\ \A k : KeyOf(k)' = KeyOf(k)
    BY <1>4 DEF CacheInv, JobOK, KeyOf
  <1>. DEFINE r == RequestOf[Kind(j[1])]
              own == KeyOf(j)
  <1>7. Store!Begin(j, r, own) /\ r \in {"offer", "ask", "fetch"}
    BY <1>4, <1>5
  <1>8. KeyOf(j)' = own
    BY <1>6
  <1>. HIDE DEF r, own
  <1>9. /\ request'[j] = r /\ key'[j] = own /\ found' = found /\ reply'[j] = "none"
        /\ cached' = cached
        /\ \A k \in Jobs \ {j} : SameJob(k)
    BY <1>1, <1>4, <1>7 DEF Store!Begin, StoreTypeOK, SameJob
  <1>10. JobOK(j)'
    BY <1>6, <1>7, <1>8, <1>9 DEF JobOK, Good
  <1>11. \A k \in Jobs \ {j} : JobOK(k)'
    BY <1>6, <1>9, JobStays DEF CacheInv
  <1>12. \A t \in TaskIds : Kind(t)' # "delete"
    BY <1>4 DEF CacheInv, Kind
  <1>13. \A k \in running' : request'[k] # "none"
    BY <1>1, <1>4, <1>7, <1>9 DEF CacheInv, SameJob
  <1>. QED BY <1>10, <1>11, <1>12, <1>13 DEF CacheInv

LEMMA WorkKeepsCache ==
    ASSUME Reliable, Types, PoolInv, CacheInv, NEW j \in Jobs, Work(j)
    PROVE  /\ CacheInv'
           /\ \A k \in Jobs \ {j} : SameJob(k)
           /\ reply'[j] = "miss" => key[j] \notin cached
  <1>1. /\ j \in running /\ Store!Answer(j) /\ UNCHANGED task
        /\ running' = IF reply'[j] = "none" THEN running ELSE running \ {j}
    BY DEF Work
  <1>2. StoreTypeOK /\ running \subseteq Jobs
    BY DEF Types, LocalTypeOK
  <1>3. JobOK(j) /\ request[j] # "none" /\ reply[j] = "none"
    BY <1>1 DEF CacheInv, PoolInv, WorkersOK
  <1>4. Answered(j)
    BY <1>1, <1>2, <1>3, AnswerIsRight
  <1>5. \A k : KeyOf(k)' = KeyOf(k)
    BY <1>1 DEF KeyOf
  <1>6. key[j] = KeyOf(j)
    BY <1>3 DEF JobOK
  <1>7. JobOK(j)'
    BY <1>4, <1>5, <1>6 DEF JobOK, Answered
  <1>8. \A k \in Jobs \ {j} : JobOK(k)'
    BY <1>4, <1>5, JobStays DEF CacheInv, Answered
  <1>9. \A t \in TaskIds : Kind(t)' # "delete"
    BY <1>1 DEF CacheInv, Kind
  <1>10. \A k \in running' : request'[k] # "none"
    BY <1>1, <1>2, <1>4 DEF CacheInv, SameJob, Answered
  <1>. QED BY <1>4, <1>7, <1>8, <1>9, <1>10 DEF CacheInv, Answered

(* No other step touches a job; a task that is submitted has none yet.     *)
LEMMA AsideKeepsCache ==
    ASSUME Reliable, Types, Inv, Inv', PoolInv, CacheInv, [Next]_vars,
           ~TakeJob, ~\E j \in Jobs : Work(j)
    PROVE  CacheInv' /\ \A j \in Jobs : SameJob(j)
  <1>1. /\ UNCHANGED <<request, key, found, reply>>
        /\ running' = running /\ cached \subseteq cached'
    <2>1. CASE Others
      BY <2>1, ModeAssumption DEF Others, Store!Settle, Store!Drop, poolVars
    <2>2. CASE ~Others
      BY <2>2 DEF Next, Submit, LoopRuns, LoopStops, LoopStep, Start, Resume,
         Finish, Query, DeleteStep, DeleteReturns, DeleteTimesOut, Wake,
         PopStores, CloseStop, CloseStep, CloseShutdown, CloseStore,
         poolVars, storeVars, vars
    <2>. QED BY <2>1, <2>2
  <1>2. \A j \in Jobs : SameJob(j)
    BY <1>1 DEF SameJob
  <1>3. ASSUME NEW kind \in Kinds, NEW keys \in KeyLists, Submit(kind, keys)
        PROVE  /\ \A t \in TaskIds : Kind(t)' # "delete"
               /\ \A j \in Jobs : IsJob(j) => KeyOf(j)' = KeyOf(j)
    <2>1. PICK n \in Nat : Submitted = 0 .. n - 1
      BY DEF Inv, Books, Numbered
    <2>2. Cardinality(Submitted) = n
      BY <2>1, NextIdIsNew
    <2>3. n \in TaskIds /\ task' = [task EXCEPT ![n] =
              [kind |-> kind, keys |-> keys, phase |-> "submitted"]]
      BY <1>3, <2>2 DEF Submit
    <2>4. Phase(n) = "none"
      BY <2>1, <2>3 DEF Submitted
    <2>5. kind # "delete"
      BY ModeAssumption
    <2>6. /\ task'[n] = [kind |-> kind, keys |-> keys, phase |-> "submitted"]
          /\ \A t \in TaskIds \ {n} : task'[t] = task[t]
      BY <2>3 DEF Types, TasksTyped
    <2>7. \A t \in TaskIds : Kind(t)' # "delete"
      BY <2>5, <2>6 DEF CacheInv, Kind
    <2>8. \A j \in Jobs : IsJob(j) => KeyOf(j)' = KeyOf(j)
      BY <2>4, <2>6 DEF IsJob, KeyOf, Jobs
    <2>. QED BY <2>7, <2>8
  <1>4. ASSUME \A t \in TaskIds : Moved(t)
        PROVE  /\ \A t \in TaskIds : Kind(t)' # "delete"
               /\ \A j \in Jobs : IsJob(j) => KeyOf(j)' = KeyOf(j)
    BY <1>4, Moves DEF Types, Inv, Books, BooksTyped, CacheInv
  <1>5. CASE \E kind \in Kinds, keys \in KeyLists : Submit(kind, keys)
    BY <1>1, <1>2, <1>3, <1>5, JobStays DEF CacheInv, PoolInv, WorkersOK
  <1>6. CASE ~\E kind \in Kinds, keys \in KeyLists : Submit(kind, keys)
    <2>1. \A t \in TaskIds : Moved(t)
      <3>1. CASE \E t \in TaskIds, p \in Phases \ {"none", "submitted"} :
                    Phase(t) # "none" /\ Goto(t, p)
        BY <3>1, GotoMoves
      <3>2. CASE CloseShutdown
        BY <3>2 DEF CloseShutdown, Cancelled, Moved, Phases
      <3>3. CASE UNCHANGED task
        BY <3>3 DEF Moved
      <3>4. ASSUME NEW t \in TaskIds, LoopStep(t) \/ DeleteStep(t)
            PROVE  \/ UNCHANGED task
                   \/ \E p \in Phases \ {"none", "submitted"} : Phase(t) # "none" /\ Goto(t, p)
        BY <3>4 DEF LoopStep, Start, Resume, Finish, PublishAndSignal, DeleteStep,
           DeleteReturns, DeleteTimesOut, Phases
      <3>. QED BY <1>6, <3>1, <3>2, <3>3, <3>4 DEF Next, LoopRuns, LoopStops, Query,
              Wake, PopStores, CloseStop, CloseStep, CloseStore, Others, vars
    <2>. QED BY <1>1, <1>2, <1>4, <2>1, JobStays DEF CacheInv, PoolInv, WorkersOK
  <1>. QED BY <1>2, <1>5, <1>6

LEMMA InitCache ==
    ASSUME Reliable
    PROVE  Init => CacheInv
  <1>. SUFFICES ASSUME Init
                PROVE  CacheInv
    OBVIOUS
  <1>1. /\ task = [t \in TaskIds |-> NoTask] /\ running = {}
        /\ request = [j \in Jobs |-> "none"] /\ found = [j \in Jobs |-> FALSE]
        /\ reply = [j \in Jobs |-> "none"]
    BY DEF Init, Store!Init
  <1>2. \A j \in Jobs : JobOK(j)
    BY <1>1 DEF JobOK, Good
  <1>3. \A t \in TaskIds : Kind(t) # "delete"
    BY <1>1 DEF Kind, NoTask
  <1>. QED BY <1>1, <1>2, <1>3 DEF CacheInv

(* A load never misses what a result says is there.                        *)
LEMMA MissIsAbsent ==
    ASSUME Reliable, Types, Inv, Inv', PoolInv, CacheInv, [Next]_vars,
           NEW j \in running, key[j] \notin Misfits, Result(j)' = "miss",
           NEW t \in TaskIds, key[j] \in KeysWith(t, Good)
    PROVE  FALSE
  <1>1. j \in Jobs /\ StoreTypeOK /\ TasksTyped
    BY DEF Types, LocalTypeOK
  <1>2. request[j] # "none" /\ reply[j] = "none" /\ key[j] = KeyOf(j)
    BY <1>1 DEF CacheInv, JobOK, PoolInv, WorkersOK
  <1>3. key[j] \in cached
    <2>1. PICK i \in DOMAIN task[t].keys :
             key[j] = task[t].keys[i] /\ Result(<<t, i>>) \in Good
      BY DEF KeysWith
    <2>2. <<t, i>> \in Jobs
      BY <1>1, TaskKeys
    <2>3. reply[<<t, i>>] \in Good
      BY <2>1 DEF Result, Good
    <2>4. KeyOf(<<t, i>>) \in cached
      BY <2>2, <2>3 DEF CacheInv, JobOK, Good
    <2>. QED BY <2>1, <2>4 DEF KeyOf
  <1>4. reply'[j] \in {"miss", "hit"}
    BY DEF Result
  <1>5. CASE TakeJob
    <2>1. /\ queue # <<>> /\ queue \in Seq(Jobs)
          /\ \E r, k : Store!Begin(Head(queue), r, k)
      BY <1>5 DEF TakeJob, Types, LocalTypeOK
    <2>2. 1 \in DOMAIN queue /\ Head(queue) = queue[1]
      BY <2>1, EmptySeq
    <2>3. request[Head(queue)] = "none" /\ Head(queue) \in Jobs
      BY <2>2 DEF PoolInv, QueueOK, IsJob
    <2>4. \A k \in Jobs \ {Head(queue)} : reply'[k] = reply[k]
      BY <2>1 DEF Store!Begin, StoreTypeOK
    <2>. QED BY <1>1, <1>2, <1>4, <2>3, <2>4
  <1>6. ASSUME NEW k \in Jobs, Work(k)
        PROVE  FALSE
    <2>1. k = j
      BY <1>1, <1>2, <1>4, <1>6, WorkKeepsCache DEF SameJob
    <2>2. reply'[j] # "miss"
      BY <1>3, <1>6, <2>1, WorkKeepsCache
    <2>3. KeyOf(j)' = KeyOf(j)
      BY <1>6 DEF Work, KeyOf
    <2>4. KeyOf(j)' \notin Misfits
      BY <1>2, <2>3
    <2>. QED BY <2>2, <2>4 DEF Result
  <1>7. CASE ~TakeJob /\ ~\E k \in Jobs : Work(k)
    BY <1>1, <1>2, <1>4, <1>7, AsideKeepsCache DEF SameJob
  <1>. QED BY <1>5, <1>6, <1>7

(* As long as nothing is removed or lost, a chunk that any published result *)
(* reports present is not missed by a load that fits it, whatever fails and *)
(* however jobs of tasks overtake each other on the pool.                   *)
THEOREM WhatIsAnsweredLoads ==
    ASSUME Reliable
    PROVE  Spec => AnsweredIsLoadable
  <1>1. Types /\ Inv /\ Inv' /\ PoolInv /\ CacheInv /\ [Next]_vars => CacheInv'
    BY TakeKeepsCache, WorkKeepsCache, AsideKeepsCache
  <1>2. Types /\ Inv /\ Inv' /\ PoolInv /\ CacheInv /\ [Next]_vars =>
          [\A j \in running :
             Kind(j[1]) = "load" /\ key[j] \notin Misfits /\ Result(j)' = "miss" =>
               \A t \in TaskIds : Phase(t) \in {"published", "done"} =>
                 key[j] \notin KeysWith(t, {"stored", "present", "yes", "hit"})]_vars
    BY MissIsAbsent DEF Good
  <1>. QED BY <1>1, <1>2, InitCache, SpecPool, PTL DEF Spec, AnsweredIsLoadable

-----------------------------------------------------------------------------
(* Stores and deletes by one server.                                        *)

(* LMCache lists a chunk once in a task.                                    *)
NoKeyTwice == \A keys \in KeyLists : \A i, n \in DOMAIN keys :
                 keys[i] = keys[n] => i = n

(* A job has removed its chunk from the store.                              *)
Gone(j) == request[j] = "sweep" \/ reply[j] = "removed"

(* A delete LMCache still waits for has removed chunk k.                    *)
Removed(k) == \E t \in Deleting : \E i \in DOMAIN task[t].keys :
                 task[t].keys[i] = k /\ Gone(<<t, i>>)

InStore(t) == Kind(t) = "store" /\ Phase(t) \in {"submitted", "waiting"}

(* One delete at a time, one store of a chunk at a time.                    *)
Alone ==
    /\ \A t, u \in Deleting : t = u
    /\ \A t, u \in TaskIds :
          InStore(t) /\ InStore(u) =>
             \A i \in DOMAIN task[t].keys, n \in DOMAIN task[u].keys :
                task[t].keys[i] = task[u].keys[n] => t = u

(* A job asks for what its task is for, about its own key; and a delete     *)
(* finds its chunk, measures and removes it, unless it is in doubt.         *)
OwnJob(j) ==
    /\ request[j] # "none" \/ reply[j] # "none" => key[j] = KeyOf(j)
    /\ request[j] \in {"offer", "write"} \/ reply[j] = "stored" => Kind(j[1]) = "store"
    /\ request[j] \in {"measure", "remove", "sweep"} => Kind(j[1]) = "delete"
    /\ request[j] \in {"remove", "sweep"} => found[j] \/ Doubtful(KeyOf(j))
    /\ Kind(j[1]) = "delete" =>
          /\ request[j] \in {"none", "measure", "remove", "sweep"}
          /\ reply[j] \in {"none", "removed"} \/ Doubtful(KeyOf(j))

(* A chunk that is to be deleted stays in the store until its job takes it  *)
(* out.                                                                     *)
Evicting == \A t \in Deleting : \A i \in DOMAIN task[t].keys :
               \/ task[t].keys[i] \in cached \/ Doubtful(task[t].keys[i])
               \/ Gone(<<t, i>>)

ListedThere == \A k \in listed : k \in cached \/ Doubtful(k) \/ Removed(k)

(* A chunk that is being written, or was and is not yet listed: no delete   *)
(* that could take it out again is under way, or can begin.                 *)
Writing(j) ==
    /\ Phase(j[1]) = "waiting" /\ (request[j] = "write" \/ reply[j] = "stored")
    /\ ~Doubtful(KeyOf(j))
    => /\ reply[j] = "stored" => KeyOf(j) \in cached
       /\ KeyOf(j) \in listed => Removed(KeyOf(j))
       /\ \A t \in Deleting : \A i \in DOMAIN task[t].keys :
             task[t].keys[i] = KeyOf(j) => Gone(<<t, i>>)

EvictInv ==
    /\ Alone
    /\ \A j \in Jobs : OwnJob(j)
    /\ Evicting
    /\ ListedThere
    /\ \A j \in Jobs : Writing(j)

(* Doubt about a chunk is never removed.                                    *)
LEMMA DoubtStays ==
    ASSUME TasksTyped, gaveUp \subseteq TaskIds, gaveUp \subseteq gaveUp',
           \A t \in TaskIds : Phase(t) # "none" =>
              Phase(t)' # "none" /\ Kind(t)' = Kind(t) /\ task'[t].keys = task[t].keys,
           \A j \in Jobs : reply[j] = "error" => reply'[j] = "error"
    PROVE  \A k : Doubtful(k) => Doubtful(k)'
  <1> TAKE k
  <1>1. CASE RemovalRaised(k)
    <2>1. PICK t \in Submitted : \E i \in DOMAIN task[t].keys :
             Kind(t) = "delete" /\ task[t].keys[i] = k /\ reply[<<t, i>>] = "error"
      BY <1>1 DEF RemovalRaised
    <2>2. PICK i \in DOMAIN task[t].keys :
             Kind(t) = "delete" /\ task[t].keys[i] = k /\ reply[<<t, i>>] = "error"
      BY <2>1
    <2>3. t \in TaskIds /\ Phase(t) # "none" /\ <<t, i>> \in Jobs
      BY TaskKeys DEF Submitted
    <2>4. t \in Submitted' /\ i \in DOMAIN task'[t].keys /\ Kind(t)' = "delete"
          /\ task'[t].keys[i] = k /\ reply'[<<t, i>>] = "error"
      BY <2>2, <2>3 DEF Submitted
    <2>. QED BY <2>4 DEF Doubtful, RemovalRaised
  <1>2. ASSUME NEW t \in gaveUp, NEW i \in DOMAIN task[t].keys, task[t].keys[i] = k
        PROVE  Doubtful(k)'
    <2>1. t \in TaskIds /\ t \in gaveUp'
      OBVIOUS
    <2>2. Phase(t) # "none"
      BY <1>2, <2>1 DEF TasksTyped, Phase, NoTask
    <2>3. task'[t].keys = task[t].keys
      BY <2>1, <2>2
    <2>. QED BY <1>2, <2>1, <2>3 DEF Doubtful
  <1>. QED BY <1>1, <1>2 DEF Doubtful

(* Tasks go on or are given up, and the jobs rest: whatever may happen to   *)
(* the chunks that are in doubt.                                            *)
LEMMA StoreRests ==
    ASSUME Types, PoolInv, EvictInv, UNCHANGED <<request, key, found, reply, listed>>,
           gaveUp \subseteq gaveUp',
           \A k \in cached : k \in cached' \/ Doubtful(k),
           \A t \in TaskIds : Kind(t)' = Kind(t) /\ task'[t].keys = task[t].keys,
           Deleting' \subseteq Deleting,
           \A t \in Deleting : t \in Deleting' \/ t \in gaveUp',
           \A t \in TaskIds :
              /\ InStore(t)' => InStore(t)
              /\ Phase(t) # "none" => Phase(t)' # "none"
              /\ Phase(t)' = "waiting" => Phase(t) \in {"submitted", "waiting"}
    PROVE  EvictInv'
  <1>1. Alone'
    BY DEF EvictInv, Alone
  <1>2. \A j \in Jobs : KeyOf(j)' = KeyOf(j) /\ j[1] \in TaskIds
    BY DEF KeyOf, Jobs
  <1>3. \A j : Gone(j)' <=> Gone(j)
    BY DEF Gone
  <1>4. \A t \in Deleting : t \in TaskIds
    BY DEF Deleting, Submitted
  <1>5. \A k : Doubtful(k) => Doubtful(k)'
    BY DoubtStays DEF Types, LocalTypeOK
  <1>6. \A k : Removed(k) => Removed(k)' \/ Doubtful(k)'
    <2> TAKE k
    <2>1. ASSUME NEW t \in Deleting, NEW i \in DOMAIN task[t].keys,
                 task[t].keys[i] = k, Gone(<<t, i>>)
          PROVE  Removed(k)' \/ Doubtful(k)'
      BY <1>3, <1>4, <2>1 DEF Removed, Doubtful
    <2>. QED BY <2>1 DEF Removed
  <1>7. \A j \in Jobs : OwnJob(j)'
    BY <1>2, <1>5 DEF EvictInv, OwnJob
  <1>8. Evicting'
    BY <1>3, <1>4, <1>5 DEF EvictInv, Evicting
  <1>9. ListedThere'
    BY <1>5, <1>6 DEF EvictInv, ListedThere
  <1>10. ASSUME NEW j \in Jobs
         PROVE  Writing(j)'
    <2>1. SUFFICES ASSUME Phase(j[1])' = "waiting", request[j] = "write" \/ reply[j] = "stored",
                          ~Doubtful(KeyOf(j))'
                   PROVE  /\ reply[j] = "stored" => KeyOf(j) \in cached'
                          /\ KeyOf(j) \in listed => Removed(KeyOf(j))'
                          /\ \A t \in Deleting' : \A i \in DOMAIN task[t].keys :
                                task[t].keys[i] = KeyOf(j) => Gone(<<t, i>>)
      BY <1>2, <1>3, <1>4 DEF Writing
    <2>2. Phase(j[1]) = "waiting"
      BY <1>2, <2>1 DEF PoolInv, WorkersOK, IsJob
    <2>3. ~Doubtful(KeyOf(j))
      BY <1>2, <1>5, <2>1
    <2>. QED BY <1>2, <1>6, <2>1, <2>2, <2>3 DEF EvictInv, Writing
  <1>. QED BY <1>1, <1>7, <1>8, <1>9, <1>10 DEF EvictInv

LEMMA StartKeepsEviction ==
    ASSUME Types, Inv, Inv', PoolInv, EvictInv, NEW t \in TaskIds, Start(t) \/ Finish(t)
    PROVE  EvictInv'
  <1>1. Phase(t) # "none"
    BY DEF Start, Finish, PublishAndSignal
  <1>2. \E p \in Phases \ {"none", "submitted"} :
           /\ Goto(t, p)
           /\ \/ p \in {"waiting", "lost"} /\ Phase(t) = "submitted"
              \/ p \in {"published", "done"} /\ Phase(t) \in {"resumed", "published"}
    <2>1. CASE Start(t)
      BY <2>1 DEF Start, Phases
    <2>2. CASE Finish(t)
      BY <2>2 DEF Finish, PublishAndSignal, Phases
    <2>. QED BY <2>1, <2>2
  <1>3. PICK p \in Phases \ {"none", "submitted"} :
           /\ Goto(t, p)
           /\ \/ p \in {"waiting", "lost"} /\ Phase(t) = "submitted"
              \/ p \in {"published", "done"} /\ Phase(t) \in {"resumed", "published"}
    BY <1>2
  <1>4. UNCHANGED <<cached, request, key, found, reply, listed, gaveUp>>
    BY DEF Start, Finish, clientVars, storeVars
  <1>5. /\ \A u \in TaskIds : Moved(u)
        /\ Phase(t)' = p
        /\ \A u \in TaskIds \ {t} : task'[u] = task[u]
    BY <1>1, <1>3, GotoMoves
  <1>6. \A u \in TaskIds : Kind(u)' = Kind(u) /\ task'[u].keys = task[u].keys
    BY <1>5, Moves DEF Types, Inv, Books, BooksTyped
  <1>7. p \in {"published", "done"} => Kind(t) # "delete"
    BY <1>3 DEF Inv, Books, Entries, Signalled
  <1>8. \A u \in TaskIds \ {t} : Phase(u)' = Phase(u)
    BY <1>5 DEF Phase
  <1>9. Deleting' = Deleting
    <2>1. \A u \in TaskIds : u \in Deleting' <=> u \in Deleting
      BY <1>1, <1>3, <1>4, <1>5, <1>6, <1>7, <1>8 DEF Deleting, Submitted
    <2>. QED BY <2>1 DEF Deleting, Submitted
  <1>10. \A u \in TaskIds :
            /\ InStore(u)' => InStore(u)
            /\ Phase(u) # "none" => Phase(u)' # "none"
            /\ Phase(u)' = "waiting" => Phase(u) \in {"submitted", "waiting"}
    BY <1>3, <1>5, <1>6, <1>8 DEF InStore
  <1>. QED BY <1>4, <1>6, <1>9, <1>10, StoreRests

(* Where no task goes on, and no job: writes and removals that raised land. *)
LEMMA AsideKeepsEviction ==
    ASSUME Types, PoolInv, EvictInv,
           UNCHANGED <<request, key, found, reply, task, listed, gaveUp>>,
           \A k \in cached : k \in cached' \/ Doubtful(k)
    PROVE  EvictInv'
  <1>1. \A t \in TaskIds :
           /\ Kind(t)' = Kind(t) /\ task'[t].keys = task[t].keys
           /\ InStore(t)' => InStore(t)
           /\ Phase(t)' = Phase(t)
    BY DEF Kind, InStore, Phase
  <1>2. Deleting' = Deleting
    BY DEF Deleting, Submitted, Phase, Kind
  <1>. QED BY <1>1, <1>2, StoreRests

(* The caller of delete() gives up.                                         *)
LEMMA TimeoutKeepsEviction ==
    ASSUME Types, PoolInv, EvictInv, NEW t \in TaskIds, DeleteTimesOut(t)
    PROVE  EvictInv'
  <1>1. /\ gaveUp' = gaveUp \cup {t}
        /\ UNCHANGED <<cached, request, key, found, reply, task, listed>>
    BY DEF DeleteTimesOut, storeVars
  <1>2. \A u \in TaskIds :
           /\ Kind(u)' = Kind(u) /\ task'[u].keys = task[u].keys
           /\ InStore(u)' => InStore(u)
           /\ Phase(u)' = Phase(u)
    BY <1>1 DEF Kind, InStore, Phase
  <1>3. Deleting' = Deleting \ {t}
    BY <1>1 DEF Deleting, Submitted, Phase, Kind
  <1>. QED BY <1>1, <1>2, <1>3, StoreRests

(* close() cancels what is queued, and the coroutines that wait for it.     *)
LEMMA ShutdownKeepsEviction ==
    ASSUME Types, Inv, Inv', PoolInv, EvictInv, CloseShutdown
    PROVE  EvictInv'
  <1>1. UNCHANGED <<cached, request, key, found, reply, listed, gaveUp>>
    BY DEF CloseShutdown, storeVars, clientVars
  <1>2. ASSUME NEW u \in TaskIds
        PROVE  /\ Kind(u)' = Kind(u) /\ task'[u].keys = task[u].keys
               /\ Phase(u)' = Phase(u) \/ (Phase(u) = "waiting" /\ Phase(u)' = "lost")
    <2>1. task[u] \in TaskRecords
      BY DEF Inv, Books, BooksTyped
    <2>2. \/ task'[u] = task[u]
          \/ Phase(u) = "waiting" /\ task'[u] = [task[u] EXCEPT !.phase = "lost"]
      BY DEF CloseShutdown, Cancelled
    <2>. QED BY <2>1, <2>2 DEF TaskRecords, Phase, Kind
  <1>3. Deleting' = Deleting
    <2>1. \A u \in TaskIds : u \in Deleting' <=> u \in Deleting
      BY <1>1, <1>2 DEF Deleting, Submitted
    <2>. QED BY <2>1 DEF Deleting, Submitted
  <1>4. \A u \in TaskIds :
           /\ InStore(u)' => InStore(u)
           /\ Phase(u) # "none" => Phase(u)' # "none"
           /\ Phase(u)' = "waiting" => Phase(u) \in {"submitted", "waiting"}
    BY <1>2 DEF InStore
  <1>. QED BY <1>1, <1>2, <1>3, <1>4, StoreRests

(* A store tells the listeners of what it wrote: it is still there, and no  *)
(* other store has anything to tell about the same chunk.                   *)
LEMMA ResumeKeepsEviction ==
    ASSUME Types, Inv, Inv', PoolInv, EvictInv, NEW t \in TaskIds, Resume(t)
    PROVE  EvictInv'
  <1>. DEFINE p == IF Kind(t) = "delete" THEN "returned" ELSE "resumed"
  <1>1. /\ Phase(t) = "waiting" /\ p \in Phases \ {"none", "submitted"}
        /\ p \notin {"lost", "waiting", "done"}
        /\ Goto(t, p)
        /\ UNCHANGED <<storeVars, gaveUp>>
    BY DEF Resume, clientVars, Phases
  <1>. HIDE DEF p
  <1>2. /\ \A u \in TaskIds : Moved(u)
        /\ Phase(t)' = p
        /\ \A u \in TaskIds \ {t} : task'[u] = task[u]
    BY <1>1, GotoMoves
  <1>3. \A u \in TaskIds : Kind(u)' = Kind(u) /\ task'[u].keys = task[u].keys
    BY <1>2, Moves DEF Types, Inv, Books, BooksTyped
  <1>4. \A u \in TaskIds \ {t} : Phase(u)' = Phase(u)
    BY <1>2 DEF Phase
  <1>5. Deleting' = Deleting
    <2>1. \A u \in TaskIds : u \in Deleting' <=> u \in Deleting
      BY <1>1, <1>2, <1>3, <1>4 DEF Deleting, Submitted, Phases
    <2>. QED BY <2>1 DEF Deleting, Submitted
  <1>6. /\ \A j \in Jobs : KeyOf(j)' = KeyOf(j) /\ j[1] \in TaskIds
        /\ \A j : Gone(j)' <=> Gone(j)
        /\ \A u \in Deleting : u \in TaskIds
    BY <1>1, <1>3 DEF KeyOf, Jobs, Gone, storeVars, Deleting, Submitted
  <1>7. \A k : Removed(k)' <=> Removed(k)
    BY <1>3, <1>5, <1>6 DEF Removed
  <1>a. \A k : Doubtful(k) => Doubtful(k)'
    <2>1. \A u \in TaskIds : Phase(u) # "none" => Phase(u)' # "none"
      BY <1>1, <1>2, <1>4
    <2>. QED BY <1>1, <1>3, <2>1, DoubtStays DEF Types, LocalTypeOK, storeVars
  <1>8. Alone'
    <2>1. \A u \in TaskIds : InStore(u)' => InStore(u)
      BY <1>1, <1>2, <1>3, <1>4 DEF InStore
    <2>. QED BY <1>1, <1>3, <1>5, <2>1 DEF EvictInv, Alone
  <1>9. \A j \in Jobs : OwnJob(j)'
    BY <1>1, <1>3, <1>6, <1>a DEF EvictInv, OwnJob, storeVars
  <1>10. Evicting'
    BY <1>1, <1>3, <1>5, <1>6, <1>a DEF EvictInv, Evicting, storeVars
  <1>11. ASSUME NEW k \in listed', k \notin listed
         PROVE  \E i \in DOMAIN task[t].keys :
                   /\ k = task[t].keys[i] /\ reply[<<t, i>>] = "stored"
                   /\ <<t, i>> \in Jobs /\ Kind(t) = "store"
    <2>1. Kind(t) = "store" /\ k \in KeysWith(t, {"stored"})
      BY <1>11 DEF Resume, WrittenResults
    <2>2. PICK i \in DOMAIN task[t].keys :
             k = task[t].keys[i] /\ Result(<<t, i>>) = "stored"
      BY <2>1 DEF KeysWith
    <2>3. reply[<<t, i>>] = "stored" /\ <<t, i>> \in Jobs
      BY <2>2, TaskKeys DEF Result, Types
    <2>. QED BY <2>1, <2>2, <2>3
  <1>12. ListedThere'
    <2>1. ASSUME NEW k \in listed', k \notin listed
          PROVE  k \in cached \/ Doubtful(k)
      <3>1. PICK i \in DOMAIN task[t].keys :
               /\ k = task[t].keys[i] /\ reply[<<t, i>>] = "stored"
               /\ <<t, i>> \in Jobs
        BY <1>11, <2>1
      <3>2. Writing(<<t, i>>) /\ KeyOf(<<t, i>>) = k
        BY <3>1 DEF EvictInv, KeyOf
      <3>. QED BY <1>1, <3>1, <3>2 DEF Writing
    <2>. QED BY <1>1, <1>7, <1>a, <2>1 DEF EvictInv, ListedThere, storeVars
  <1>13. ASSUME NEW j \in Jobs
         PROVE  Writing(j)'
    <2>. SUFFICES ASSUME Phase(j[1])' = "waiting", request[j] = "write" \/ reply[j] = "stored",
                         ~Doubtful(KeyOf(j))'
                  PROVE  Writing(j)'
      BY <1>1 DEF Writing, storeVars
    <2>0. ~Doubtful(KeyOf(j))
      BY <1>6, <1>a
    <2>1. j[1] # t /\ Phase(j[1]) = "waiting"
      BY <1>1, <1>2, <1>4, <1>6
    <2>2. Kind(j[1]) = "store" /\ InStore(j[1])
      BY <2>1 DEF EvictInv, OwnJob, InStore
    <2>3. j[2] \in DOMAIN task[j[1]].keys
      BY DEF PoolInv, WorkersOK, IsJob
    <2>4. KeyOf(j) \in listed' => KeyOf(j) \in listed
      <3>. SUFFICES ASSUME KeyOf(j) \in listed', KeyOf(j) \notin listed
                    PROVE  FALSE
        OBVIOUS
      <3>1. PICK i \in DOMAIN task[t].keys :
               KeyOf(j) = task[t].keys[i] /\ Kind(t) = "store"
        BY <1>11
      <3>2. InStore(t)
        BY <1>1, <3>1 DEF InStore
      <3>. QED BY <1>6, <2>1, <2>2, <2>3, <3>1, <3>2 DEF EvictInv, Alone, KeyOf
    <2>. QED BY <1>1, <1>3, <1>5, <1>6, <1>7, <2>0, <2>1, <2>4 DEF EvictInv, Writing, storeVars
  <1>. QED BY <1>8, <1>9, <1>10, <1>12, <1>13 DEF EvictInv

(* A delete has removed all its chunks, but for those in doubt, when it     *)
(* returns.                                                                 *)
LEMMA ReturnKeepsEviction ==
    ASSUME Types, Inv, Inv', PoolInv, EvictInv, NEW t \in TaskIds, DeleteReturns(t)
    PROVE  EvictInv'
  <1>1. /\ Phase(t) = "returned" /\ Kind(t) = "delete"
        /\ Goto(t, "done") /\ "done" \in Phases \ {"none", "submitted"}
        /\ listed' = listed \ KeysWith(t, {"removed"})
        /\ t \notin gaveUp /\ UNCHANGED <<storeVars, gaveUp>>
    BY DEF DeleteReturns, clientVars, Phases, Inv, Books, Entries
  <1>2. /\ \A u \in TaskIds : Moved(u)
        /\ Phase(t)' = "done"
        /\ \A u \in TaskIds \ {t} : task'[u] = task[u]
    BY <1>1, GotoMoves
  <1>3. \A u \in TaskIds : Kind(u)' = Kind(u) /\ task'[u].keys = task[u].keys
    BY <1>2, Moves DEF Types, Inv, Books, BooksTyped
  <1>4. \A u \in TaskIds \ {t} : Phase(u)' = Phase(u)
    BY <1>2 DEF Phase
  <1>5. Deleting = {t} /\ Deleting' = {}
    <2>1. t \in Deleting
      BY <1>1 DEF Deleting, Submitted
    <2>2. Deleting = {t}
      BY <2>1 DEF EvictInv, Alone
    <2>3. \A u \in Deleting' : u \in Deleting /\ u # t
      BY <1>1, <1>2, <1>3, <1>4 DEF Deleting, Submitted
    <2>. QED BY <2>2, <2>3
  <1>6. /\ \A j \in Jobs : KeyOf(j)' = KeyOf(j) /\ j[1] \in TaskIds
        /\ \A j : Gone(j)' <=> Gone(j)
    BY <1>1, <1>3 DEF KeyOf, Jobs, Gone, storeVars
  <1>a. \A k : Doubtful(k) => Doubtful(k)'
    <2>1. \A u \in TaskIds : Phase(u) # "none" => Phase(u)' # "none"
      BY <1>2, <1>4
    <2>. QED BY <1>1, <1>3, <2>1, DoubtStays DEF Types, LocalTypeOK, storeVars
  <1>7. \A i \in DOMAIN task[t].keys :
           task[t].keys[i] \notin listed' \/ Doubtful(task[t].keys[i])
    <2> TAKE i \in DOMAIN task[t].keys
    <2>. SUFFICES ASSUME ~Doubtful(task[t].keys[i])
                  PROVE  task[t].keys[i] \notin listed'
      OBVIOUS
    <2>1. <<t, i>> \in Jobs /\ <<t, i>>[1] = t
      BY TaskKeys DEF Types
    <2>2. AllResults(t) /\ i \in DOMAIN JobsOf(t)
      BY <1>1 DEF PoolInv, Ended, JobsOf
    <2>3. reply[<<t, i>>] # "none"
      BY <2>2, ResultIsReply DEF AllResults
    <2>4. reply[<<t, i>>] = "removed"
      BY <1>1, <2>1, <2>3 DEF EvictInv, OwnJob, KeyOf
    <2>5. Result(<<t, i>>) = "removed"
      BY <2>4 DEF Result
    <2>. QED BY <1>1, <2>5 DEF KeysWith
  <1>8. ASSUME NEW k \in listed', ~Doubtful(k)
        PROVE  k \in listed /\ k \in cached /\ ~Removed(k)
    <2>1. k \in listed
      BY <1>1, <1>8
    <2>2. ASSUME NEW i \in DOMAIN task[t].keys, task[t].keys[i] = k
          PROVE  FALSE
      BY <1>7, <1>8, <2>2
    <2>3. ~Removed(k)
      BY <1>5, <2>2 DEF Removed
    <2>. QED BY <1>8, <2>1, <2>3 DEF EvictInv, ListedThere
  <1>9. Alone'
    <2>1. \A u \in TaskIds : InStore(u)' => InStore(u)
      BY <1>2, <1>3, <1>4 DEF InStore
    <2>. QED BY <1>1, <1>3, <1>5, <2>1 DEF EvictInv, Alone
  <1>10. \A j \in Jobs : OwnJob(j)'
    BY <1>1, <1>3, <1>6, <1>a DEF EvictInv, OwnJob, storeVars
  <1>11. Evicting' /\ ListedThere'
    BY <1>1, <1>5, <1>8, <1>a DEF Evicting, ListedThere, storeVars
  <1>12. ASSUME NEW j \in Jobs
         PROVE  Writing(j)'
    <2>. SUFFICES ASSUME Phase(j[1])' = "waiting", request[j] = "write" \/ reply[j] = "stored",
                         ~Doubtful(KeyOf(j))'
                  PROVE  Writing(j)'
      BY <1>1 DEF Writing, storeVars
    <2>0. ~Doubtful(KeyOf(j))
      BY <1>6, <1>a
    <2>1. Phase(j[1]) = "waiting"
      BY <1>2, <1>4, <1>6
    <2>2. KeyOf(j) \notin listed'
      BY <1>8, <2>0, <2>1 DEF EvictInv, Writing
    <2>. QED BY <1>1, <1>5, <1>6, <2>0, <2>1, <2>2 DEF EvictInv, Writing, storeVars
  <1>. QED BY <1>9, <1>10, <1>11, <1>12 DEF EvictInv

(* A delete begins when no other is under way, with chunks that are listed, *)
(* and a store when no other is about to write its chunks.                  *)
LEMMA SubmitKeepsEviction ==
    ASSUME ~Overlap, Types, Inv, PoolInv, EvictInv,
           NEW kind \in Kinds, NEW keys \in KeyLists, Submit(kind, keys)
    PROVE  EvictInv'
  <1>. DEFINE fresh == [kind |-> kind, keys |-> keys, phase |-> "submitted"]
  <1>1. PICK n \in Nat : Submitted = 0 .. n - 1
    BY DEF Inv, Books, Numbered
  <1>2. Cardinality(Submitted) = n
    BY <1>1, NextIdIsNew
  <1>3. /\ n \in TaskIds /\ task' = [task EXCEPT ![n] = fresh]
        /\ kind = "delete" =>
              Deleting = {} /\ \A i \in DOMAIN keys : keys[i] \in listed
        /\ kind = "store" => \A i \in DOMAIN keys : ~Storing(keys[i])
        /\ UNCHANGED <<storeVars, gaveUp, listed>>
    BY <1>2 DEF Submit, clientVars
  <1>4. Phase(n) = "none"
    BY <1>1, <1>3 DEF Submitted
  <1>5. task'[n] = fresh /\ \A t \in TaskIds \ {n} : task'[t] = task[t]
    BY <1>3 DEF Types, TasksTyped
  <1>6. /\ Phase(n)' = "submitted" /\ Kind(n)' = kind /\ task'[n].keys = keys
        /\ \A t \in TaskIds \ {n} : /\ Phase(t)' = Phase(t) /\ Kind(t)' = Kind(t)
                                    /\ InStore(t)' <=> InStore(t)
    BY <1>5 DEF Phase, Kind, InStore
  <1>. HIDE DEF fresh
  <1>7. \A j \in Jobs : request[j] # "none" \/ reply[j] # "none" => j[1] # n
    BY <1>4 DEF PoolInv, WorkersOK, IsJob
  <1>8. \A j \in Jobs : /\ j[1] \in TaskIds
                        /\ j[1] # n => KeyOf(j)' = KeyOf(j) /\ Kind(j[1])' = Kind(j[1])
                                       /\ Phase(j[1])' = Phase(j[1])
    BY <1>5, <1>6 DEF KeyOf, Jobs
  <1>9. \A j : Gone(j)' <=> Gone(j)
    BY <1>3 DEF Gone, storeVars
  <1>10. /\ kind # "delete" => Deleting' = Deleting
         /\ kind = "delete" => Deleting' \subseteq {n}
         /\ \A t \in Deleting : t \in TaskIds /\ t # n
    <2>1. \A t \in TaskIds \ {n} : t \in Deleting' <=> t \in Deleting
      BY <1>3, <1>6 DEF Deleting, Submitted
    <2>2. n \notin Deleting /\ (n \in Deleting' => kind = "delete")
      BY <1>3, <1>4, <1>6 DEF Deleting, Submitted
    <2>3. Deleting \subseteq TaskIds /\ Deleting' \subseteq TaskIds
      BY DEF Deleting, Submitted
    <2>4. kind # "delete" => Deleting' = Deleting
      BY <2>1, <2>2, <2>3
    <2>5. kind = "delete" => Deleting' \subseteq {n}
      BY <1>3, <2>1, <2>2, <2>3
    <2>. QED BY <2>2, <2>3, <2>4, <2>5
  <1>11. \A k : Removed(k)' <=> Removed(k)
    <2> TAKE k
    <2>1. CASE kind # "delete"
      BY <1>5, <1>9, <1>10, <2>1 DEF Removed
    <2>2. CASE kind = "delete"
      <3>1. ~Removed(k)
        BY <1>3, <2>2 DEF Removed
      <3>2. \A i \in DOMAIN keys : <<n, i>> \in Jobs
        BY <1>3, KeyListsAssumption DEF Jobs
      <3>3. \A i \in DOMAIN keys : ~Gone(<<n, i>>)
        BY <1>7, <3>2 DEF Gone
      <3>. QED BY <1>6, <1>9, <1>10, <2>2, <3>1, <3>3 DEF Removed
    <2>. QED BY <2>1, <2>2
  <1>a. \A k : Doubtful(k) => Doubtful(k)'
    BY <1>3, <1>4, <1>5, <1>6, DoubtStays DEF Types, LocalTypeOK, storeVars
  <1>12. Alone'
    <2>3. \A t, u \in Deleting' : t = u
      BY <1>10 DEF EvictInv, Alone
    <2>4. ASSUME NEW u \in TaskIds, u # n, InStore(n)', InStore(u)',
                 NEW i \in DOMAIN task'[n].keys, NEW m \in DOMAIN task'[u].keys,
                 task'[n].keys[i] = task'[u].keys[m]
          PROVE  FALSE
      <3>1. kind = "store" /\ i \in DOMAIN keys /\ keys[i] = task[u].keys[m]
            /\ InStore(u) /\ m \in DOMAIN task[u].keys
        BY <1>5, <1>6, <2>4 DEF InStore
      <3>2. Storing(keys[i])
        BY <3>1 DEF Storing, InStore
      <3>. QED BY <1>3, <3>1, <3>2
    <2>5. ASSUME NEW t \in TaskIds, NEW u \in TaskIds, InStore(t)', InStore(u)',
                 NEW i \in DOMAIN task'[t].keys, NEW m \in DOMAIN task'[u].keys,
                 task'[t].keys[i] = task'[u].keys[m]
          PROVE  t = u
      <3>1. CASE t # n /\ u # n
        BY <1>5, <1>6, <2>5, <3>1 DEF EvictInv, Alone
      <3>2. CASE t = n
        BY <2>4, <2>5, <3>2
      <3>3. CASE u = n
        BY <2>4, <2>5, <3>3
      <3>. QED BY <3>1, <3>2, <3>3
    <2>. QED BY <2>3, <2>5 DEF Alone
  <1>13. \A j \in Jobs : OwnJob(j)'
    <2> TAKE j \in Jobs
    <2>1. CASE j[1] = n
      BY <1>3, <1>7, <2>1 DEF OwnJob, storeVars
    <2>2. CASE j[1] # n
      BY <1>3, <1>8, <1>a, <2>2 DEF EvictInv, OwnJob, storeVars
    <2>. QED BY <2>1, <2>2
  <1>14. Evicting'
    <2>1. CASE kind # "delete"
      <3>1. ASSUME NEW t \in Deleting', NEW i \in DOMAIN task'[t].keys
            PROVE  \/ task'[t].keys[i] \in cached \/ Doubtful(task'[t].keys[i])
                   \/ Gone(<<t, i>>)
        BY <1>5, <1>10, <2>1, <3>1 DEF EvictInv, Evicting
      <3>2. cached' = cached
        BY <1>3 DEF storeVars
      <3>. QED BY <1>9, <1>a, <3>1, <3>2 DEF Evicting
    <2>2. CASE kind = "delete"
      <3>1. \A i \in DOMAIN keys : keys[i] \in cached \/ Doubtful(keys[i])
        BY <1>3, <2>2 DEF EvictInv, ListedThere, Removed
      <3>. QED BY <1>3, <1>6, <1>10, <1>a, <2>2, <3>1 DEF Evicting, storeVars
    <2>. QED BY <2>1, <2>2
  <1>15. ListedThere'
    BY <1>3, <1>11, <1>a DEF EvictInv, ListedThere, storeVars
  <1>16. ASSUME NEW j \in Jobs
         PROVE  Writing(j)'
    <2>. SUFFICES ASSUME Phase(j[1])' = "waiting", request[j] = "write" \/ reply[j] = "stored",
                         ~Doubtful(KeyOf(j))'
                  PROVE  Writing(j)'
      BY <1>3 DEF Writing, storeVars
    <2>1. j[1] # n
      BY <1>7
    <2>2. Phase(j[1]) = "waiting" /\ KeyOf(j)' = KeyOf(j) /\ ~Doubtful(KeyOf(j))
      BY <1>8, <1>a, <2>1
    <2>3. /\ reply[j] = "stored" => KeyOf(j) \in cached
          /\ KeyOf(j) \in listed => Removed(KeyOf(j))
          /\ \A t \in Deleting : \A i \in DOMAIN task[t].keys :
                task[t].keys[i] = KeyOf(j) => Gone(<<t, i>>)
      BY <2>2 DEF EvictInv, Writing
    <2>4. ASSUME NEW t \in Deleting', NEW i \in DOMAIN task'[t].keys,
                 task'[t].keys[i] = KeyOf(j)
          PROVE  Gone(<<t, i>>)
      <3>1. CASE kind # "delete"
        BY <1>5, <1>10, <2>3, <2>4, <3>1
      <3>2. CASE kind = "delete"
        <4>1. KeyOf(j) \in listed
          BY <1>3, <1>6, <1>10, <2>4, <3>2
        <4>. QED BY <1>3, <2>3, <3>2, <4>1 DEF Removed
      <3>. QED BY <3>1, <3>2
    <2>. QED BY <1>3, <1>9, <1>11, <2>2, <2>3, <2>4 DEF Writing, storeVars
  <1>. QED BY <1>12, <1>13, <1>14, <1>15, <1>16 DEF EvictInv

(* A thread begins with a job: it has not removed or written anything yet.  *)
LEMMA TakeKeepsEviction ==
    ASSUME Types, PoolInv, EvictInv, TakeJob
    PROVE  EvictInv'
  <1>1. /\ queue # <<>> /\ queue \in Seq(Jobs)
        /\ StoreTypeOK /\ TasksTyped
    BY DEF TakeJob, Types, LocalTypeOK
  <1>2. 1 \in DOMAIN queue /\ Head(queue) = queue[1]
    BY <1>1, EmptySeq
  <1>3. PICK j \in Jobs :
          /\ IsJob(j) /\ request[j] = "none" /\ reply[j] = "none"
          /\ UNCHANGED <<task, listed, gaveUp>>
          /\ Store!Begin(j, RequestOf[Kind(j[1])], KeyOf(j))
    BY <1>2 DEF PoolInv, QueueOK, IsJob, TakeJob, clientVars
  <1>4. /\ RequestOf[Kind(j[1])] \in {"offer", "ask", "fetch", "measure"}
        /\ RequestOf[Kind(j[1])] = "offer" => Kind(j[1]) = "store"
        /\ RequestOf[Kind(j[1])] = "measure" <=> Kind(j[1]) = "delete"
    <2>1. j[1] \in TaskIds /\ Phase(j[1]) # "none"
      BY <1>3 DEF IsJob, Jobs
    <2>2. Kind(j[1]) \in TaskKinds
      BY <1>1, <2>1, TaskKeys
    <2>. QED BY <2>2 DEF RequestOf, TaskKinds
  <1>. DEFINE r == RequestOf[Kind(j[1])]
              own == KeyOf(j)
  <1>5. /\ Store!Begin(j, r, own) /\ r \in {"offer", "ask", "fetch", "measure"}
        /\ r = "offer" => Kind(j[1]) = "store"
        /\ r = "measure" <=> Kind(j[1]) = "delete"
        /\ own = KeyOf(j)
    BY <1>3, <1>4
  <1>. HIDE DEF r, own
  <1>6. /\ request'[j] = r /\ key'[j] = own /\ reply' = reply
        /\ UNCHANGED <<cached, inDoubt, found>>
        /\ \A k \in Jobs \ {j} : request'[k] = request[k] /\ key'[k] = key[k]
    BY <1>1, <1>3, <1>5 DEF Store!Begin, StoreTypeOK
  <1>7. \A k \in Jobs : Gone(k)' <=> Gone(k)
    BY <1>3, <1>5, <1>6 DEF Gone
  <1>8. /\ Deleting' = Deleting
        /\ \A t : InStore(t)' = InStore(t) /\ Phase(t)' = Phase(t) /\ Kind(t)' = Kind(t)
        /\ \A k : KeyOf(k)' = KeyOf(k)
    BY <1>3 DEF Deleting, Submitted, InStore, Phase, Kind, KeyOf
  <1>9. \A t \in Deleting : \A i \in DOMAIN task[t].keys : <<t, i>> \in Jobs
    BY <1>1, TaskKeys DEF Deleting, Submitted
  <1>10. \A k : Removed(k)' <=> Removed(k)
    BY <1>3, <1>7, <1>8, <1>9 DEF Removed
  <1>a. \A k : Doubtful(k) => Doubtful(k)'
    BY <1>1, <1>3, <1>6, <1>8, DoubtStays DEF Types, LocalTypeOK
  <1>11. Alone'
    BY <1>3, <1>8 DEF EvictInv, Alone
  <1>12. \A k \in Jobs : OwnJob(k)'
    <2> TAKE k \in Jobs
    <2>1. CASE k = j
      BY <1>3, <1>5, <1>6, <1>8, <2>1 DEF OwnJob
    <2>2. CASE k # j
      BY <1>6, <1>8, <1>a, <2>2 DEF EvictInv, OwnJob
    <2>. QED BY <2>1, <2>2
  <1>13. Evicting' /\ ListedThere'
    BY <1>3, <1>6, <1>7, <1>8, <1>9, <1>10, <1>a DEF EvictInv, Evicting, ListedThere
  <1>14. \A k \in Jobs : Writing(k)'
    <2> TAKE k \in Jobs
    <2>1. CASE k = j
      BY <1>3, <1>5, <1>6, <2>1 DEF Writing
    <2>2. CASE k # j
      BY <1>3, <1>6, <1>7, <1>8, <1>9, <1>10, <1>a, <2>2 DEF EvictInv, Writing
    <2>. QED BY <2>1, <2>2
  <1>. QED BY <1>11, <1>12, <1>13, <1>14 DEF EvictInv

(* A job goes on.  If it takes a chunk out of the store that is not in      *)
(* doubt, it is the job of a delete for that chunk and has not done so      *)
(* before.                                                                  *)
LEMMA EvictionGoesOn ==
    ASSUME NoKeyTwice, Types, PoolInv, EvictInv, NEW j \in Jobs, reply[j] = "none",
           UNCHANGED <<task, listed, gaveUp, key>>,
           \A k \in Jobs \ {j} : /\ request'[k] = request[k] /\ found'[k] = found[k]
                                 /\ reply'[k] = reply[k],
           Gone(j) => Gone(j)' \/ Doubtful(KeyOf(j))',
           \A k : k \in cached /\ k \notin cached' =>
              \/ Doubtful(k)
              \/ /\ j[1] \in Deleting /\ j[2] \in DOMAIN task[j[1]].keys
                 /\ k = KeyOf(j) /\ ~Gone(j) /\ Gone(j)',
           OwnJob(j)',
           /\ Phase(j[1]) = "waiting" /\ (request'[j] = "write" \/ reply'[j] = "stored")
           /\ ~Doubtful(KeyOf(j))
           => /\ reply'[j] = "stored" => KeyOf(j) \in cached'
              /\ KeyOf(j) \in listed => Removed(KeyOf(j))
              /\ \A t \in Deleting : \A i \in DOMAIN task[t].keys :
                    task[t].keys[i] = KeyOf(j) => Gone(<<t, i>>)
    PROVE  EvictInv'
  <1>1. /\ Deleting' = Deleting
        /\ \A t : InStore(t)' = InStore(t) /\ Phase(t)' = Phase(t) /\ Kind(t)' = Kind(t)
        /\ \A k : KeyOf(k)' = KeyOf(k)
    BY DEF Deleting, Submitted, InStore, Phase, Kind, KeyOf
  <1>a. \A k : Doubtful(k) => Doubtful(k)'
    BY <1>1, DoubtStays DEF Types, LocalTypeOK
  <1>2. /\ \A k \in Jobs : Gone(k) => Gone(k)' \/ Doubtful(KeyOf(k))'
        /\ \A k \in Jobs \ {j} : Gone(k)' <=> Gone(k)
    BY DEF Gone
  <1>3. \A t \in Deleting : \A i \in DOMAIN task[t].keys :
           <<t, i>> \in Jobs /\ t \in TaskIds /\ KeyOf(<<t, i>>) = task[t].keys[i]
    BY TaskKeys DEF Deleting, Submitted, Types, KeyOf
  <1>4. \A k : Removed(k) => Removed(k)' \/ Doubtful(k)'
    <2> TAKE k
    <2>1. ASSUME NEW t \in Deleting, NEW i \in DOMAIN task[t].keys,
                 task[t].keys[i] = k, Gone(<<t, i>>)
          PROVE  Removed(k)' \/ Doubtful(k)'
      <3>1. Gone(<<t, i>>)' \/ Doubtful(k)'
        BY <1>1, <1>2, <1>3, <2>1
      <3>. QED BY <1>1, <2>1, <3>1 DEF Removed
    <2>. QED BY <2>1 DEF Removed
  <1>5. Alone'
    BY <1>1 DEF EvictInv, Alone
  <1>6. \A k \in Jobs : OwnJob(k)'
    <2> TAKE k \in Jobs
    <2>1. CASE k # j
      BY <1>1, <1>a, <2>1 DEF EvictInv, OwnJob
    <2>. QED BY <2>1
  <1>7. ASSUME NEW t \in Deleting, NEW i \in DOMAIN task[t].keys,
               task[t].keys[i] \in cached, task[t].keys[i] \notin cached',
               ~Doubtful(task[t].keys[i])
        PROVE  t = j[1] /\ i = j[2]
    <2>1. t = j[1] /\ j[2] \in DOMAIN task[j[1]].keys
      BY <1>7 DEF EvictInv, Alone
    <2>2. task[t].keys[i] = task[t].keys[j[2]]
      BY <1>7, <2>1 DEF KeyOf
    <2>3. task[t].keys \in KeyLists
      BY <1>3 DEF Deleting, Submitted, Phase, NoTask, Types, TasksTyped
    <2>. QED BY <1>7, <2>1, <2>2, <2>3 DEF NoKeyTwice
  <1>8. j = <<j[1], j[2]>>
    BY DEF Jobs
  <1>9. Evicting'
    <2>1. ASSUME NEW t \in Deleting, NEW i \in DOMAIN task[t].keys
          PROVE  \/ task[t].keys[i] \in cached' \/ Doubtful(task[t].keys[i])'
                 \/ Gone(<<t, i>>)'
      <3>1. CASE /\ task[t].keys[i] \in cached /\ task[t].keys[i] \notin cached'
                 /\ ~Doubtful(task[t].keys[i])
        BY <1>7, <1>8, <3>1
      <3>2. CASE Gone(<<t, i>>)
        BY <1>1, <1>2, <1>3, <3>2
      <3>3. \/ task[t].keys[i] \in cached \/ Doubtful(task[t].keys[i])
            \/ Gone(<<t, i>>)
        BY DEF EvictInv, Evicting
      <3>. QED BY <1>a, <3>1, <3>2, <3>3
    <2>. QED BY <1>1, <2>1 DEF Evicting
  <1>10. ListedThere'
    <2>1. ASSUME NEW k \in listed, k \in cached, k \notin cached', ~Doubtful(k)
          PROVE  Removed(k)'
      BY <1>1, <1>8, <2>1 DEF Removed, KeyOf
    <2>. QED BY <1>4, <1>a, <2>1 DEF EvictInv, ListedThere
  <1>11. ASSUME NEW k \in Jobs \ {j}
         PROVE  Writing(k)'
    <2>. SUFFICES ASSUME Phase(k[1]) = "waiting", request[k] = "write" \/ reply[k] = "stored",
                         ~Doubtful(KeyOf(k))'
                  PROVE  Writing(k)'
      BY <1>1 DEF Writing
    <2>0. ~Doubtful(KeyOf(k))
      BY <1>1, <1>a
    <2>1. /\ reply[k] = "stored" => KeyOf(k) \in cached
          /\ KeyOf(k) \in listed => Removed(KeyOf(k))
          /\ \A t \in Deleting : \A i \in DOMAIN task[t].keys :
                task[t].keys[i] = KeyOf(k) => Gone(<<t, i>>)
      BY <2>0 DEF EvictInv, Writing
    <2>2. reply[k] = "stored" => KeyOf(k) \in cached'
      <3>. SUFFICES ASSUME KeyOf(k) \in cached, KeyOf(k) \notin cached'
                    PROVE  FALSE
        BY <2>1
      <3>1. /\ j[1] \in Deleting /\ j[2] \in DOMAIN task[j[1]].keys
            /\ KeyOf(k) = KeyOf(j) /\ ~Gone(j)
        BY <2>0
      <3>. QED BY <1>8, <2>1, <3>1 DEF KeyOf
    <2>3. ASSUME NEW t \in Deleting, NEW i \in DOMAIN task[t].keys,
                 task[t].keys[i] = KeyOf(k)
          PROVE  Gone(<<t, i>>)'
      <3>1. /\ Gone(<<t, i>>) /\ <<t, i>> \in Jobs /\ KeyOf(<<t, i>>) = KeyOf(k)
        BY <1>3, <2>1, <2>3
      <3>. QED BY <1>1, <1>2, <3>1
    <2>4. KeyOf(k) \in listed => Removed(KeyOf(k))'
      BY <1>1, <1>4, <2>1
    <2>. QED BY <1>1, <2>2, <2>3, <2>4 DEF Writing
  <1>12. ASSUME Phase(j[1]) = "waiting", request'[j] = "write" \/ reply'[j] = "stored",
                ~Doubtful(KeyOf(j))'
         PROVE  /\ reply'[j] = "stored" => KeyOf(j) \in cached'
                /\ KeyOf(j) \in listed => Removed(KeyOf(j))'
                /\ \A t \in Deleting : \A i \in DOMAIN task[t].keys :
                      task[t].keys[i] = KeyOf(j) => Gone(<<t, i>>)'
    <2>1. ~Doubtful(KeyOf(j))
      BY <1>1, <1>a, <1>12
    <2>2. ASSUME NEW t \in Deleting, NEW i \in DOMAIN task[t].keys,
                 task[t].keys[i] = KeyOf(j)
          PROVE  Gone(<<t, i>>)'
      <3>1. /\ Gone(<<t, i>>) /\ <<t, i>> \in Jobs /\ KeyOf(<<t, i>>) = KeyOf(j)
        BY <1>3, <1>12, <2>1, <2>2
      <3>. QED BY <1>1, <1>2, <1>12, <3>1
    <2>. QED BY <1>1, <1>4, <1>12, <2>1, <2>2
  <1>13. Writing(j)'
    BY <1>1, <1>12 DEF Writing
  <1>. QED BY <1>5, <1>6, <1>9, <1>10, <1>11, <1>13 DEF EvictInv

LEMMA ReplyIs ==
    ASSUME StoreTypeOK, NEW j \in Jobs, NEW outcome, Store!Reply(j, outcome)
    PROVE  /\ request'[j] = "none" /\ reply'[j] = outcome /\ key' = key
           /\ \A k \in Jobs \ {j} : /\ request'[k] = request[k] /\ found'[k] = found[k]
                                    /\ reply'[k] = reply[k]
  BY DEF StoreTypeOK, Store!Reply

(* A thread goes on with a job.                                             *)
LEMMA WorkKeepsEviction ==
    ASSUME NoKeyTwice, Types, PoolInv, EvictInv, NEW j \in Jobs, Work(j)
    PROVE  EvictInv'
  <1>1. /\ Store!Answer(j) /\ UNCHANGED <<task, listed, gaveUp>>
        /\ StoreTypeOK /\ TasksTyped
    BY DEF Work, clientVars, Types
  <1>2. /\ IsJob(j) /\ reply[j] = "none" /\ request[j] # "none"
        /\ key[j] = KeyOf(j)
    BY <1>1, AnswerTyped DEF PoolInv, WorkersOK, EvictInv, OwnJob
  <1>3. /\ j = <<j[1], j[2]>> /\ j[1] \in TaskIds /\ j[2] \in DOMAIN task[j[1]].keys
        /\ Phase(j[1]) \in {"waiting", "lost"}
    <2>1. j = <<j[1], j[2]>> /\ j[1] \in TaskIds /\ j[2] \in DOMAIN task[j[1]].keys
      BY <1>2 DEF Jobs, IsJob
    <2>2. ~AllResults(j[1])
      BY <1>2, <2>1, ResultIsReply DEF AllResults, JobsOf
    <2>3. Phase(j[1]) \in Phases
      BY <1>1, <2>1 DEF TasksTyped, Phase, NoTask, Phases
    <2>. QED BY <1>2, <2>1, <2>2, <2>3 DEF PoolInv, Ended, IsJob, Phases
  <1>4. Kind(j[1]) = "delete" => j[1] \in Deleting \/ Doubtful(KeyOf(j))
    BY <1>3 DEF Deleting, Submitted, Doubtful, KeyOf
  <1>5. OwnJob(j)
    BY DEF EvictInv
  <1>6. Kind(j[1])' = Kind(j[1]) /\ KeyOf(j)' = KeyOf(j)
    BY <1>1 DEF Kind, KeyOf
  <1>a. \A k : Doubtful(k) => Doubtful(k)'
    <2>1. \A t \in TaskIds : Kind(t)' = Kind(t) /\ Phase(t)' = Phase(t)
      BY <1>1 DEF Kind, Phase
    <2>2. \A k \in Jobs : reply[k] = "error" => reply'[k] = "error"
      BY <1>1, <1>2, AnswerTyped DEF OnlyJob
    <2>. QED BY <1>1, <2>1, <2>2, DoubtStays DEF Types, LocalTypeOK
  <1>b. Doubtful(KeyOf(j)) => Doubtful(KeyOf(j))'
    BY <1>6, <1>a
  <1>7. CASE Store!Present(j) \/ Store!Tell(j) \/ Store!Hit(j) \/ Store!Miss(j)
    <2>1. PICK outcome \in {"present", "yes", "no", "hit", "miss"} : Store!Reply(j, outcome)
      BY <1>7 DEF Store!Present, Store!Tell, Store!Hit, Store!Miss
    <2>2. request[j] \in {"offer", "ask", "fetch"} /\ cached' = cached
      BY <1>7 DEF Store!Present, Store!Tell, Store!Hit, Store!Miss
    <2>3. ~Gone(j) /\ Kind(j[1]) # "delete"
      BY <1>2, <1>5, <2>2 DEF Gone, OwnJob
    <2>4. OwnJob(j)'
      BY <1>1, <1>2, <1>6, <2>1, <2>3, ReplyIs DEF OwnJob
    <2>. QED BY <1>1, <1>2, <2>1, <2>2, <2>3, <2>4, ReplyIs, EvictionGoesOn
  <1>8. CASE Store!Find(j)
    <2>1. /\ request[j] = "fetch" /\ UNCHANGED <<cached, request, key, reply>>
          /\ \A k \in Jobs \ {j} : found'[k] = found[k]
      BY <1>1, <1>8 DEF Store!Find, StoreTypeOK
    <2>2. ~Gone(j) /\ Kind(j[1]) # "delete"
      BY <1>2, <1>5, <2>1 DEF Gone, OwnJob
    <2>3. OwnJob(j)'
      BY <1>2, <1>6, <2>1, <2>2 DEF OwnJob
    <2>. QED BY <1>1, <1>2, <2>1, <2>2, <2>3, EvictionGoesOn
  <1>9. CASE Store!Lacking(j)
    <2>1. /\ request[j] = "offer" /\ KeyOf(j) \notin cached /\ request'[j] = "write"
          /\ UNCHANGED <<cached, key, found, reply>>
          /\ \A k \in Jobs \ {j} : request'[k] = request[k]
      BY <1>1, <1>2, <1>9 DEF Store!Lacking, StoreTypeOK
    <2>2. ~Gone(j) /\ Kind(j[1]) = "store"
      BY <1>2, <1>5, <2>1 DEF Gone, OwnJob
    <2>3. OwnJob(j)'
      BY <1>2, <1>6, <2>1, <2>2 DEF OwnJob
    <2>4. KeyOf(j) \in listed => Removed(KeyOf(j)) \/ Doubtful(KeyOf(j))
      BY <2>1 DEF EvictInv, ListedThere
    <2>5. \A t \in Deleting : \A i \in DOMAIN task[t].keys :
             task[t].keys[i] = KeyOf(j) => Gone(<<t, i>>) \/ Doubtful(KeyOf(j))
      BY <2>1 DEF EvictInv, Evicting
    <2>. QED BY <1>1, <1>2, <2>1, <2>2, <2>3, <2>4, <2>5, EvictionGoesOn
  <1>10. CASE Store!Commit(j)
    <2>1. /\ request[j] = "write" /\ cached' = cached \cup {KeyOf(j)}
          /\ Store!Reply(j, "stored")
      BY <1>2, <1>10 DEF Store!Commit
    <2>2. ~Gone(j) /\ Kind(j[1]) = "store"
      BY <1>2, <1>5, <2>1 DEF Gone, OwnJob
    <2>3. OwnJob(j)'
      BY <1>1, <1>2, <1>6, <2>1, <2>2, ReplyIs DEF OwnJob
    <2>4. Phase(j[1]) = "waiting" /\ ~Doubtful(KeyOf(j)) =>
             /\ KeyOf(j) \in listed => Removed(KeyOf(j))
             /\ \A t \in Deleting : \A i \in DOMAIN task[t].keys :
                   task[t].keys[i] = KeyOf(j) => Gone(<<t, i>>)
      BY <2>1 DEF EvictInv, Writing
    <2>. QED BY <1>1, <1>2, <2>1, <2>2, <2>3, <2>4, ReplyIs, EvictionGoesOn
  <1>11. ASSUME request[j] \in {"measure", "remove"}
         PROVE  /\ ~Gone(j) /\ Kind(j[1]) = "delete"
                /\ \/ Doubtful(KeyOf(j))
                   \/ j[1] \in Deleting /\ KeyOf(j) \in cached
    <2>1. ~Gone(j) /\ Kind(j[1]) = "delete"
      BY <1>2, <1>5, <1>11 DEF Gone, OwnJob
    <2>. QED BY <1>3, <1>4, <2>1 DEF EvictInv, Evicting, KeyOf
  <1>12. CASE Store!Measure(j)
    <2>1. /\ request[j] = "measure" /\ request'[j] = "remove"
          /\ UNCHANGED <<cached, key, reply>>
          /\ found'[j] = (key[j] \in cached)
          /\ \A k \in Jobs \ {j} : request'[k] = request[k] /\ found'[k] = found[k]
      BY <1>1, <1>12 DEF Store!Measure, StoreTypeOK
    <2>2. found'[j] \/ Doubtful(KeyOf(j))'
      BY <1>2, <1>11, <1>b, <2>1
    <2>3. OwnJob(j)'
      BY <1>2, <1>6, <1>11, <2>1, <2>2 DEF OwnJob
    <2>. QED BY <1>1, <1>2, <1>11, <2>1, <2>3, EvictionGoesOn
  <1>13. CASE Store!Absent(j)
    <2>1. /\ request[j] = "remove" /\ cached' = cached /\ Store!Reply(j, "absent")
          /\ Doubtful(KeyOf(j))'
      BY <1>2, <1>11, <1>13, <1>b DEF Store!Absent
    <2>2. OwnJob(j)'
      BY <1>1, <1>2, <1>6, <1>11, <2>1, ReplyIs DEF OwnJob
    <2>. QED BY <1>1, <1>2, <1>11, <2>1, <2>2, ReplyIs, EvictionGoesOn
  <1>14. CASE Store!Remove(j)
    <2>1. /\ request[j] = "remove" /\ cached' = cached \ {KeyOf(j)}
          /\ found[j] \/ Doubtful(KeyOf(j))
      BY <1>2, <1>5, <1>14 DEF Store!Remove, OwnJob
    <2>2. CASE Store!Reply(j, Store!Outcome(j))
      <3>1. PICK outcome \in {"removed", "unmeasured"} :
               /\ Store!Reply(j, outcome)
               /\ outcome = "unmeasured" => Doubtful(KeyOf(j))
        BY <2>1, <2>2 DEF Store!Outcome
      <3>2. Gone(j)' \/ Doubtful(KeyOf(j))
        BY <1>1, <3>1, ReplyIs DEF Gone
      <3>3. OwnJob(j)'
        BY <1>1, <1>2, <1>6, <1>11, <1>a, <2>1, <3>1, ReplyIs DEF OwnJob
      <3>. QED BY <1>1, <1>2, <1>3, <1>11, <2>1, <3>1, <3>2, <3>3, ReplyIs, EvictionGoesOn
    <2>3. CASE request' = [request EXCEPT ![j] = "sweep"] /\ UNCHANGED <<key, found, reply>>
      <3>1. request'[j] = "sweep" /\ \A k \in Jobs \ {j} : request'[k] = request[k]
        BY <1>1, <2>3 DEF StoreTypeOK
      <3>2. Gone(j)'
        BY <3>1 DEF Gone
      <3>3. OwnJob(j)'
        BY <1>2, <1>6, <1>11, <1>a, <2>1, <2>3, <3>1 DEF OwnJob
      <3>. QED BY <1>1, <1>2, <1>3, <1>11, <2>1, <2>3, <3>1, <3>2, <3>3, EvictionGoesOn
    <2>. QED BY <1>14, <2>2, <2>3 DEF Store!Remove
  <1>15. CASE Store!Swept(j)
    <2>1. /\ request[j] = "sweep" /\ cached' = cached /\ Kind(j[1]) = "delete"
          /\ Store!Reply(j, Store!Outcome(j)) /\ (found[j] \/ Doubtful(KeyOf(j)))
      BY <1>5, <1>15 DEF Store!Swept, OwnJob
    <2>2. PICK outcome \in {"removed", "unmeasured"} :
             /\ Store!Reply(j, outcome)
             /\ outcome = "unmeasured" => Doubtful(KeyOf(j))
      BY <2>1 DEF Store!Outcome
    <2>3. Gone(j)' \/ Doubtful(KeyOf(j))'
      BY <1>1, <1>b, <2>2, ReplyIs DEF Gone
    <2>4. OwnJob(j)'
      BY <1>1, <1>2, <1>6, <1>a, <2>1, <2>2, ReplyIs DEF OwnJob
    <2>. QED BY <1>1, <1>2, <1>6, <2>1, <2>2, <2>3, <2>4, ReplyIs, EvictionGoesOn
  <1>16. CASE Store!Abandon(j)
    <2>1. cached' = cached /\ Store!Reply(j, "error")
      BY <1>16 DEF Store!Abandon
    <2>2. reply'[j] = "error" /\ request'[j] = "none" /\ key' = key
      BY <1>1, <2>1, ReplyIs
    <2>3. Kind(j[1]) = "delete" => Doubtful(KeyOf(j))'
      <3>1. SUFFICES ASSUME Kind(j[1]) = "delete"
                     PROVE  RemovalRaised(KeyOf(j))'
        BY DEF Doubtful
      <3>2. j[1] \in Submitted'
        BY <1>1, <1>3 DEF Submitted, Phase
      <3>3. reply'[<<j[1], j[2]>>] = "error" /\ task'[j[1]].keys[j[2]] = KeyOf(j)
        BY <1>1, <1>3, <2>2 DEF KeyOf
      <3>. QED BY <1>1, <1>3, <1>6, <3>1, <3>2, <3>3 DEF RemovalRaised
    <2>4. OwnJob(j)'
      BY <1>1, <1>2, <1>6, <2>2, <2>3 DEF OwnJob
    <2>5. Gone(j) => Doubtful(KeyOf(j))'
      BY <1>2, <1>5, <2>3 DEF Gone, OwnJob
    <2>. QED BY <1>1, <1>2, <1>6, <2>1, <2>2, <2>4, <2>5, ReplyIs, EvictionGoesOn
  <1>. QED BY <1>1, <1>7, <1>8, <1>9, <1>10, <1>12, <1>13, <1>14, <1>15, <1>16
          DEF Store!Answer

LEMMA InitEviction == Init => EvictInv
  <1>. SUFFICES ASSUME Init
                PROVE  EvictInv
    OBVIOUS
  <1>1. /\ task = [t \in TaskIds |-> NoTask]
        /\ listed = {}
        /\ request = [j \in Jobs |-> "none"] /\ reply = [j \in Jobs |-> "none"]
    BY DEF Init, Store!Init
  <1>2. \A t \in TaskIds : Phase(t) = "none" /\ Kind(t) = "none"
    BY <1>1 DEF Phase, Kind, NoTask
  <1>3. Deleting = {}
    BY <1>2 DEF Deleting, Submitted
  <1>4. Alone
    BY <1>1, <1>2, <1>3 DEF Alone, InStore
  <1>5. \A j \in Jobs : OwnJob(j) /\ Writing(j)
    BY <1>1 DEF OwnJob, Writing
  <1>. QED BY <1>1, <1>3, <1>4, <1>5 DEF EvictInv, Evicting, ListedThere

LEMMA StepKeepsEviction ==
    ASSUME ~Shared, ~Overlap, NoKeyTwice,
           Types, Inv, Inv', PoolInv, EvictInv, [Next]_vars
    PROVE  EvictInv'
  <1>1. CASE Others
    <2>1. UNCHANGED <<request, key, found, reply, task, listed, gaveUp>>
      BY <1>1 DEF Others, Store!Settle, Store!Drop, clientVars
    <2>2. \A k \in cached : k \in cached' \/ Doubtful(k)
      BY <1>1 DEF Others, Store!Settle, Store!Drop, Doubtful
    <2>. QED BY <2>1, <2>2, AsideKeepsEviction
  <1>2. CASE LoopRuns \/ LoopStops \/ (\E t \in TaskIds : Query(t)) \/ PopStores
             \/ (\E q \in Signalled : Wake(q)) \/ CloseStop \/ CloseStore \/ UNCHANGED vars
    <2>1. UNCHANGED <<storeVars, task, listed, gaveUp>>
      BY <1>2 DEF LoopRuns, LoopStops, Query, PopStores, Wake, CloseStop, CloseStore,
         vars, clientVars
    <2>. QED BY <2>1, AsideKeepsEviction DEF storeVars
  <1>. QED BY <1>1, <1>2, SubmitKeepsEviction, StartKeepsEviction, ResumeKeepsEviction,
              ReturnKeepsEviction, TimeoutKeepsEviction, TakeKeepsEviction,
              WorkKeepsEviction, ShutdownKeepsEviction
          DEF Next, LoopStep, DeleteStep, CloseStep

(* Every chunk LMCache lists is in the store or being deleted, unless a     *)
(* delete of it raised or its caller gave up: whatever the number of keys,  *)
(* tasks and threads, however the jobs of stores and deletes of a chunk     *)
(* overtake each other on the pool, and whatever fails, lands late, times   *)
(* out or is cut off by close(); as long as one server writes, each chunk   *)
(* in one task at a time, and no key comes twice in a list (delete() and    *)
(* _store()).                                                               *)
THEOREM WhatIsListedIsCached ==
    ASSUME ~Shared, ~Overlap, NoKeyTwice
    PROVE  Spec => []ListedIsCached
  <1>1. EvictInv => ListedIsCached
    BY DEF EvictInv, ListedThere, Removed, ListedIsCached
  <1>2. Types /\ Inv /\ Inv' /\ PoolInv /\ EvictInv /\ [Next]_vars => EvictInv'
    BY StepKeepsEviction
  <1>. QED BY <1>1, <1>2, InitEviction, SpecPool, PTL DEF Spec

-----------------------------------------------------------------------------
(* No job is lost, and nobody waits for what is not going to happen.       *)

Queued(j) == \E n \in DOMAIN queue : queue[n] = j

(* A job a coroutine waits for is queued, at the store or answered.        *)
PlacesOK ==
    /\ \A t \in TaskIds : Phase(t) = "waiting" =>
          \A i \in DOMAIN task[t].keys :
             reply[<<t, i>>] # "none" \/ <<t, i>> \in running \/ Queued(<<t, i>>)
    /\ \A j \in running : request[j] # "none"

(* The loop ends, and a task is given up, only after close(); a poller     *)
(* asks for the tasks of its kind.                                         *)
LifeOK ==
    /\ closer = "open" => loop \in {"starting", "running"}
    /\ \A t \in TaskIds : Phase(t) = "lost" => PoolShut
    /\ \A q \in Signalled : \A t \in asking[q] : Kind(t) = q

(* The store answers when it is done, and not before.                      *)
LEMMA AnswerNow ==
    ASSUME StoreTypeOK, NEW j \in Jobs, Store!Answer(j), reply'[j] = "none"
    PROVE  request'[j] # "none"
  <1>a. /\ request \in [Jobs -> Store!Requests \cup {"none", "remove", "sweep"}]
        /\ reply \in [Jobs -> Store!Replies]
    BY DEF StoreTypeOK
  <1>1. CASE Store!Present(j) \/ Store!Tell(j) \/ Store!Hit(j) \/ Store!Miss(j)
             \/ Store!Absent(j)
    BY <1>1, <1>a DEF Store!Present, Store!Tell, Store!Hit, Store!Miss, Store!Absent,
       Store!Reply
  <1>2. CASE Store!Commit(j) \/ Store!Abandon(j)
    BY <1>2, <1>a DEF Store!Commit, Store!Abandon, Store!Reply
  <1>3. CASE Store!Lacking(j) \/ Store!Find(j) \/ Store!Measure(j)
    BY <1>3, <1>a DEF Store!Lacking, Store!Find, Store!Measure
  <1>4. CASE Store!Remove(j) \/ Store!Swept(j)
    <2>1. Store!Outcome(j) # "none"
      BY DEF Store!Outcome
    <2>. QED BY <1>4, <1>a, <2>1 DEF Store!Remove, Store!Swept, Store!Reply
  <1>. QED BY <1>1, <1>2, <1>3, <1>4 DEF Store!Answer

(* What is behind the first job of the queue moves up by one.              *)
LEMMA TailShifts ==
    ASSUME NEW S, NEW q \in Seq(S), q # <<>>
    PROVE  \A n \in DOMAIN q \ {1} : n - 1 \in DOMAIN Tail(q) /\ Tail(q)[n - 1] = q[n]
  <1>1. Len(q) \in Nat /\ Len(q) # 0 /\ DOMAIN q = 1 .. Len(q)
    BY EmptySeq
  <1>2. /\ Tail(q) \in Seq(S) /\ Len(Tail(q)) = Len(q) - 1
        /\ \A i \in 1 .. Len(Tail(q)) : Tail(q)[i] = q[i + 1]
    BY HeadTailProperties
  <1>3. DOMAIN Tail(q) = 1 .. Len(q) - 1
    BY <1>2
  <1>4. \A n \in DOMAIN q \ {1} : n - 1 \in DOMAIN Tail(q) /\ (n - 1) + 1 = n
    BY <1>1, <1>3
  <1>. QED BY <1>1, <1>2, <1>3, <1>4

(* Steps in which no job moves.                                            *)
LEMMA PlacesKept ==
    ASSUME PlacesOK, UNCHANGED <<request, reply, queue, running>>,
           \A t \in TaskIds : Phase(t)' = "waiting" =>
              Phase(t) = "waiting" /\ task'[t].keys = task[t].keys
    PROVE  PlacesOK'
  BY DEF PlacesOK, Queued

LEMMA PlacesGone ==
    ASSUME Types, Inv, PlacesOK, NEW t \in TaskIds,
           NEW p \in Phases \ {"none", "submitted", "waiting"}, Phase(t) # "none",
           Goto(t, p), UNCHANGED <<storeVars, poolVars>>
    PROVE  PlacesOK'
  <1>1. /\ Phase(t)' = p
        /\ \A u \in TaskIds \ {t} : task'[u] = task[u]
    BY GotoMoves
  <1>2. \A u \in TaskIds : Phase(u)' = "waiting" =>
           Phase(u) = "waiting" /\ task'[u].keys = task[u].keys
    BY <1>1 DEF Phase
  <1>3. UNCHANGED <<request, reply, queue, running>>
    BY DEF storeVars, poolVars
  <1>. QED BY <1>2, <1>3, PlacesKept

(* _map hands all jobs of the task to the queue.                           *)
LEMMA PlacesStarted ==
    ASSUME Types, Inv, PlacesOK, NEW t \in TaskIds, Start(t)
    PROVE  PlacesOK'
  <1>1. Phase(t) = "submitted" /\ UNCHANGED <<request, reply, running>>
    BY DEF Start, storeVars
  <1>2. TasksTyped /\ queue \in Seq(Jobs)
    BY DEF Types, LocalTypeOK
  <1>3. {"lost", "waiting"} \subseteq Phases \ {"none", "submitted"}
    BY DEF Phases
  <1>4. PICK p \in {"lost", "waiting"} :
           /\ Goto(t, p)
           /\ p = "lost" => UNCHANGED queue
           /\ p = "waiting" => queue' = queue \o JobsOf(t)
    BY DEF Start
  <1>5. /\ \A u \in TaskIds : Moved(u)
        /\ Phase(t)' = p
        /\ \A u \in TaskIds \ {t} : task'[u] = task[u]
    BY <1>1, <1>3, <1>4, GotoMoves
  <1>6. task'[t].keys = task[t].keys
    <2>1. task' \in [TaskIds -> TaskRecords]
      BY <1>4 DEF Goto, Inv, Books, BooksTyped, TaskRecords, Phases
    <2>. QED BY <1>2, <1>5, <2>1, Moves
  <1>7. CASE p = "lost"
    BY <1>1, <1>4, <1>5, <1>7, PlacesKept DEF Phase
  <1>8. CASE p = "waiting"
    <2>. DEFINE q == queue
                s == JobsOf(t)
    <2>1. /\ Len(task[t].keys) \in Nat
          /\ DOMAIN task[t].keys = 1 .. Len(task[t].keys)
          /\ \A i \in DOMAIN task[t].keys : <<t, i>> \in Jobs
      BY <1>2, TaskKeys
    <2>2. s \in Seq(Jobs) /\ Len(s) = Len(task[t].keys)
          /\ \A i \in DOMAIN task[t].keys : i \in 1 .. Len(s) /\ s[i] = <<t, i>>
      <3>. DEFINE n == Len(task[t].keys)
      <3>1. s = [i \in 1 .. n |-> <<t, i>>]
        BY <2>1 DEF JobsOf
      <3>2. n \in Nat /\ \A i \in 1 .. n : <<t, i>> \in Jobs
        BY <2>1
      <3>. HIDE DEF n, s
      <3>3. s \in [1 .. n -> Jobs]
        BY <3>1, <3>2
      <3>4. s \in Seq(Jobs) /\ Len(s) = n
        BY <3>2, <3>3
      <3>. QED BY <2>1, <3>1, <3>4 DEF n
    <2>3. q \in Seq(Jobs) /\ queue' = q \o s
      BY <1>2, <1>4, <1>8
    <2>. HIDE DEF s, q
    <2>4. /\ Len(q) \in Nat /\ Len(s) \in Nat /\ DOMAIN q = 1 .. Len(q)
          /\ DOMAIN (q \o s) = 1 .. Len(q) + Len(s)
          /\ \A n \in 1 .. Len(q) + Len(s) :
                (q \o s)[n] = IF n <= Len(q) THEN q[n] ELSE s[n - Len(q)]
      <3>1. q \in Seq(Jobs) /\ s \in Seq(Jobs)
        BY <2>2, <2>3
      <3>2. /\ q \o s \in Seq(Jobs) /\ Len(q \o s) = Len(q) + Len(s)
            /\ \A n \in 1 .. Len(q) + Len(s) :
                (q \o s)[n] = IF n <= Len(q) THEN q[n] ELSE s[n - Len(q)]
        BY <3>1, ConcatProperties, Zenon
      <3>3. DOMAIN (q \o s) = 1 .. Len(q \o s)
        BY <3>2
      <3>4. Len(q) \in Nat /\ DOMAIN q = 1 .. Len(q) /\ Len(s) \in Nat
        BY <3>1
      <3>. QED BY <3>2, <3>3, <3>4
    <2>5. \A j : Queued(j) => Queued(j)'
      <3>. SUFFICES ASSUME NEW n \in DOMAIN q
                    PROVE  n \in DOMAIN queue' /\ queue'[n] = q[n]
        BY DEF Queued, q
      <3>1. n \in 1 .. Len(q) + Len(s) /\ n <= Len(q)
        BY <2>4
      <3>. QED BY <2>3, <2>4, <3>1
    <2>6. ASSUME NEW i \in DOMAIN task[t].keys
          PROVE  Queued(<<t, i>>)'
      <3>. DEFINE n == Len(q) + i
      <3>1. i \in 1 .. Len(s) /\ s[i] = <<t, i>>
        BY <2>2
      <3>2. ASSUME NEW a \in Nat, NEW b \in Nat, NEW x \in 1 .. b
            PROVE  a + x \in 1 .. a + b /\ ~(a + x <= a) /\ (a + x) - a = x
        OBVIOUS
      <3>3. n \in 1 .. Len(q) + Len(s) /\ n - Len(q) = i /\ ~(n <= Len(q))
        BY <2>4, <3>1, <3>2
      <3>. HIDE DEF n
      <3>4. n \in DOMAIN queue' /\ queue'[n] = s[i]
        BY <2>3, <2>4, <3>3
      <3>. QED BY <3>1, <3>4 DEF Queued
    <2>7. ASSUME NEW u \in TaskIds, Phase(u)' = "waiting",
                 NEW i \in DOMAIN task'[u].keys
          PROVE  reply'[<<u, i>>] # "none" \/ <<u, i>> \in running' \/ Queued(<<u, i>>)'
      <3>1. CASE u = t
        BY <1>6, <2>6, <2>7, <3>1
      <3>2. CASE u # t
        <4>1. Phase(u) = "waiting" /\ i \in DOMAIN task[u].keys
          BY <1>5, <2>7, <3>2 DEF Phase
        <4>. QED BY <1>1, <2>5, <4>1 DEF PlacesOK
      <3>. QED BY <3>1, <3>2
    <2>. QED BY <1>1, <2>7 DEF PlacesOK
  <1>. QED BY <1>7, <1>8

(* A thread of the pool takes the first job and is at the store for it.    *)
LEMMA PlacesTaken ==
    ASSUME Types, Inv, PoolInv, PlacesOK, TakeJob
    PROVE  PlacesOK'
  <1>. DEFINE j == Head(queue)
              r == RequestOf[Kind(j[1])]
  <1>1. /\ queue # <<>> /\ queue' = Tail(queue) /\ running' = running \cup {j}
        /\ Store!Begin(j, r, KeyOf(j))
        /\ UNCHANGED task
    BY DEF TakeJob
  <1>2. queue \in Seq(Jobs) /\ StoreTypeOK /\ TasksTyped /\ running \subseteq Jobs
    BY DEF Types, LocalTypeOK
  <1>3. 1 \in DOMAIN queue /\ j = queue[1]
    <2>1. Len(queue) \in Nat /\ Len(queue) # 0 /\ DOMAIN queue = 1 .. Len(queue)
      BY <1>1, <1>2, EmptySeq
    <2>. QED BY <2>1
  <1>4. IsJob(j) /\ reply[j] = "none"
    BY <1>3 DEF PoolInv, QueueOK
  <1>5. j \in Jobs /\ r # "none"
    <2>1. j \in Jobs /\ j[1] \in TaskIds /\ Phase(j[1]) # "none"
      BY <1>4 DEF IsJob, Jobs
    <2>2. Kind(j[1]) \in TaskKinds
      BY <1>2, <2>1, TaskKeys
    <2>. QED BY <2>1, <2>2 DEF RequestOf, TaskKinds
  <1>. HIDE DEF j, r
  <1>6. /\ \A k \in Jobs \ {j} : request'[k] = request[k] /\ reply'[k] = reply[k]
        /\ request'[j] # "none"
    BY <1>1, <1>2, <1>5 DEF Store!Begin, StoreTypeOK
  <1>7. \A k : Queued(k) /\ k # j => Queued(k)'
    <2>1. \A n \in DOMAIN queue \ {1} :
             n - 1 \in DOMAIN queue' /\ queue'[n - 1] = queue[n]
      BY <1>1, <1>2, TailShifts
    <2>. QED BY <1>3, <2>1 DEF Queued
  <1>8. ASSUME NEW t \in TaskIds, Phase(t)' = "waiting", NEW i \in DOMAIN task'[t].keys
        PROVE  reply'[<<t, i>>] # "none" \/ <<t, i>> \in running' \/ Queued(<<t, i>>)'
    <2>1. Phase(t) = "waiting" /\ i \in DOMAIN task[t].keys /\ <<t, i>> \in Jobs
      BY <1>1, <1>2, <1>8, TaskKeys DEF Phase
    <2>2. CASE <<t, i>> = j
      BY <1>1, <2>2
    <2>3. CASE <<t, i>> # j
      BY <1>1, <1>6, <1>7, <2>1, <2>3 DEF PlacesOK
    <2>. QED BY <2>2, <2>3
  <1>9. \A k \in running' : request'[k] # "none"
    BY <1>1, <1>2, <1>6 DEF PlacesOK
  <1>. QED BY <1>8, <1>9 DEF PlacesOK

LEMMA PlacesWorked ==
    ASSUME Types, Inv, PoolInv, PlacesOK, NEW j \in Jobs, Work(j)
    PROVE  PlacesOK'
  <1>1. /\ Store!Answer(j) /\ StoreTypeOK /\ running \subseteq Jobs
        /\ running' = IF reply'[j] = "none" THEN running ELSE running \ {j}
        /\ UNCHANGED <<task, queue>>
    BY DEF Work, Types, LocalTypeOK
  <1>2. OnlyJob(j)
    BY <1>1, AnswerTyped
  <1>3. reply'[j] = "none" => request'[j] # "none"
    BY <1>1, AnswerNow
  <1>4. \A k \in running' : request'[k] # "none"
    BY <1>1, <1>2, <1>3 DEF PlacesOK, OnlyJob
  <1>5. ASSUME NEW t \in TaskIds, Phase(t)' = "waiting", NEW i \in DOMAIN task'[t].keys
        PROVE  reply'[<<t, i>>] # "none" \/ <<t, i>> \in running' \/ Queued(<<t, i>>)'
    <2>1. Phase(t) = "waiting" /\ i \in DOMAIN task[t].keys /\ <<t, i>> \in Jobs
      BY <1>1, <1>5, TaskKeys DEF Phase, Types
    <2>2. reply[<<t, i>>] # "none" \/ <<t, i>> \in running \/ Queued(<<t, i>>)
      BY <2>1 DEF PlacesOK
    <2>3. Queued(<<t, i>>) => Queued(<<t, i>>)'
      BY <1>1 DEF Queued
    <2>4. CASE <<t, i>> = j
      <3>1. reply[j] = "none"
        BY <1>1, AnswerTyped DEF PoolInv, WorkersOK
      <3>. QED BY <1>1, <2>2, <2>3, <2>4, <3>1
    <2>5. CASE <<t, i>> # j
      BY <1>1, <1>2, <2>1, <2>2, <2>3, <2>5 DEF OnlyJob
    <2>. QED BY <2>4, <2>5
  <1>. QED BY <1>4, <1>5 DEF PlacesOK

(* What close() cancels in the queue nobody waits for any more.            *)
LEMMA PlacesCancelled ==
    ASSUME Types, Inv, PlacesOK, CloseShutdown
    PROVE  PlacesOK'
  <1>1. UNCHANGED <<request, reply, running>>
    BY DEF CloseShutdown, storeVars
  <1>2. \A t \in TaskIds :
           task'[t] = IF Cancelled(t) THEN [task[t] EXCEPT !.phase = "lost"] ELSE task[t]
    BY DEF CloseShutdown
  <1>3. task \in [TaskIds -> TaskRecords]
    BY DEF Inv, Books, BooksTyped
  <1>4. ASSUME NEW t \in TaskIds, Phase(t)' = "waiting", NEW i \in DOMAIN task'[t].keys
        PROVE  reply[<<t, i>>] # "none" \/ <<t, i>> \in running
    <2>1. ~Cancelled(t)
      BY <1>2, <1>3, <1>4 DEF Phase, TaskRecords
    <2>2. Phase(t) = "waiting" /\ i \in DOMAIN task[t].keys
      BY <1>2, <1>4, <2>1 DEF Phase
    <2>3. ~Queued(<<t, i>>)
      BY <2>1, <2>2 DEF Cancelled, Queued
    <2>. QED BY <2>2, <2>3 DEF PlacesOK
  <1>. QED BY <1>1, <1>4 DEF PlacesOK

LEMMA PlacesStep == Types /\ Inv /\ PoolInv /\ PlacesOK /\ [Next]_vars => PlacesOK'
  <1>. SUFFICES ASSUME Types, Inv, PoolInv, PlacesOK, [Next]_vars
                PROVE  PlacesOK'
    OBVIOUS
  <1>1. ASSUME UNCHANGED <<task, storeVars, poolVars>>
        PROVE  PlacesOK'
    BY <1>1, PlacesKept DEF Phase, storeVars, poolVars
  <1>2. ASSUME NEW kind \in Kinds, NEW keys \in KeyLists, Submit(kind, keys)
        PROVE  PlacesOK'
    <2>. DEFINE fresh == [kind |-> kind, keys |-> keys, phase |-> "submitted"]
    <2>1. PICK t \in TaskIds : task' = [task EXCEPT ![t] = fresh]
      BY <1>2 DEF Submit
    <2>2. task'[t] = fresh /\ \A u \in TaskIds \ {t} : task'[u] = task[u]
      BY <2>1 DEF Types, TasksTyped
    <2>3. \A u \in TaskIds : Phase(u)' = "waiting" =>
             Phase(u) = "waiting" /\ task'[u].keys = task[u].keys
      BY <2>2 DEF Phase
    <2>. QED BY <1>2, <2>3, PlacesKept DEF Submit, storeVars, poolVars
  <1>3. ASSUME NEW t \in TaskIds, Resume(t) \/ Finish(t) \/ DeleteReturns(t)
        PROVE  PlacesOK'
    <2>1. /\ UNCHANGED <<storeVars, poolVars>> /\ Phase(t) # "none"
          /\ \E p \in {"returned", "resumed", "published", "done"} : Goto(t, p)
      BY <1>3 DEF Resume, Finish, PublishAndSignal, DeleteReturns
    <2>. QED BY <2>1, PlacesGone DEF Phases
  <1>4. ASSUME NEW t \in TaskIds, DeleteTimesOut(t) \/ Query(t)
        PROVE  PlacesOK'
    BY <1>1, <1>4 DEF DeleteTimesOut, Query
  <1>5. CASE \/ LoopRuns \/ LoopStops \/ PopStores \/ CloseStop \/ CloseStore
             \/ UNCHANGED vars \/ \E q \in Signalled : Wake(q)
    BY <1>1, <1>5 DEF LoopRuns, LoopStops, PopStores, CloseStop, CloseStore, vars, Wake
  <1>6. CASE Others
    BY <1>6, PlacesKept DEF Others, Store!Settle, Store!Drop, Phase, poolVars
  <1>. QED BY <1>2, <1>3, <1>4, <1>5, <1>6, PlacesStarted, PlacesTaken, PlacesWorked,
              PlacesCancelled DEF Next, LoopStep, DeleteStep, CloseStep

LEMMA LifeStep == Types /\ Inv /\ LifeOK /\ [Next]_vars => LifeOK'
  <1>. SUFFICES ASSUME Types, Inv, LifeOK, [Next]_vars
                PROVE  LifeOK'
    OBVIOUS
  <1>a. task \in [TaskIds -> TaskRecords] /\ asking \in [Signalled -> SUBSET TaskIds]
    BY DEF Inv, Books, BooksTyped
  <1>1. ASSUME closer' = "open" => closer = "open" /\ loop' \in {loop, "running"},
               PoolShut => PoolShut',
               \A t \in TaskIds : Phase(t)' = "lost" => Phase(t) = "lost" \/ PoolShut',
               \A t \in TaskIds : Kind(t) \in Signalled => Kind(t)' = Kind(t),
               \A q \in Signalled : asking'[q] \subseteq asking[q]
        PROVE  LifeOK'
    <2>1. \A q \in Signalled : \A t \in asking'[q] : Kind(t)' = q
      BY <1>a, <1>1 DEF LifeOK
    <2>. QED BY <1>1, <2>1 DEF LifeOK
  <1>2. ASSUME NEW t \in TaskIds, NEW p \in Phases, Goto(t, p), p = "lost" => PoolShut,
               UNCHANGED <<loop, asking, closer>>
        PROVE  LifeOK'
    <2>1. \A u \in TaskIds : /\ Kind(u)' = Kind(u)
                             /\ Phase(u)' = "lost" => Phase(u) = "lost" \/ p = "lost"
      BY <1>a, <1>2 DEF Goto, Kind, Phase, TaskRecords
    <2>2. PoolShut' <=> PoolShut
      BY <1>2 DEF PoolShut
    <2>. QED BY <1>1, <1>2, <2>1, <2>2
  <1>3. ASSUME UNCHANGED task, \A q \in Signalled : asking'[q] \subseteq asking[q],
               PoolShut => PoolShut',
               closer' = "open" => closer = "open" /\ loop' \in {loop, "running"}
        PROVE  LifeOK'
    BY <1>1, <1>3 DEF Phase, Kind
  <1>4. ASSUME NEW kind \in Kinds, NEW keys \in KeyLists, Submit(kind, keys)
        PROVE  LifeOK'
    <2>. DEFINE fresh == [kind |-> kind, keys |-> keys, phase |-> "submitted"]
    <2>1. PICK n \in Nat : Submitted = 0 .. n - 1
      BY DEF Inv, Books, Numbered
    <2>2. n \in TaskIds /\ task' = [task EXCEPT ![n] = fresh]
          /\ UNCHANGED <<loop, asking, closer>>
      BY <1>4, <2>1, NextIdIsNew DEF Submit, clientVars
    <2>3. Phase(n) = "none"
      BY <2>1, <2>2 DEF Submitted
    <2>4. Kind(n) \notin Signalled
      BY <2>2, <2>3 DEF Types, TasksTyped, NoTask, Phase, Kind, Signalled, TaskKinds
    <2>5. task'[n] = fresh /\ \A u \in TaskIds \ {n} : task'[u] = task[u]
      BY <1>a, <2>2
    <2>6. \A u \in TaskIds : Phase(u)' = "lost" => Phase(u) = "lost"
      BY <2>5 DEF Phase
    <2>7. \A u \in TaskIds : Kind(u) \in Signalled => Kind(u)' = Kind(u)
      BY <2>4, <2>5 DEF Kind
    <2>8. PoolShut' <=> PoolShut
      BY <2>2 DEF PoolShut
    <2>. QED BY <1>1, <2>2, <2>6, <2>7, <2>8
  <1>5. ASSUME NEW t \in TaskIds, LoopStep(t) \/ DeleteReturns(t)
        PROVE  LifeOK'
    <2>1. UNCHANGED <<loop, asking, closer>>
      BY <1>5 DEF LoopStep, Start, Resume, Finish, DeleteReturns, clientVars
    <2>2. PICK p \in Phases : Goto(t, p) /\ (p = "lost" => PoolShut)
      BY <1>5 DEF LoopStep, Start, Resume, Finish, PublishAndSignal, DeleteReturns, Phases
    <2>. QED BY <1>2, <2>1, <2>2
  <1>6. ASSUME NEW t \in TaskIds, DeleteTimesOut(t) \/ Query(t)
        PROVE  LifeOK'
    <2>1. UNCHANGED <<task, loop, closer>>
      BY <1>6 DEF DeleteTimesOut, Query
    <2>2. \A q \in Signalled : asking'[q] \subseteq asking[q]
      BY <1>a, <1>6 DEF DeleteTimesOut, Query
    <2>. QED BY <1>3, <2>1, <2>2 DEF PoolShut
  <1>7. ASSUME NEW q \in Signalled, Wake(q)
        PROVE  LifeOK'
    <2>1. UNCHANGED <<task, loop, closer>>
          /\ asking' = [asking EXCEPT ![q] = Outstanding(q)]
      BY <1>7 DEF Wake
    <2>2. \A r \in Signalled : \A t \in asking'[r] : Kind(t)' = r
      BY <1>a, <2>1 DEF Outstanding, Kind, LifeOK
    <2>. QED BY <2>1, <2>2 DEF LifeOK, Phase, PoolShut
  <1>8. CASE PopStores
    <2>1. UNCHANGED <<task, loop, closer>> /\ asking' = [asking EXCEPT !["store"] = {}]
      BY <1>8 DEF PopStores
    <2>2. \A q \in Signalled : asking'[q] \subseteq asking[q]
      BY <1>a, <2>1
    <2>. QED BY <1>3, <2>1, <2>2 DEF PoolShut
  <1>9. CASE LoopRuns \/ LoopStops
    <2>1. UNCHANGED <<task, asking, closer>>
          /\ (closer = "open" => loop' \in {loop, "running"})
      BY <1>9 DEF LoopRuns, LoopStops, clientVars, LifeOK
    <2>. QED BY <1>3, <2>1 DEF PoolShut
  <1>10. CASE CloseStop \/ CloseStore
    BY <1>3, <1>10 DEF CloseStop, CloseStore, clientVars, PoolShut
  <1>11. CASE CloseShutdown
    <2>1. closer' = "draining" /\ UNCHANGED asking
      BY <1>11 DEF CloseShutdown, clientVars
    <2>2. \A t \in TaskIds : Kind(t)' = Kind(t)
      BY <1>a, <1>11 DEF CloseShutdown, Kind, TaskRecords
    <2>. QED BY <1>1, <2>1, <2>2 DEF PoolShut
  <1>12. CASE TakeJob \/ (\E j \in Jobs : Work(j)) \/ Others \/ UNCHANGED vars
    <2>1. UNCHANGED <<task, asking, loop, closer>>
      BY <1>12 DEF TakeJob, Work, Others, vars, clientVars
    <2>. QED BY <1>3, <2>1 DEF PoolShut
  <1>. QED BY <1>4, <1>5, <1>6, <1>7, <1>8, <1>9, <1>10, <1>11, <1>12
         DEF Next, DeleteStep, CloseStep

LEMMA InitPlaces == Init => PlacesOK /\ LifeOK
  <1>. SUFFICES ASSUME Init
                PROVE  PlacesOK /\ LifeOK
    OBVIOUS
  <1>1. \A t \in TaskIds : Phase(t) = "none"
    BY DEF Init, Phase, NoTask
  <1>. QED BY <1>1 DEF Init, PlacesOK, LifeOK

LEMMA SpecPlaces == Spec => [](Types /\ Inv /\ PoolInv /\ PlacesOK /\ LifeOK)
  <1>. QED BY InitPlaces, PlacesStep, LifeStep, SpecPool, PTL DEF Spec

(* Every job a coroutine waits for is once in the queue, with one thread    *)
(* that is at the store for it, or answered, also when close() cancels part *)
(* of the queue; and a published result is in the dictionary of its kind    *)
(* until LMCache fetches it, and never in both places: for any number of    *)
(* tasks and threads (_map, pop_completed_store_tasks, close).              *)
THEOREM ResultsAreNotLost == Spec => []NoResultLost
  <1>1. ASSUME Types, PoolInv, PlacesOK
        PROVE  JobsAccounted
    <2>1. ASSUME NEW t \in TaskIds, Phase(t) = "waiting",
                 NEW j \in {<<t, i>> : i \in DOMAIN task[t].keys}
          PROVE  \/ Queued(j) /\ j \notin running /\ reply[j] = "none"
                 \/ j \in running /\ ~Queued(j) /\ reply[j] = "none"
                 \/ reply[j] # "none" /\ ~Queued(j) /\ j \notin running
      <3>1. reply[j] # "none" \/ j \in running \/ Queued(j)
        BY <1>1, <2>1 DEF PlacesOK
      <3>2. j \in Jobs
        BY <1>1, <2>1, TaskKeys DEF Types
      <3>3. Queued(j) => request[j] = "none" /\ reply[j] = "none"
        BY <1>1 DEF PoolInv, QueueOK, Queued
      <3>4. j \in running => request[j] # "none" /\ reply[j] = "none"
        BY <1>1, <3>2 DEF PlacesOK, PoolInv, WorkersOK
      <3>. QED BY <3>1, <3>3, <3>4
    <2>. QED BY <1>1, <2>1 DEF JobsAccounted, PoolInv, QueueOK, PlacesOK, Queued
  <1>2. Types /\ Inv /\ PoolInv /\ PlacesOK /\ LifeOK => NoResultLost
    BY <1>1 DEF NoResultLost, Inv
  <1>. QED BY <1>2, SpecPlaces, PTL

(* Until it is closed LMCache waits for results; the callers of delete()    *)
(* and of close() wait in any case.                                         *)
Pending ==
    \/ closer = "open" /\ \E t \in Submitted \ fetched : Kind(t) # "delete"
    \/ Deleting # {}
    \/ closer \in {"joining", "draining"}

(* What can be done next: by the loop, by a thread of the pool, by a poller *)
(* of LMCache, by the callers of delete() and close().                      *)
CanGoOn ==
    \/ loop = "starting"
    \/ LoopFree /\ \E t \in TaskIds :
          Phase(t) = "submitted" \/ (Phase(t) = "waiting" /\ AllResults(t))
    \/ LoopAlive /\ \E t \in TaskIds : Phase(t) \in {"resumed", "published"}
    \/ queue # <<>> /\ Cardinality(running) < MaxWorkers
    \/ \E j \in running : request[j] # "none"
    \/ \E q \in Signalled : efd[q] /\ asking[q] = {}
    \/ \E t \in TaskIds : Kind(t) \in Signalled /\ t \in asking[Kind(t)]
    \/ \E t \in Deleting : Phase(t) = "returned" \/ SixtySecondsPass
    \/ closer = "joining" /\ Joined
    \/ closer = "draining" /\ Drained

(* No deadlock: while LMCache waits for a result, for delete() or for       *)
(* close(), somebody has what it waits for, also while the loop, the pool   *)
(* and the pollers are all asleep but one.                                  *)
SomeoneCanGoOn == Pending => CanGoOn

(* With work in the queue a thread of the pool can go on, one that is at a *)
(* job or one that is free.                                                *)
LEMMA PoolGoesOn ==
    ASSUME PlacesOK, queue # <<>> \/ running # {}
    PROVE  CanGoOn
  <1>1. CASE running # {}
    BY <1>1 DEF PlacesOK, CanGoOn
  <1>2. CASE running = {} /\ queue # <<>>
    <2>1. Cardinality(running) < MaxWorkers
      BY <1>2, FS_EmptySet, PoolAssumption
    <2>. QED BY <1>2, <2>1 DEF CanGoOn
  <1>. QED BY <1>1, <1>2

(* A task that is not published waits for the loop or for the pool.        *)
LEMMA TaskGoesOn ==
    ASSUME PlacesOK, LifeOK, closer = "open", NEW t \in TaskIds,
           Phase(t) \in {"submitted", "waiting", "resumed", "published"}
    PROVE  CanGoOn
  <1>1. CASE loop = "starting"
    BY <1>1 DEF CanGoOn
  <1>2. CASE LoopAlive /\ \E u \in TaskIds : Phase(u) \in {"resumed", "published"}
    BY <1>2 DEF CanGoOn
  <1>3. CASE LoopAlive /\ \A u \in TaskIds : Phase(u) \notin {"resumed", "published"}
    <2>1. LoopFree /\ Phase(t) \in {"submitted", "waiting"}
      BY <1>3 DEF LoopFree
    <2>2. CASE Phase(t) = "submitted" \/ AllResults(t)
      BY <2>1, <2>2 DEF CanGoOn
    <2>3. CASE Phase(t) = "waiting" /\ ~AllResults(t)
      <3>1. PICK i \in DOMAIN task[t].keys : reply[<<t, i>>] = "none"
        BY <2>3, ResultIsReply DEF AllResults, JobsOf
      <3>2. <<t, i>> \in running \/ Queued(<<t, i>>)
        BY <2>3, <3>1 DEF PlacesOK
      <3>3. running # {} \/ queue # <<>>
        BY <3>2, EmptySeq DEF Queued
      <3>. QED BY <3>3, PoolGoesOn
    <2>. QED BY <2>1, <2>2, <2>3
  <1>4. LoopAlive \/ loop = "starting"
    BY DEF LifeOK, LoopAlive
  <1>. QED BY <1>1, <1>2, <1>3, <1>4

(* A result that is not fetched wakes a poller.                            *)
LEMMA PollerGoesOn ==
    ASSUME Inv, PlacesOK, LifeOK, closer = "open", NEW t \in TaskIds,
           Phase(t) = "done", Kind(t) \in Signalled, t \notin fetched
    PROVE  CanGoOn
  <1>. DEFINE q == Kind(t)
  <1>1. t \in completed[q]
    BY DEF Inv, ResultsKept, Signalled
  <1>2. CASE asking[q] # {}
    <2>1. PICK u \in asking[q] : TRUE
      BY <1>2
    <2>2. u \in TaskIds /\ Kind(u) = q
      BY DEF LifeOK, Inv, Books, BooksTyped
    <2>. QED BY <2>1, <2>2 DEF CanGoOn
  <1>3. CASE efd[q] /\ asking[q] = {}
    BY <1>3 DEF CanGoOn
  <1>4. CASE \E u \in TaskIds : Kind(u) = q /\ Phase(u) = "published"
    BY <1>4, TaskGoesOn
  <1>5. efd[q] \/ t \in asking[q] \/ \E u \in TaskIds : Kind(u) = q /\ Phase(u) = "published"
    BY <1>1 DEF Inv, NoLostWakeup
  <1>. QED BY <1>2, <1>3, <1>4, <1>5

(* While LMCache waits for a result, for delete() or for close(), somebody  *)
(* has what it waits for, with any number of tasks, keys and threads: no    *)
(* job and no wake-up that it hangs on has been lost.                       *)
THEOREM NoDeadlock == Spec => []SomeoneCanGoOn
  <1>1. ASSUME Types, Inv, PoolInv, PlacesOK, LifeOK, Pending
        PROVE  CanGoOn
    <2>a. \A t \in TaskIds : Phase(t) \in Phases
      BY <1>1 DEF Inv, Books, BooksTyped, TaskRecords, Phase
    <2>1. CASE closer = "joining" \/ closer = "draining"
      <3>1. CASE closer = "joining"
        BY <3>1 DEF CanGoOn, Joined
      <3>2. CASE closer = "draining" /\ running = {}
        BY <3>2 DEF CanGoOn, Drained
      <3>3. CASE running # {}
        BY <1>1, <3>3, PoolGoesOn
      <3>. QED BY <2>1, <3>1, <3>2, <3>3
    <2>2. ASSUME NEW t \in Deleting
          PROVE  CanGoOn
      <3>1. /\ t \in TaskIds /\ Kind(t) = "delete" /\ Phase(t) \notin {"none", "done"}
            /\ t \notin gaveUp
        BY DEF Deleting, Submitted
      <3>2. Phase(t) \notin {"resumed", "published"}
        BY <1>1, <3>1 DEF Inv, Books, Entries, Signalled
      <3>3. CASE Phase(t) = "returned" \/ closer # "open"
        BY <2>2, <3>3 DEF CanGoOn, SixtySecondsPass
      <3>4. CASE Phase(t) # "returned" /\ closer = "open"
        <4>1. Phase(t) # "lost"
          BY <1>1, <3>1, <3>4 DEF LifeOK, PoolShut
        <4>2. Phase(t) \in {"submitted", "waiting"}
          BY <2>a, <3>1, <3>2, <3>4, <4>1 DEF Phases
        <4>. QED BY <1>1, <3>1, <3>4, <4>2, TaskGoesOn
      <3>. QED BY <3>3, <3>4
    <2>3. ASSUME closer = "open", NEW t \in Submitted \ fetched, Kind(t) # "delete"
          PROVE  CanGoOn
      <3>1. t \in TaskIds /\ Phase(t) # "none"
        BY <2>3 DEF Submitted
      <3>2. Kind(t) \in Signalled
        BY <1>1, <2>3, <3>1, TaskKeys DEF Types, Signalled
      <3>3. Phase(t) \notin {"lost", "returned"}
        BY <1>1, <2>3, <3>1 DEF LifeOK, PoolShut, Inv, Books, Entries
      <3>4. CASE Phase(t) = "done"
        BY <1>1, <2>3, <3>1, <3>2, <3>4, PollerGoesOn
      <3>5. CASE Phase(t) # "done"
        <4>1. Phase(t) \in {"submitted", "waiting", "resumed", "published"}
          BY <2>a, <3>1, <3>3, <3>5 DEF Phases
        <4>. QED BY <1>1, <2>3, <3>1, <4>1, TaskGoesOn
      <3>. QED BY <3>4, <3>5
    <2>. QED BY <1>1, <2>1, <2>2, <2>3 DEF Pending
  <1>2. Types /\ Inv /\ PoolInv /\ PlacesOK /\ LifeOK => SomeoneCanGoOn
    BY <1>1 DEF SomeoneCanGoOn
  <1>. QED BY <1>2, SpecPlaces, PTL

-----------------------------------------------------------------------------
(* The adapter implements TaskService: each step of a thread is a step of  *)
(* the service or none.                                                    *)

(* Only callers of delete() give up.                                       *)
GivenUpOK == \A t \in gaveUp : Kind(t) = "delete"

RefInv == Types /\ Inv /\ PoolInv /\ LifeOK /\ GivenUpOK

LEMMA StoreSame ==
    /\ Store!Init => Service!Store!Init
    /\ \A j, r, k : Store!Begin(j, r, k) => Service!Store!Begin(j, r, k)
    /\ \A j : Store!Answer(j) => Service!Store!Answer(j)
    /\ \A k : Store!Settle(k) => Service!Store!Settle(k)
    /\ \A k : Store!Drop(k) => Service!Store!Drop(k)
  <1>1. ASSUME NEW j, NEW outcome, Store!Reply(j, outcome)
        PROVE  Service!Store!Reply(j, outcome)
    BY <1>1 DEF Store!Reply, Service!Store!Reply
  <1>2. ASSUME NEW j
        PROVE  Service!Store!Outcome(j) = Store!Outcome(j)
    BY DEF Store!Outcome, Service!Store!Outcome
  <1>3. ASSUME NEW j, Store!Answer(j)
        PROVE  Service!Store!Answer(j)
    <2>1. /\ Store!Present(j) => Service!Store!Present(j)
          /\ Store!Tell(j) => Service!Store!Tell(j)
          /\ Store!Hit(j) => Service!Store!Hit(j)
          /\ Store!Miss(j) => Service!Store!Miss(j)
      BY <1>1 DEF Store!Present, Service!Store!Present, Store!Tell, Service!Store!Tell,
         Store!Hit, Service!Store!Hit, Store!Miss, Service!Store!Miss
    <2>2. /\ Store!Lacking(j) => Service!Store!Lacking(j)
          /\ Store!Commit(j) => Service!Store!Commit(j)
          /\ Store!Find(j) => Service!Store!Find(j)
          /\ Store!Abandon(j) => Service!Store!Abandon(j)
      BY <1>1 DEF Store!Lacking, Service!Store!Lacking, Store!Commit,
         Service!Store!Commit, Store!Find, Service!Store!Find, Store!Abandon,
         Service!Store!Abandon
    <2>3. /\ Store!Measure(j) => Service!Store!Measure(j)
          /\ Store!Absent(j) => Service!Store!Absent(j)
          /\ Store!Remove(j) => Service!Store!Remove(j)
          /\ Store!Swept(j) => Service!Store!Swept(j)
      BY <1>1, <1>2 DEF Store!Measure, Service!Store!Measure, Store!Absent,
         Service!Store!Absent, Store!Remove, Service!Store!Remove, Store!Swept,
         Service!Store!Swept
    <2>. QED BY <1>3, <2>1, <2>2, <2>3 DEF Store!Answer, Service!Store!Answer
  <1>4. Store!Init => Service!Store!Init
    BY DEF Store!Init, Service!Store!Init, Jobs, Service!Jobs
  <1>5. \A j, r, k : Store!Begin(j, r, k) => Service!Store!Begin(j, r, k)
    BY DEF Store!Begin, Service!Store!Begin
  <1>6. /\ \A k : Store!Settle(k) => Service!Store!Settle(k)
        /\ \A k : Store!Drop(k) => Service!Store!Drop(k)
    BY DEF Store!Settle, Service!Store!Settle, Store!Drop, Service!Store!Drop
  <1>. QED BY <1>3, <1>4, <1>5, <1>6

(* What a task is to do.                                                   *)
LEMMA AskedAt ==
    ASSUME TasksTyped, NEW t \in TaskIds
    PROVE  /\ AbstractAsked[t].kind = Kind(t) /\ AbstractAsked[t].keys = task[t].keys
           /\ AbstractState[t] = State(t)
           /\ \A outcome \in {"stored", "removed"} :
                 Service!KeysWith(t, outcome) = KeysWith(t, {outcome})
           /\ \A i : Service!KeyOf(<<t, i>>) = KeyOf(<<t, i>>)
  <1>1. /\ AbstractAsked[t].kind = Kind(t) /\ AbstractAsked[t].keys = task[t].keys
        /\ AbstractState[t] = State(t)
    BY DEF AbstractAsked, AbstractState
  <1>2. ASSUME NEW outcome \in {"stored", "removed"}
        PROVE  Service!KeysWith(t, outcome) = KeysWith(t, {outcome})
    <2>1. \A i : Result(<<t, i>>) \in {outcome} <=> reply[<<t, i>>] = outcome
      BY DEF Result
    <2>. QED BY <1>1, <2>1 DEF KeysWith, Service!KeysWith
  <1>3. \A i : Service!KeyOf(<<t, i>>) = KeyOf(<<t, i>>)
    BY <1>1 DEF KeyOf, Service!KeyOf
  <1>. QED BY <1>1, <1>2, <1>3

(* How far it is.                                                          *)
LEMMA StateIs ==
    ASSUME RefInv, NEW t \in TaskIds
    PROVE  /\ t \in gaveUp => State(t) = "given up"
           /\ t \notin gaveUp =>
                 /\ Phase(t) \in {"submitted", "waiting"} => State(t) = "pending"
                 /\ Phase(t) = "lost" => State(t) = "lost"
                 /\ Phase(t) = "none" => State(t) = "none"
                 /\ Phase(t) \in {"resumed", "returned"} => State(t) = "ready"
                 /\ Published(t) /\ ~Collected(t) => State(t) = "ready"
                 /\ Collected(t) => State(t) = "collected"
  <1>1. /\ t \in fetched => Published(t)
        /\ Collected(t) => Published(t)
    BY DEF RefInv, Inv, Books, Entries, Collected, Published
  <1>2. t \notin gaveUp /\ ~Collected(t) => State(t) = StateOf(Phase(t))
    BY DEF State
  <1>. QED BY <1>1, <1>2 DEF State, StateOf, Published

-----------------------------------------------------------------------------

(* Steps in which no task changes its state.                               *)
LEMMA SameState ==
    ASSUME UNCHANGED <<task, fetched, gaveUp>>
    PROVE  UNCHANGED <<AbstractAsked, AbstractState>>
  <1>1. \A t \in TaskIds : State(t)' = State(t) /\ Kind(t)' = Kind(t)
    BY DEF State, Collected, Phase, Kind
  <1>. QED BY <1>1 DEF AbstractAsked, AbstractState

(* Steps in which one does.                                                *)
LEMMA OneState ==
    ASSUME Types, Inv, NEW t \in TaskIds, NEW p \in Phases \ {"none", "submitted"},
           Phase(t) # "none", Goto(t, p), UNCHANGED <<fetched, gaveUp>>
    PROVE  /\ AbstractAsked' = AbstractAsked
           /\ AbstractState' = [AbstractState EXCEPT ![t] = State(t)']
           /\ Phase(t)' = p /\ Kind(t)' = Kind(t)
  <1>1. /\ \A u \in TaskIds : Moved(u)
        /\ Phase(t)' = p
        /\ \A u \in TaskIds \ {t} : task'[u] = task[u]
    BY GotoMoves
  <1>2. task' \in [TaskIds -> TaskRecords]
    BY DEF Goto, Inv, Books, BooksTyped, TaskRecords
  <1>3. \A u \in TaskIds : Kind(u)' = Kind(u) /\ task'[u].keys = task[u].keys
    BY <1>1, <1>2, Moves DEF Types
  <1>4. AbstractAsked' = AbstractAsked
    BY <1>3 DEF AbstractAsked
  <1>5. \A u \in TaskIds \ {t} : State(u)' = State(u)
    BY <1>1 DEF State, Collected, Phase, Kind
  <1>6. AbstractState' = [AbstractState EXCEPT ![t] = State(t)']
    BY <1>5 DEF AbstractState
  <1>. QED BY <1>1, <1>3, <1>4, <1>6

LEMMA SubmitServed ==
    ASSUME RefInv, NEW kind \in Kinds, NEW keys \in KeyLists, Submit(kind, keys)
    PROVE  /\ \E t \in TaskIds : Service!Submit(t, kind, keys)
           /\ GivenUpOK'
  <1>. DEFINE fresh == [kind |-> kind, keys |-> keys, phase |-> "submitted"]
              asks == [kind |-> kind, keys |-> keys]
  <1>1. PICK n \in Nat : Submitted = 0 .. n - 1
    BY DEF RefInv, Inv, Books, Numbered
  <1>2. /\ n \in TaskIds /\ task' = [task EXCEPT ![n] = fresh]
        /\ UNCHANGED <<storeVars, fetched, gaveUp, listed, closer>>
    BY <1>1, NextIdIsNew DEF Submit, clientVars
  <1>3. Phase(n) = "none"
    BY <1>1, <1>2 DEF Submitted
  <1>4. Kind(n) # "delete"
    BY <1>2, <1>3 DEF RefInv, Types, TasksTyped, NoTask, Phase, Kind
  <1>5. n \notin gaveUp /\ n \notin fetched
    BY <1>3, <1>4 DEF RefInv, GivenUpOK, Inv, Books, Entries, Published
  <1>6. task'[n] = fresh /\ \A u \in TaskIds \ {n} : task'[u] = task[u]
    BY <1>2 DEF RefInv, Types, TasksTyped
  <1>7. State(n) = "none"
    BY <1>2, <1>3, <1>5, StateIs
  <1>8. State(n)' = "pending"
    BY <1>2, <1>5, <1>6 DEF State, Collected, StateOf, Phase, Kind
  <1>9. \A u \in TaskIds \ {n} : State(u)' = State(u) /\ Kind(u)' = Kind(u)
    BY <1>2, <1>6 DEF State, Collected, Phase, Kind
  <1>10. AbstractState[n] = "none" /\ AbstractState' = [AbstractState EXCEPT ![n] = "pending"]
    BY <1>2, <1>7, <1>8, <1>9 DEF AbstractState
  <1>11. AbstractAsked' = [AbstractAsked EXCEPT ![n] = asks]
    <2>1. \A u \in TaskIds :
             [kind |-> Kind(u)', keys |-> task'[u].keys] =
                IF u = n THEN asks ELSE [kind |-> Kind(u), keys |-> task[u].keys]
      BY <1>6, <1>9 DEF Kind
    <2>. QED BY <1>2, <2>1 DEF AbstractAsked
  <1>12. Service!Submit(n, kind, keys)
    BY <1>2, <1>10, <1>11 DEF Service!Submit, Service!Becomes, Service!storeVars, storeVars
  <1>13. GivenUpOK'
    <2>1. gaveUp' = gaveUp /\ gaveUp \subseteq TaskIds
      BY <1>2 DEF RefInv, Types, LocalTypeOK
    <2>. QED BY <1>5, <1>9, <2>1 DEF RefInv, GivenUpOK
  <1>. QED BY <1>2, <1>12, <1>13

(* The loop cannot hand the jobs to a pool that is shut down.              *)
LEMMA StartServed ==
    ASSUME RefInv, NEW t \in TaskIds, Start(t)
    PROVE  Service!Lose(t) \/ UNCHANGED Service!serviceVars
  <1>1. /\ Phase(t) = "submitted"
        /\ UNCHANGED <<storeVars, fetched, gaveUp, listed, closer>>
        /\ (PoolShut /\ Goto(t, "lost")) \/ Goto(t, "waiting")
    BY DEF Start, clientVars
  <1>2. PICK p \in {"lost", "waiting"} : Goto(t, p) /\ (p = "lost" => PoolShut)
    BY <1>1
  <1>3. /\ AbstractAsked' = AbstractAsked
        /\ AbstractState' = [AbstractState EXCEPT ![t] = State(t)']
        /\ Phase(t)' = p /\ Kind(t)' = Kind(t)
    BY <1>1, <1>2, OneState DEF RefInv, Phases
  <1>4. AbstractState[t] = State(t) /\ t \notin fetched
    BY <1>1 DEF AbstractState, RefInv, Inv, Books, Entries, Published
  <1>5. CASE State(t)' = State(t)
    <2>1. AbstractState' = AbstractState
      BY <1>3, <1>4, <1>5 DEF AbstractState
    <2>. QED BY <1>1, <1>3, <2>1 DEF Service!serviceVars, Service!storeVars, storeVars
  <1>6. CASE t \notin gaveUp /\ p = "lost"
    <2>1. State(t) = "pending"
      BY <1>1, <1>6, StateIs
    <2>2. State(t)' = "lost"
      BY <1>1, <1>3, <1>4, <1>6 DEF State, Collected, StateOf
    <2>. QED BY <1>1, <1>2, <1>3, <1>4, <1>6, <2>1, <2>2
             DEF Service!Lose, Service!Becomes, Service!storeVars, storeVars, PoolShut
  <1>7. t \in gaveUp \/ p = "waiting" => State(t)' = State(t)
    BY <1>1, <1>3, <1>4, StateIs DEF State, Collected, StateOf
  <1>. QED BY <1>5, <1>6, <1>7

LEMMA ResumeServed ==
    ASSUME RefInv, NEW t \in TaskIds, Resume(t)
    PROVE  Service!Complete(t) \/ UNCHANGED Service!serviceVars
  <1>1. /\ Phase(t) = "waiting" /\ AllResults(t)
        /\ UNCHANGED <<storeVars, fetched, gaveUp, closer>>
        /\ listed' = IF Kind(t) = "store" THEN listed \cup KeysWith(t, {"stored"})
                                          ELSE listed
    BY DEF Resume, clientVars, WrittenResults
  <1>2. PICK p \in {"returned", "resumed"} : Goto(t, p)
    BY DEF Resume
  <1>3. /\ AbstractAsked' = AbstractAsked
        /\ AbstractState' = [AbstractState EXCEPT ![t] = State(t)']
        /\ Phase(t)' = p /\ Kind(t)' = Kind(t)
    BY <1>1, <1>2, OneState DEF RefInv, Phases
  <1>4. /\ AbstractState[t] = State(t)
        /\ AbstractAsked[t].kind = Kind(t) /\ AbstractAsked[t].keys = task[t].keys
        /\ Service!KeysWith(t, "stored") = KeysWith(t, {"stored"})
    BY AskedAt DEF RefInv, Types
  <1>5. t \notin fetched
    BY <1>1 DEF RefInv, Inv, Books, Entries, Published
  <1>6. CASE t \in gaveUp
    <2>1. Kind(t) = "delete" /\ State(t)' = "given up" /\ State(t) = "given up"
      BY <1>1, <1>6 DEF RefInv, GivenUpOK, State
    <2>2. AbstractState' = AbstractState
      BY <1>3, <1>4, <2>1 DEF AbstractState
    <2>. QED BY <1>1, <1>3, <2>1, <2>2 DEF Service!serviceVars, Service!storeVars, storeVars
  <1>7. CASE t \notin gaveUp
    <2>1. State(t) = "pending"
      BY <1>1, <1>7, StateIs
    <2>2. State(t)' = "ready"
      BY <1>1, <1>3, <1>5, <1>7 DEF State, Collected, StateOf
    <2>3. \A i \in DOMAIN task[t].keys : reply[<<t, i>>] # "none"
      BY <1>1, ResultIsReply DEF AllResults, JobsOf
    <2>. QED BY <1>1, <1>3, <1>4, <2>1, <2>2, <2>3
             DEF Service!Complete, Service!Becomes, Service!storeVars, storeVars
  <1>. QED BY <1>6, <1>7

(* Publishing and signalling are not to be seen.                           *)
LEMMA FinishServed ==
    ASSUME RefInv, NEW t \in TaskIds, Finish(t)
    PROVE  UNCHANGED Service!serviceVars
  <1>1. /\ Phase(t) \in {"resumed", "published"} /\ Kind(t) \in Signalled
        /\ UNCHANGED <<storeVars, fetched, gaveUp, listed, closer>>
    BY DEF Finish, PublishAndSignal, clientVars, RefInv, Inv, Books, Entries
  <1>2. PICK p \in {"published", "done"} : Goto(t, p)
    BY DEF Finish, PublishAndSignal
  <1>3. /\ AbstractAsked' = AbstractAsked
        /\ AbstractState' = [AbstractState EXCEPT ![t] = State(t)']
        /\ Phase(t)' = p /\ Kind(t)' = Kind(t)
    BY <1>1, <1>2, OneState DEF RefInv, Phases
  <1>4. Kind(t) # "delete" /\ t \notin gaveUp
    BY <1>1 DEF Signalled, RefInv, GivenUpOK
  <1>5. State(t)' = State(t)
    BY <1>1, <1>3, <1>4 DEF State, Collected, StateOf
  <1>6. AbstractState' = AbstractState
    BY <1>3, <1>5 DEF AbstractState
  <1>. QED BY <1>1, <1>3, <1>6 DEF Service!serviceVars, Service!storeVars, storeVars

LEMMA DeleteServed ==
    ASSUME RefInv, NEW t \in TaskIds, DeleteStep(t)
    PROVE  Service!Collect({t}, "delete") \/ Service!GiveUp(t)
  <1>1. /\ AbstractState[t] = State(t)
        /\ AbstractAsked[t].kind = Kind(t)
        /\ Service!KeysWith(t, "removed") = KeysWith(t, {"removed"})
    BY AskedAt DEF RefInv, Types
  <1>2. CASE DeleteReturns(t)
    <2>1. /\ Phase(t) = "returned" /\ t \notin gaveUp /\ Goto(t, "done")
          /\ UNCHANGED <<storeVars, fetched, gaveUp, closer>>
          /\ listed' = listed \ KeysWith(t, {"removed"})
          /\ Kind(t) = "delete" /\ t \notin fetched
      BY <1>2 DEF DeleteReturns, clientVars, RefInv, Inv, Books, Entries, Published
    <2>2. /\ AbstractAsked' = AbstractAsked
          /\ AbstractState' = [AbstractState EXCEPT ![t] = State(t)']
          /\ Phase(t)' = "done" /\ Kind(t)' = Kind(t)
      BY <2>1, OneState DEF RefInv, Phases
    <2>3. State(t) = "ready"
      BY <2>1, StateIs
    <2>4. State(t)' = "collected"
      BY <2>1, <2>2 DEF State, Collected
    <2>5. AbstractState' =
             [u \in TaskIds |-> IF u \in {t} THEN "collected" ELSE AbstractState[u]]
      BY <2>2, <2>4 DEF AbstractState
    <2>6. UNION {Service!KeysWith(u, "removed") : u \in {t}} = KeysWith(t, {"removed"})
      BY <1>1
    <2>. QED BY <1>1, <2>1, <2>2, <2>3, <2>5, <2>6
             DEF Service!Collect, Service!storeVars, storeVars
  <1>3. CASE DeleteTimesOut(t)
    <2>1. /\ Kind(t) = "delete" /\ t \notin gaveUp
          /\ Phase(t) \notin {"none", "done", "returned"}
          /\ UNCHANGED <<storeVars, task, fetched, listed, closer>>
          /\ gaveUp' = gaveUp \cup {t}
      BY <1>3 DEF DeleteTimesOut, Deleting, Submitted
    <2>2. Phase(t) \in {"submitted", "waiting", "lost"}
      <3>1. Phase(t) \in Phases /\ Phase(t) \notin {"resumed", "published"}
        BY <2>1 DEF RefInv, Inv, Books, BooksTyped, TaskRecords, Phase, Entries, Signalled
      <3>. QED BY <2>1, <3>1 DEF Phases
    <2>3. State(t) \in {"pending", "lost"}
      BY <2>1, <2>2, StateIs
    <2>4. \A u \in TaskIds :
             /\ State(u)' = IF u = t THEN "given up" ELSE State(u)
             /\ Kind(u)' = Kind(u)
      BY <2>1 DEF State, Collected, Phase, Kind
    <2>5. AbstractState' = [AbstractState EXCEPT ![t] = "given up"]
      BY <2>4 DEF AbstractState
    <2>6. AbstractAsked' = AbstractAsked
      BY <2>1, <2>4 DEF AbstractAsked
    <2>. QED BY <1>1, <2>1, <2>3, <2>5, <2>6
             DEF Service!GiveUp, Service!Becomes, Service!storeVars, storeVars
  <1>. QED BY <1>2, <1>3 DEF DeleteStep

(* A poller collects what is there.                                        *)
LEMMA FetchServed ==
    ASSUME RefInv, NEW q \in Signalled, NEW T, T \subseteq completed[q],
           fetched' = fetched \cup T,
           UNCHANGED <<storeVars, task, gaveUp, listed, closer>>
    PROVE  Service!Collect(T, q)
  <1>1. \A t \in T : /\ t \in TaskIds /\ Kind(t) = q /\ Published(t) /\ t \notin fetched
                     /\ t \notin gaveUp /\ q # "delete"
    BY DEF RefInv, Inv, Books, BooksTyped, Entries, ResultsKept, Published, Signalled,
       GivenUpOK
  <1>2. \A t \in T : State(t) = "ready" /\ State(t)' = "collected"
    BY <1>1, StateIs DEF State, Collected
  <1>3. \A t \in TaskIds \ T : State(t)' = State(t)
    BY DEF State, Collected, Phase, Kind
  <1>4. AbstractState' =
           [t \in TaskIds |-> IF t \in T THEN "collected" ELSE AbstractState[t]]
    BY <1>2, <1>3 DEF AbstractState
  <1>5. \A t \in T : AbstractState[t] = "ready" /\ AbstractAsked[t].kind = q
    BY <1>1, <1>2 DEF AbstractState, AbstractAsked
  <1>6. AbstractAsked' = AbstractAsked
    BY DEF AbstractAsked, Kind
  <1>7. q # "delete"
    BY DEF Signalled
  <1>. QED BY <1>4, <1>5, <1>6, <1>7 DEF Service!Collect, Service!storeVars, storeVars

(* A job in the queue is that of a task that waits.                        *)
LEMMA JobsAwaited ==
    ASSUME RefInv, NEW j, IsJob(j), reply[j] = "none"
    PROVE  /\ j = <<j[1], j[2]>> /\ j[1] \in TaskIds /\ j[2] \in DOMAIN task[j[1]].keys
           /\ j[2] \in 1 .. MaxKeys
           /\ Phase(j[1]) \in {"waiting", "lost"}
           /\ State(j[1]) \in {"pending", "given up", "lost"}
  <1>1. /\ j = <<j[1], j[2]>> /\ j[1] \in TaskIds /\ j[2] \in DOMAIN task[j[1]].keys
        /\ j[2] \in 1 .. MaxKeys
    BY DEF IsJob, Jobs
  <1>2. ~AllResults(j[1])
    BY <1>1, ResultIsReply DEF AllResults, JobsOf
  <1>3. Phase(j[1]) \in Phases
    BY <1>1 DEF RefInv, Inv, Books, BooksTyped, TaskRecords, Phase
  <1>4. Phase(j[1]) \in {"waiting", "lost"}
    BY <1>1, <1>2, <1>3 DEF RefInv, PoolInv, Ended, IsJob, Phases
  <1>. QED BY <1>1, <1>4, StateIs

LEMMA WorkServed ==
    ASSUME RefInv, NEW j \in Jobs, Work(j)
    PROVE  Service!Serve(j)
  <1>1. /\ Store!Answer(j) /\ UNCHANGED <<task, fetched, gaveUp, listed, closer>>
    BY DEF Work, clientVars
  <1>2. IsJob(j) /\ reply[j] = "none"
    BY <1>1, AnswerTyped DEF RefInv, Types, PoolInv, WorkersOK
  <1>3. AbstractState[j[1]] \in {"pending", "given up", "lost"}
    BY <1>2, JobsAwaited DEF AbstractState
  <1>4. UNCHANGED <<AbstractAsked, AbstractState>>
    BY <1>1, SameState
  <1>. QED BY <1>1, <1>3, <1>4, StoreSame DEF Service!Serve

LEMMA TakeServed ==
    ASSUME RefInv, TakeJob
    PROVE  \E t \in TaskIds, i \in 1 .. MaxKeys : Service!Begin(t, i)
  <1>. DEFINE j == Head(queue)
  <1>1. /\ queue # <<>> /\ Store!Begin(j, RequestOf[Kind(j[1])], KeyOf(j))
        /\ UNCHANGED <<task, fetched, gaveUp, listed, closer>>
    BY DEF TakeJob, clientVars
  <1>2. IsJob(j) /\ reply[j] = "none"
    <2>1. queue \in Seq(Jobs)
      BY DEF RefInv, Types, LocalTypeOK
    <2>2. 1 \in DOMAIN queue /\ j = queue[1]
      BY <1>1, <2>1, EmptySeq
    <2>. QED BY <2>2 DEF RefInv, PoolInv, QueueOK
  <1>. HIDE DEF j
  <1>3. PICK t \in TaskIds, i \in 1 .. MaxKeys :
           j = <<t, i>> /\ i \in DOMAIN task[t].keys /\ Phase(t) \in {"waiting", "lost"}
    BY <1>2, JobsAwaited
  <1>4. ~PoolShut
    BY <1>1 DEF RefInv, PoolInv
  <1>5. closer \in {"open", "joining"}
    BY <1>4 DEF PoolShut, RefInv, Types, LocalTypeOK
  <1>6. State(t) \in {"pending", "given up"}
    <2>1. Phase(t) = "waiting"
      BY <1>3, <1>4 DEF RefInv, LifeOK
    <2>. QED BY <2>1, StateIs
  <1>7. /\ AbstractState[t] = State(t)
        /\ AbstractAsked[t].kind = Kind(t) /\ AbstractAsked[t].keys = task[t].keys
        /\ Service!KeyOf(j) = KeyOf(j)
    BY <1>3, AskedAt DEF RefInv, Types
  <1>8. Service!RequestOf = RequestOf
    BY DEF RequestOf, Service!RequestOf
  <1>9. Service!Store!Begin(j, Service!RequestOf[AbstractAsked[t].kind], Service!KeyOf(j))
    BY <1>1, <1>3, <1>7, <1>8, StoreSame
  <1>10. UNCHANGED <<AbstractAsked, AbstractState>>
    BY <1>1, SameState
  <1>11. Service!Begin(t, i)
    BY <1>1, <1>2, <1>3, <1>5, <1>6, <1>7, <1>9, <1>10 DEF Service!Begin
  <1>. QED BY <1>11

(* close() cuts off the tasks whose jobs it cancels.                       *)
LEMMA ShutdownServed ==
    ASSUME RefInv, CloseShutdown
    PROVE  \E cut \in SUBSET TaskIds : Service!Shutdown(cut)
  <1>. DEFINE cut == {t \in TaskIds : Cancelled(t) /\ t \notin gaveUp}
  <1>1. /\ closer = "joining" /\ closer' = "draining"
        /\ UNCHANGED <<storeVars, fetched, gaveUp, listed>>
    BY DEF CloseShutdown, clientVars
  <1>2. task \in [TaskIds -> TaskRecords]
    BY DEF RefInv, Inv, Books, BooksTyped
  <1>3. ASSUME NEW t \in TaskIds
        PROVE  /\ Kind(t)' = Kind(t) /\ task'[t].keys = task[t].keys
               /\ Phase(t)' = IF Cancelled(t) THEN "lost" ELSE Phase(t)
    BY <1>2 DEF CloseShutdown, Kind, Phase, TaskRecords
  <1>4. ASSUME NEW t \in TaskIds
        PROVE  /\ t \in cut => State(t) = "pending"
               /\ State(t)' = IF t \in cut THEN "lost" ELSE State(t)
    <2>1. CASE t \in gaveUp
      BY <1>1, <2>1 DEF State
    <2>2. CASE t \notin gaveUp /\ Cancelled(t)
      <3>1. Phase(t) = "waiting" /\ t \notin fetched
        BY <2>2 DEF Cancelled, RefInv, Inv, Books, Entries, Published
      <3>2. Phase(t)' = "lost"
        BY <1>3, <2>2
      <3>. QED BY <1>1, <2>2, <3>1, <3>2, StateIs DEF State, Collected, StateOf
    <2>3. CASE ~Cancelled(t)
      BY <1>1, <1>3, <2>3 DEF State, Collected
    <2>. QED BY <2>1, <2>2, <2>3
  <1>. HIDE DEF cut
  <1>5. AbstractState' = [t \in TaskIds |-> IF t \in cut THEN "lost" ELSE AbstractState[t]]
    BY <1>4 DEF AbstractState
  <1>6. cut \in SUBSET TaskIds /\ \A t \in cut : AbstractState[t] = "pending"
    BY <1>4 DEF AbstractState, cut
  <1>7. AbstractAsked' = AbstractAsked
    BY <1>3 DEF AbstractAsked
  <1>8. Service!Shutdown(cut)
    BY <1>1, <1>5, <1>6, <1>7 DEF Service!Shutdown, Service!storeVars, storeVars
  <1>. QED BY <1>6, <1>8

LEMMA CloseServed ==
    ASSUME RefInv, CloseStop \/ CloseStore
    PROVE  Service!Close \/ Service!Closed
  <1>1. UNCHANGED <<storeVars, task, fetched, gaveUp, listed>>
    BY DEF CloseStop, CloseStore, clientVars
  <1>2. UNCHANGED <<AbstractAsked, AbstractState>>
    BY <1>1, SameState
  <1>3. CASE CloseStop
    BY <1>1, <1>2, <1>3 DEF CloseStop, Service!Close, Service!storeVars, storeVars
  <1>4. CASE CloseStore
    <2>1. \A j \in Jobs : request[j] = "none"
      BY <1>4 DEF CloseStore, Drained, RefInv, PoolInv, WorkersOK
    <2>. QED BY <1>1, <1>2, <1>4, <2>1
             DEF CloseStore, Service!Closed, Service!Jobs, Jobs, Service!storeVars, storeVars
  <1>. QED BY <1>3, <1>4

LEMMA OthersServed ==
    ASSUME RefInv, Others
    PROVE  Service!Elsewhere
  <1>1. UNCHANGED <<task, fetched, gaveUp, listed, closer>>
    BY DEF Others, clientVars
  <1>2. UNCHANGED <<AbstractAsked, AbstractState>>
    BY <1>1, SameState
  <1>3. \A k : RemovalRaised(k) => Service!RemovalRaised(k)
    <2>1. \A t \in TaskIds :
             AbstractAsked[t].kind = Kind(t) /\ AbstractAsked[t].keys = task[t].keys
      BY AskedAt DEF RefInv, Types
    <2>. QED BY <2>1 DEF RemovalRaised, Service!RemovalRaised, Submitted
  <1>. QED BY <1>1, <1>2, <1>3, StoreSame DEF Others, Service!Elsewhere

-----------------------------------------------------------------------------

LEMMA GivenUpStep == RefInv /\ [Next]_vars => GivenUpOK'
  <1>. SUFFICES ASSUME RefInv, [Next]_vars
                PROVE  GivenUpOK'
    OBVIOUS
  <1>a. task \in [TaskIds -> TaskRecords] /\ gaveUp \subseteq TaskIds
    BY DEF RefInv, Inv, Books, BooksTyped, Types, LocalTypeOK
  <1>1. ASSUME \A t \in TaskIds : Kind(t) = "delete" => Kind(t)' = "delete",
               \A t \in gaveUp' : t \in gaveUp \/ Kind(t) = "delete",
               gaveUp' \subseteq TaskIds
        PROVE  GivenUpOK'
    BY <1>1 DEF RefInv, GivenUpOK
  <1>2. ASSUME NEW t \in TaskIds, NEW p, Goto(t, p), UNCHANGED gaveUp
        PROVE  GivenUpOK'
    <2>1. \A u \in TaskIds : Kind(u)' = Kind(u)
      BY <1>a, <1>2 DEF Goto, Kind, TaskRecords
    <2>. QED BY <1>a, <1>1, <1>2, <2>1
  <1>3. ASSUME UNCHANGED <<task, gaveUp>>
        PROVE  GivenUpOK'
    BY <1>3 DEF RefInv, GivenUpOK, Kind
  <1>4. ASSUME NEW t \in TaskIds, LoopStep(t) \/ DeleteReturns(t)
        PROVE  GivenUpOK'
    <2>1. UNCHANGED gaveUp /\ \E p : Goto(t, p)
      BY <1>4 DEF LoopStep, Start, Resume, Finish, PublishAndSignal, DeleteReturns, clientVars
    <2>. QED BY <1>2, <2>1
  <1>5. ASSUME NEW t \in TaskIds, DeleteTimesOut(t)
        PROVE  GivenUpOK'
    <2>1. UNCHANGED task /\ gaveUp' = gaveUp \cup {t} /\ Kind(t) = "delete"
      BY <1>5 DEF DeleteTimesOut, Deleting
    <2>. QED BY <1>a, <1>1, <2>1 DEF Kind
  <1>6. CASE CloseShutdown
    <2>1. UNCHANGED gaveUp /\ \A t \in TaskIds : Kind(t)' = Kind(t)
      BY <1>a, <1>6 DEF CloseShutdown, Kind, TaskRecords, clientVars
    <2>. QED BY <1>a, <1>1, <2>1
  <1>7. CASE \/ LoopRuns \/ LoopStops \/ PopStores \/ CloseStop \/ CloseStore \/ TakeJob
             \/ (\E j \in Jobs : Work(j)) \/ (\E q \in Signalled : Wake(q))
             \/ (\E t \in TaskIds : Query(t)) \/ Others \/ UNCHANGED vars
    <2>1. UNCHANGED <<task, gaveUp>>
      BY <1>7 DEF LoopRuns, LoopStops, PopStores, CloseStop, CloseStore, TakeJob, Work,
         Wake, Query, Others, vars, clientVars
    <2>. QED BY <1>3, <2>1
  <1>. QED BY <1>4, <1>5, <1>6, <1>7, SubmitServed
           DEF Next, DeleteStep, CloseStep

LEMMA InitServed == Init => Service!Init /\ GivenUpOK
  <1>. SUFFICES ASSUME Init
                PROVE  Service!Init /\ GivenUpOK
    OBVIOUS
  <1>1. \A t \in TaskIds :
           Kind(t) = "none" /\ task[t].keys = <<>> /\ State(t) = "none"
    BY DEF Init, NoTask, Kind, Phase, State, Collected, StateOf
  <1>2. AbstractAsked = [t \in TaskIds |-> [kind |-> "none", keys |-> <<>>]]
    BY <1>1 DEF AbstractAsked
  <1>3. AbstractState = [t \in TaskIds |-> "none"]
    BY <1>1 DEF AbstractState
  <1>. QED BY <1>2, <1>3, StoreSame DEF Init, Service!Init, GivenUpOK

LEMMA StepServed == RefInv /\ [Next]_vars => [Service!Next]_(Service!serviceVars)
  <1>. SUFFICES ASSUME RefInv, [Next]_vars
                PROVE  Service!Next \/ UNCHANGED Service!serviceVars
    OBVIOUS
  <1>1. ASSUME UNCHANGED <<storeVars, task, fetched, gaveUp, listed, closer>>
        PROVE  UNCHANGED Service!serviceVars
    BY <1>1, SameState DEF Service!serviceVars, Service!storeVars, storeVars
  <1>2. ASSUME NEW kind \in Kinds, NEW keys \in KeyLists, Submit(kind, keys)
        PROVE  Service!Next
    <2>1. kind \in Service!TaskKinds
      BY KindsAssumption DEF TaskKinds, Service!TaskKinds
    <2>. QED BY <1>2, <2>1, SubmitServed DEF Service!Next
  <1>3. ASSUME NEW t \in TaskIds, LoopStep(t)
        PROVE  Service!Next \/ UNCHANGED Service!serviceVars
    BY <1>3, StartServed, ResumeServed, FinishServed DEF LoopStep, Service!Next
  <1>4. ASSUME NEW t \in TaskIds, DeleteStep(t)
        PROVE  Service!Next
    <2>1. {t} \in SUBSET TaskIds /\ "delete" \in Service!TaskKinds
      BY DEF Service!TaskKinds
    <2>. QED BY <1>4, <2>1, DeleteServed DEF Service!Next
  <1>5. ASSUME NEW q \in Signalled, NEW T, T \subseteq completed[q],
               fetched' = fetched \cup T,
               UNCHANGED <<storeVars, task, gaveUp, listed, closer>>
        PROVE  Service!Next
    <2>1. T \in SUBSET TaskIds /\ q \in Service!TaskKinds
      BY <1>5 DEF RefInv, Inv, Books, BooksTyped, Signalled, TaskKinds, Service!TaskKinds
    <2>2. Service!Collect(T, q)
      BY <1>5, FetchServed
    <2>. QED BY <2>1, <2>2 DEF Service!Next
  <1>6. ASSUME NEW t \in TaskIds, Query(t)
        PROVE  Service!Next
    <2>1. Kind(t) \in Signalled /\ {t} \cap completed[Kind(t)] \subseteq completed[Kind(t)]
      BY <1>6 DEF Query, Signalled, TaskKinds
    <2>. QED BY <1>5, <1>6, <2>1 DEF Query
  <1>7. CASE PopStores
    <2>1. "store" \in Signalled
      BY DEF Signalled, TaskKinds
    <2>. QED BY <1>5, <1>7, <2>1 DEF PopStores, Popped
  <1>8. CASE LoopRuns \/ LoopStops \/ (\E q \in Signalled : Wake(q)) \/ UNCHANGED vars
    BY <1>1, <1>8 DEF LoopRuns, LoopStops, Wake, vars, clientVars
  <1>9. CASE TakeJob
    BY <1>9, TakeServed DEF Service!Next
  <1>10. ASSUME NEW j \in Jobs, Work(j)
         PROVE  Service!Next
    BY <1>10, WorkServed DEF Service!Next, Service!Jobs, Jobs
  <1>11. CASE CloseStop \/ CloseStep
    BY <1>11, CloseServed, ShutdownServed DEF CloseStep, Service!Next
  <1>12. CASE Others
    BY <1>12, OthersServed DEF Service!Next
  <1>. QED BY <1>2, <1>3, <1>4, <1>6, <1>7, <1>8, <1>9, <1>10, <1>11, <1>12 DEF Next

(* The adapter is a service of tasks, for any number of tasks, keys and     *)
(* threads, with failures, other servers, timeouts and close() at any       *)
(* moment: no behaviour of loop, pool, dictionaries, fds and pollers is one *)
(* LMCache could not rely on.                                               *)
THEOREM AdapterImplementsTaskService == Spec => ImplementsTaskService
  <1>1. Spec => [](Types /\ Inv /\ PoolInv /\ LifeOK)
    BY SpecPlaces, PTL
  <1>2. Init => GivenUpOK
    BY InitServed
  <1>3. Types /\ Inv /\ PoolInv /\ LifeOK /\ GivenUpOK /\ [Next]_vars => GivenUpOK'
    BY GivenUpStep DEF RefInv
  <1>4. Types /\ Inv /\ PoolInv /\ LifeOK /\ GivenUpOK <=> RefInv
    BY DEF RefInv
  <1>5. Spec => []RefInv
    BY <1>1, <1>2, <1>3, <1>4, PTL DEF Spec
  <1>6. Init => Service!Init
    BY InitServed
  <1>7. RefInv /\ [Next]_vars => [Service!Next]_(Service!serviceVars)
    BY StepServed
  <1>8. Spec => Service!Spec
    BY <1>5, <1>6, <1>7, PTL DEF Spec, Service!Spec
  <1>. QED BY <1>8 DEF ImplementsTaskService
=============================================================================
