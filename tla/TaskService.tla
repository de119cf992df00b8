----------------------------- MODULE TaskService -----------------------------
(***************************************************************************)
(* What LMCache may rely on when it hands tasks to the L2 adapter.  Each   *)
(* key of a task is one request to the chunk cache; the requests of a task *)
(* are made in any order and at the same time.  A task is ready when every *)
(* key has its reply, and no reply changes from then on; a ready task is   *)
(* collected once.  Until it is ready, the caller of a delete may give up  *)
(* waiting, though the chunks go on being removed, and once close() was    *)
(* called the task may be lost.  When close() is over nobody is at the     *)
(* store.                                                                  *)
(***************************************************************************)
EXTENDS Integers, Sequences

CONSTANTS
    Tasks, Keys, KeyLists, MaxKeys,    \* see L2Adapter
    Reliable, Shared, Faults

TaskKinds == {"store", "lookup", "load", "delete"}

VARIABLES
    cached, inDoubt, request, key, found, reply,    \* the store, see ChunkCache
    asked,      \* what a task is to do
    state,      \* how far it is
    listed,     \* chunks LMCache was told are stored, and not deleted
    closer      \* "open", "joining", "draining" or "closed"

storeVars == <<cached, inDoubt, request, key, found, reply>>
serviceVars == <<storeVars, asked, state, listed, closer>>

Jobs == Tasks \X (1 .. MaxKeys)

Store == INSTANCE ChunkCache WITH Clients <- Jobs

KeyOf(j) == asked[j[1]].keys[j[2]]
RequestOf == [store |-> "offer", lookup |-> "ask", load |-> "fetch",
              delete |-> "measure"]

KeysWith(t, outcome) ==
    {asked[t].keys[i] :
        i \in {n \in DOMAIN asked[t].keys : reply[<<t, n>>] = outcome}}

Becomes(t, s) == state' = [state EXCEPT ![t] = s]

Init ==
    /\ Store!Init
    /\ asked = [t \in Tasks |-> [kind |-> "none", keys |-> <<>>]]
    /\ state = [t \in Tasks |-> "none"]
    /\ listed = {}
    /\ closer = "open"

Submit(t, kind, keys) ==
    /\ state[t] = "none"
    /\ asked' = [asked EXCEPT ![t] = [kind |-> kind, keys |-> keys]]
    /\ Becomes(t, "pending")
    /\ UNCHANGED <<storeVars, listed, closer>>

(* A key is looked after once.                                              *)
Begin(t, i) ==
    /\ state[t] \in {"pending", "given up"}
    /\ closer \in {"open", "joining"}
    /\ i \in DOMAIN asked[t].keys
    /\ reply[<<t, i>>] = "none"
    /\ Store!Begin(<<t, i>>, RequestOf[asked[t].kind], KeyOf(<<t, i>>))
    /\ UNCHANGED <<asked, state, listed, closer>>

Serve(j) ==
    /\ state[j[1]] \in {"pending", "given up", "lost"}
    /\ Store!Answer(j)
    /\ UNCHANGED <<asked, state, listed, closer>>

(* LMCache is told of what was stored before it can collect the result.     *)
Complete(t) ==
    /\ state[t] = "pending"
    /\ \A i \in DOMAIN asked[t].keys : reply[<<t, i>>] # "none"
    /\ Becomes(t, "ready")
    /\ listed' = IF asked[t].kind = "store" THEN listed \cup KeysWith(t, "stored")
                                            ELSE listed
    /\ UNCHANGED <<storeVars, asked, closer>>

(* Results of one kind are collected, one or several at a time.             *)
Collect(ready, kind) ==
    /\ \A t \in ready : state[t] = "ready" /\ asked[t].kind = kind
    /\ state' = [t \in Tasks |-> IF t \in ready THEN "collected" ELSE state[t]]
    /\ listed' = IF kind = "delete"
                 THEN listed \ UNION {KeysWith(t, "removed") : t \in ready}
                 ELSE listed
    /\ UNCHANGED <<storeVars, asked, closer>>

GiveUp(t) ==
    /\ asked[t].kind = "delete"
    /\ state[t] \in {"pending", "lost"}
    /\ Becomes(t, "given up")
    /\ UNCHANGED <<storeVars, asked, listed, closer>>

Lose(t) ==
    /\ closer \in {"draining", "closed"}
    /\ state[t] = "pending"
    /\ Becomes(t, "lost")
    /\ UNCHANGED <<storeVars, asked, listed, closer>>

Close ==
    /\ closer = "open"
    /\ closer' = "joining"
    /\ UNCHANGED <<storeVars, asked, state, listed>>

Shutdown(cut) ==
    /\ closer = "joining"
    /\ closer' = "draining"
    /\ \A t \in cut : state[t] = "pending"
    /\ state' = [t \in Tasks |-> IF t \in cut THEN "lost" ELSE state[t]]
    /\ UNCHANGED <<storeVars, asked, listed>>

Closed ==
    /\ closer = "draining"
    /\ \A j \in Jobs : request[j] = "none"
    /\ closer' = "closed"
    /\ UNCHANGED <<storeVars, asked, state, listed>>

(* Other servers, expiry and eviction; writes and removals that raised and  *)
(* land late.                                                               *)
RemovalRaised(k) == \E t \in Tasks : \E i \in DOMAIN asked[t].keys :
    asked[t].kind = "delete" /\ asked[t].keys[i] = k /\ reply[<<t, i>>] = "error"

Elsewhere ==
    /\ \/ Shared /\ \E k \in Keys : cached' \in {cached \cup {k}, cached \ {k}}
                 /\ UNCHANGED <<inDoubt, request, key, found, reply>>
       \/ \E k \in inDoubt : Store!Settle(k)
       \/ \E k \in Keys : RemovalRaised(k) /\ Store!Drop(k)
    /\ UNCHANGED <<asked, state, listed, closer>>

Next ==
    \/ \E t \in Tasks :
          \/ \E kind \in TaskKinds, keys \in KeyLists : Submit(t, kind, keys)
          \/ \E i \in 1 .. MaxKeys : Begin(t, i)
          \/ Complete(t) \/ GiveUp(t) \/ Lose(t)
    \/ \E j \in Jobs : Serve(j)
    \/ \E ready \in SUBSET Tasks, kind \in TaskKinds : Collect(ready, kind)
    \/ Close \/ (\E cut \in SUBSET Tasks : Shutdown(cut)) \/ Closed
    \/ Elsewhere

Spec == Init /\ [][Next]_serviceVars
=============================================================================
