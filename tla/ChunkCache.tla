----------------------------- MODULE ChunkCache -----------------------------
(***************************************************************************)
(* What LMCache may rely on when it talks to the store: a set of cached    *)
(* chunks, each whole or absent.  One call makes a chunk cached in one     *)
(* step; a hit is answered only for a chunk that was cached during the     *)
(* call, and always with a payload offered under its key.  If documents    *)
(* neither disappear nor are removed, a cached chunk stays cached and is   *)
(* never missed.                                                           *)
(***************************************************************************)
CONSTANTS
    Clients,    \* threads that call the store
    Keys,       \* chunk keys
    Reliable,   \* nothing is removed, expires or is evicted
    Faults      \* calls may end with an error

Requests == {"offer", "write", "ask", "fetch", "measure"}

Replies == {"none", "stored", "present", "yes", "no", "hit", "miss",
            "removed", "unmeasured", "absent", "error"}

VARIABLES
    cached,     \* chunks that are in the cache
    inDoubt,    \* chunks whose offer failed but may still take effect
    request,    \* request[c]: what c waits for, "none" when it does not
    key,        \* key[c]: the chunk of the current or last request
    found,      \* found[c]: this fetch or removal has found the chunk cached
    reply       \* reply[c]: the outcome of the last request

cacheVars == <<cached, inDoubt, request, key, found, reply>>

Init ==
    /\ cached = {}
    /\ inDoubt = {}
    /\ request = [c \in Clients |-> "none"]
    /\ key \in [Clients -> Keys]
    /\ found = [c \in Clients |-> FALSE]
    /\ reply = [c \in Clients |-> "none"]

Begin(c, r, k) ==
    /\ request[c] = "none"
    /\ request' = [request EXCEPT ![c] = r]
    /\ key' = [key EXCEPT ![c] = k]
    /\ reply' = [reply EXCEPT ![c] = "none"]
    /\ UNCHANGED <<cached, inDoubt, found>>

Reply(c, outcome) ==
    /\ request' = [request EXCEPT ![c] = "none"]
    /\ found' = [found EXCEPT ![c] = FALSE]
    /\ reply' = [reply EXCEPT ![c] = outcome]
    /\ UNCHANGED key

(* A chunk that is offered is written only if it was absent; it appears     *)
(* whole.                                                                   *)
Present(c) ==
    /\ request[c] = "offer"
    /\ key[c] \in cached
    /\ Reply(c, "present")
    /\ UNCHANGED <<cached, inDoubt>>

Lacking(c) ==
    /\ request[c] = "offer"
    /\ key[c] \notin cached
    /\ request' = [request EXCEPT ![c] = "write"]
    /\ UNCHANGED <<cached, inDoubt, key, found, reply>>

Commit(c) ==
    /\ request[c] = "write"
    /\ cached' = cached \cup {key[c]}
    /\ Reply(c, "stored")
    /\ UNCHANGED inDoubt

Tell(c) ==
    /\ request[c] = "ask"
    /\ Reply(c, IF key[c] \in cached THEN "yes" ELSE "no")
    /\ UNCHANGED <<cached, inDoubt>>

Find(c) ==
    /\ request[c] = "fetch"
    /\ key[c] \in cached
    /\ found' = [found EXCEPT ![c] = TRUE]
    /\ UNCHANGED <<cached, inDoubt, request, key, reply>>

Hit(c) ==
    /\ request[c] = "fetch"
    /\ found[c] \/ key[c] \in cached
    /\ Reply(c, "hit")
    /\ UNCHANGED <<cached, inDoubt>>

Miss(c) ==
    /\ request[c] = "fetch"
    /\ ~Reliable \/ (key[c] \notin cached /\ ~found[c])
    /\ Reply(c, "miss")
    /\ UNCHANGED <<cached, inDoubt>>

(* A chunk expires or is evicted, or a removal that failed takes effect.   *)
Drop(k) ==
    /\ ~Reliable
    /\ cached' = cached \ {k}
    /\ UNCHANGED <<inDoubt, request, key, found, reply>>

(* A removal measures the chunk, takes it out of the cache, and may have to *)
(* clean up before it answers.  What it did not find it cannot measure.     *)
Measure(c) ==
    /\ request[c] = "measure"
    /\ request' = [request EXCEPT ![c] = "remove"]
    /\ found' = [found EXCEPT ![c] = key[c] \in cached]
    /\ UNCHANGED <<cached, inDoubt, key, reply>>

Outcome(c) == IF found[c] THEN "removed" ELSE "unmeasured"

Absent(c) ==
    /\ request[c] = "remove"
    /\ key[c] \notin cached
    /\ Reply(c, "absent")
    /\ UNCHANGED <<cached, inDoubt>>

Remove(c) ==
    /\ request[c] = "remove"
    /\ key[c] \in cached
    /\ cached' = cached \ {key[c]}
    /\ \/ Reply(c, Outcome(c))
       \/ /\ request' = [request EXCEPT ![c] = "sweep"]
          /\ UNCHANGED <<key, found, reply>>
    /\ UNCHANGED inDoubt

Swept(c) ==
    /\ request[c] = "sweep"
    /\ Reply(c, Outcome(c))
    /\ UNCHANGED <<cached, inDoubt>>

Abandon(c) ==
    /\ Faults
    /\ request[c] # "none"
    /\ Reply(c, "error")
    /\ inDoubt' \in {inDoubt} \cup
          (IF request[c] = "write" THEN {inDoubt \cup {key[c]}} ELSE {})
    /\ UNCHANGED cached

Settle(k) ==
    /\ cached' = cached \cup {k}
    /\ inDoubt' \in {inDoubt, inDoubt \ {k}}
    /\ UNCHANGED <<request, key, found, reply>>

Answer(c) ==
    \/ Present(c)
    \/ Lacking(c)
    \/ Commit(c)
    \/ Tell(c)
    \/ Find(c)
    \/ Hit(c)
    \/ Miss(c)
    \/ Measure(c)
    \/ Absent(c)
    \/ Remove(c)
    \/ Swept(c)
    \/ Abandon(c)

Next ==
    \/ \E c \in Clients :
          \/ \E r \in Requests, k \in Keys : Begin(c, r, k)
          \/ Answer(c)
    \/ \E k \in Keys : Drop(k)
    \/ \E k \in inDoubt : Settle(k)

Spec == Init /\ [][Next]_cacheVars
=============================================================================
