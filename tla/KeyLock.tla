------------------------------ MODULE KeyLock ------------------------------
(***************************************************************************)
(* What cache.Barrier promises its callers: a mutual exclusion lock for    *)
(* each key.  waiting[k] holds the goroutines blocked in Lock(k) and       *)
(* holding[k] those between the return of Lock(k) and the call of          *)
(* Unlock(k).  Barrier implements this specification, and KeyCache, which  *)
(* calls a Barrier, is checked to use it as one.                           *)
(***************************************************************************)
CONSTANTS
    Goroutines,  \* the callers
    Keys         \* the keys that can be locked

VARIABLES
    waiting,     \* waiting[k]: goroutines that have called Lock(k) and not yet returned
    holding      \* holding[k]: goroutines that have locked k and not yet called Unlock(k)

vars == <<waiting, holding>>

Init ==
    /\ waiting = [k \in Keys |-> {}]
    /\ holding = [k \in Keys |-> {}]

Request(g, k) ==
    /\ \A l \in Keys : g \notin waiting[l] \cup holding[l]
    /\ waiting' = [waiting EXCEPT ![k] = @ \cup {g}]
    /\ UNCHANGED holding

Acquire(g, k) ==
    /\ g \in waiting[k]
    /\ holding[k] = {}
    /\ waiting' = [waiting EXCEPT ![k] = @ \ {g}]
    /\ holding' = [holding EXCEPT ![k] = {g}]

Release(g, k) ==
    /\ holding[k] = {g}
    /\ holding' = [holding EXCEPT ![k] = {}]
    /\ UNCHANGED waiting

Next == \E g \in Goroutines, k \in Keys :
            Request(g, k) \/ Acquire(g, k) \/ Release(g, k)

Spec == Init /\ [][Next]_vars
=============================================================================
