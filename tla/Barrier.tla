------------------------------ MODULE Barrier ------------------------------
(***************************************************************************)
(* internal/cache/barrier.go: a mutual exclusion lock per key.             *)
(*                                                                         *)
(* The Barrier keeps a map from keys to reference counted barrier objects, *)
(* each of which embeds a sync.Mutex.  add and remove run under the        *)
(* Barrier's own mutex and are one step each; locking and unlocking the    *)
(* returned object happens after that mutex was released and is a step of  *)
(* its own, so an object can already be out of the map while it is still   *)
(* locked.  Objects have an identity: two goroutines that call Lock with   *)
(* the same key exclude each other only if they got the same object.       *)
(*                                                                         *)
(* Callers pair Lock with Unlock on the same key, as keyCache.Get does.    *)
(***************************************************************************)
EXTENDS Integers, FiniteSets

CONSTANTS
    Goroutines,  \* the goroutines that use the Barrier
    Keys,        \* the keys they lock
    Barriers,    \* the addresses barrier objects can be allocated at
    Nil          \* the nil pointer, and "no key"

ASSUME GoroutinesFinite == IsFiniteSet(Goroutines)
ASSUME NilNotAnObject == Nil \notin Barriers \cup Keys

VARIABLES
    keys,      \* Barrier.keys: the object of each key, Nil if there is no map entry
    N,         \* barrier.N of each object
    locked,    \* the state of each object's embedded sync.Mutex
    pc,        \* where each goroutine is
    key,       \* the key a goroutine's Lock or Unlock call is about
    m,         \* the object add or remove returned to the goroutine
    panicked   \* a goroutine ran into "unlock of unlocked ..."

vars == <<keys, N, locked, pc, key, m, panicked>>

TypeOK ==
    /\ keys \in [Keys -> Barriers \cup {Nil}]
    /\ N \in [Barriers -> 0 .. Cardinality(Goroutines)]
    /\ locked \in [Barriers -> BOOLEAN]
    /\ pc \in [Goroutines -> {"idle", "acquire", "held", "release"}]
    /\ key \in [Goroutines -> Keys \cup {Nil}]
    /\ m \in [Goroutines -> Barriers \cup {Nil}]
    /\ panicked \in BOOLEAN

Init ==
    /\ keys = [k \in Keys |-> Nil]
    /\ N = [b \in Barriers |-> 0]
    /\ locked = [b \in Barriers |-> FALSE]
    /\ pc = [g \in Goroutines |-> "idle"]
    /\ key = [g \in Goroutines |-> Nil]
    /\ m = [g \in Goroutines |-> Nil]
    /\ panicked = FALSE

(* Nothing refers to the object: new(barrier) may return its address.      *)
Unreferenced(b) ==
    /\ \A k \in Keys : keys[k] # b
    /\ \A g \in Goroutines : m[g] # b

(* Mutant of AddExisting: the caller is not counted.                       *)
AddUncounted(g, k) ==
    /\ keys[k] # Nil
    /\ m' = [m EXCEPT ![g] = keys[k]]
    /\ UNCHANGED <<keys, N, locked>>

(***************************************************************************)
(* Lock(key), up to the return of add.                                     *)
(***************************************************************************)
AddExisting(g, k) ==
    /\ keys[k] # Nil
    /\ N' = [N EXCEPT ![keys[k]] = @ + 1]
    /\ m' = [m EXCEPT ![g] = keys[k]]
    /\ UNCHANGED <<keys, locked>>

AddNew(g, k) ==
    /\ keys[k] = Nil
    /\ \E b \in Barriers :
        /\ Unreferenced(b)
        /\ keys' = [keys EXCEPT ![k] = b]
        /\ N' = [N EXCEPT ![b] = 1]
        /\ locked' = [locked EXCEPT ![b] = FALSE]
        /\ m' = [m EXCEPT ![g] = b]

Add(g, k) ==
    /\ pc[g] = "idle"
    /\ AddExisting(g, k) \/ AddNew(g, k)
    /\ pc' = [pc EXCEPT ![g] = "acquire"]
    /\ key' = [key EXCEPT ![g] = k]
    /\ UNCHANGED panicked

(* Mutant of Acquire: add's result is not locked.                          *)
AcquireUnlocked(g) ==
    /\ pc[g] = "acquire"
    /\ pc' = [pc EXCEPT ![g] = "held"]
    /\ UNCHANGED <<keys, N, locked, key, m, panicked>>

(***************************************************************************)
(* Lock(key), the rest: locking the returned object's sync.Mutex.          *)
(***************************************************************************)
Acquire(g) ==
    /\ pc[g] = "acquire"
    /\ ~locked[m[g]]
    /\ locked' = [locked EXCEPT ![m[g]] = TRUE]
    /\ pc' = [pc EXCEPT ![g] = "held"]
    /\ UNCHANGED <<keys, N, key, m, panicked>>

(* Mutant of MapAfterRemove: the object always leaves the map.             *)
MapWithout(k) == [keys EXCEPT ![k] = Nil]

(***************************************************************************)
(* Unlock(key), up to the return of remove.  The object that is unlocked   *)
(* next is the one the map holds now, whichever was locked before.         *)
(***************************************************************************)
MapAfterRemove(k) ==
    IF N[keys[k]] = 1 THEN [keys EXCEPT ![k] = Nil] ELSE keys

(* Mutant of Remove: the reference count is not decremented.               *)
RemoveUncounted(g) ==
    /\ pc[g] = "held"
    /\ m' = [m EXCEPT ![g] = keys[key[g]]]
    /\ pc' = [pc EXCEPT ![g] = "release"]
    /\ UNCHANGED <<keys, N, locked, key, panicked>>

Remove(g) ==
    /\ pc[g] = "held"
    /\ IF keys[key[g]] = Nil
       THEN /\ panicked' = TRUE
            /\ UNCHANGED <<keys, N, m, pc>>
       ELSE /\ N' = [N EXCEPT ![keys[key[g]]] = @ - 1]
            /\ keys' = MapAfterRemove(key[g])
            /\ m' = [m EXCEPT ![g] = keys[key[g]]]
            /\ pc' = [pc EXCEPT ![g] = "release"]
            /\ UNCHANGED panicked
    /\ UNCHANGED <<locked, key>>

(* Mutant of Release: the object stays locked.                             *)
ReleaseLocked(g) ==
    /\ pc[g] = "release"
    /\ pc' = [pc EXCEPT ![g] = "idle"]
    /\ m' = [m EXCEPT ![g] = Nil]
    /\ key' = [key EXCEPT ![g] = Nil]
    /\ UNCHANGED <<keys, N, locked, panicked>>

(***************************************************************************)
(* Unlock(key), the rest: sync.Mutex.Unlock, a fatal error on a mutex that *)
(* is not locked.                                                          *)
(***************************************************************************)
Release(g) ==
    /\ pc[g] = "release"
    /\ locked' = [locked EXCEPT ![m[g]] = FALSE]
    /\ panicked' = (panicked \/ ~locked[m[g]])
    /\ pc' = [pc EXCEPT ![g] = "idle"]
    /\ m' = [m EXCEPT ![g] = Nil]
    /\ key' = [key EXCEPT ![g] = Nil]
    /\ UNCHANGED <<keys, N>>

Next == \E g \in Goroutines :
            \/ \E k \in Keys : Add(g, k)
            \/ Acquire(g)
            \/ Remove(g)
            \/ Release(g)

Spec == Init /\ [][Next]_vars

(***************************************************************************)
(* Scheduling: a goroutine that can run is run, callers that hold a key    *)
(* release it, and a sync.Mutex does not starve a waiter (it hands the     *)
(* lock over after a bounded wait).                                        *)
(***************************************************************************)
Fairness == \A g \in Goroutines :
                /\ SF_vars(Acquire(g))
                /\ WF_vars(Remove(g))
                /\ WF_vars(Release(g))

FairSpec == Spec /\ Fairness

-----------------------------------------------------------------------------
(* Goroutines that are counted by the object of key k.                     *)
Users(k) == {g \in Goroutines : key[g] = k /\ pc[g] \in {"acquire", "held"}}

(* "A Barrier is a mutual exclusion lock per key": no two goroutines hold  *)
(* the same key, even though an object leaves the map before it is         *)
(* unlocked and the key may get a new one meanwhile.                       *)
MutualExclusion ==
    \A g, h \in Goroutines :
        pc[g] = "held" /\ pc[h] = "held" /\ key[g] = key[h] => g = h

(* remove never misses the map entry and Unlock never hits an unlocked     *)
(* mutex when callers pair Lock with Unlock.                               *)
NoPanic == ~panicked

(* The reference count is exact and the map does not leak: a key has an    *)
(* object if and only if a goroutine has or wants the lock, and N counts   *)
(* these goroutines.                                                       *)
CountExact ==
    \A k \in Keys :
        /\ keys[k] # Nil <=> Users(k) # {}
        /\ keys[k] # Nil => N[keys[k]] = Cardinality(Users(k))

(* The count is exact, so nothing leaks, and a paired Unlock never panics. *)
Counted == CountExact /\ NoPanic

(* Lock returns: a goroutine that waits for a key gets it.                 *)
LockReturns ==
    \A g \in Goroutines : pc[g] = "acquire" ~> pc[g] = "held"

(* Barrier implements the lock per key.  Unlock gives the key up at remove *)
(* already: a later Lock may get a new object from then on.                *)
waitingOf == [k \in Keys |-> {g \in Goroutines : key[g] = k /\ pc[g] = "acquire"}]
holdingOf == [k \in Keys |-> {g \in Goroutines : key[g] = k /\ pc[g] = "held"}]

KL == INSTANCE KeyLock WITH waiting <- waitingOf, holding <- holdingOf

IsKeyLock == KL!Spec
=============================================================================
