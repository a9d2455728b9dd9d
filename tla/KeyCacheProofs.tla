--------------------------- MODULE KeyCacheProofs ---------------------------
(***************************************************************************)
(* Proofs about KeyCache and KeyCacheHistory, for any number of callers,   *)
(* names, keys and scenarios.                                              *)
(***************************************************************************)
EXTENDS KeyCacheHistory, TLAPS

(* What a running call has: a name, the barrier between Lock and Unlock,   *)
(* the entry it is about to touch, the key it is about to insert.          *)
Locked == {"recheck", "touchLocked", "fetch", "set", "unlock"}

CallInv ==
    \A g \in Goroutines :
        /\ pc[g] # "idle" => name[g] \in Names
        /\ pc[g] \in Locked => barrier[name[g]] = g
        /\ pc[g] \in {"touch", "touchLocked"} => ptr[g] # Nil
        /\ pc[g] \in {"set", "evict"} => key[g] # NoKey

(* While DeleteFunc holds Cow.mu, the map it iterates over is the cache,   *)
(* and the new map is a part of it.                                        *)
SweepInv ==
    /\ mu <=> gc["ExpiryUnused"] = "sweep"
    /\ mu => r = cache
    /\ ~mu => sweep = {}
    /\ \A n \in Names : w[n] # Nil => mu /\ w[n] = r[n]

IInv == TypeOK /\ CallInv /\ SweepInv /\ FetchOnlyWhenAbsent

(* No call is running and nothing is cached at first.                      *)
LEMMA InitIInv == Init => IInv
<1> SUFFICES ASSUME Init PROVE IInv
  OBVIOUS
<1>1. conf \in Config /\ env \in Environment
  BY ScenariosAssumption DEF Init
<1>2. TypeOK
  <2>1. created \in 0 .. MaxVersion /\ store \in [Names -> (1 .. created) \cup {NoKey}]
    BY DEF Init
  <2>2. 1 .. created \subseteq 1 .. MaxVersion
    BY <2>1, BoundsAssumption
  <2>3. store \in [Names -> Versions \cup {NoKey}]
    BY <2>1, <2>2 DEF Versions
  <2>4. gc \in [Collectors -> {"wait", "run", "sweep", "up", "down", "exited"}]
    BY DEF Init
  <2> QED
    BY <1>1, <2>1, <2>3, <2>4 DEF Init, TypeOK, EmptyMap, Steps
<1>3. CallInv /\ SweepInv /\ FetchOnlyWhenAbsent
  BY DEF Init, CallInv, SweepInv, FetchOnlyWhenAbsent, EmptyMap, Collectors, Locked
<1> QED
  BY <1>2, <1>3 DEF IInv

(* Get up to the fetch: the cache is not changed.                          *)
LEMMA GetReadsIInv ==
    ASSUME IInv, NEW g \in Goroutines,
           \/ \E n \in Names : GetLookup(g, n)
           \/ GetTouch(g) \/ GetAcquire(g) \/ GetRecheck(g)
    PROVE  IInv'
<1> USE DEF IInv, Goto, storeVars, envVars, cacheVars, sweepVars
<1>1. CASE \E n \in Names : GetLookup(g, n)
  <2>1. TypeOK'
    BY <1>1 DEF GetLookup, TypeOK, Steps
  <2>2. CallInv' /\ SweepInv' /\ FetchOnlyWhenAbsent'
    BY <1>1 DEF GetLookup, TypeOK, CallInv, SweepInv, FetchOnlyWhenAbsent, Locked
  <2> QED
    BY <2>1, <2>2
<1>2. CASE GetTouch(g)
  <2>1. ptr[g].Key \in Versions /\ name[g] \in Names
    BY <1>2 DEF GetTouch, TypeOK, CallInv, Entries
  <2>2. TypeOK'
    BY <1>2, <2>1 DEF GetTouch, TypeOK, Steps
  <2>3. CallInv' /\ SweepInv' /\ FetchOnlyWhenAbsent'
    BY <1>2 DEF GetTouch, TypeOK, CallInv, SweepInv, FetchOnlyWhenAbsent, Locked
  <2> QED
    BY <2>2, <2>3
<1>3. CASE GetAcquire(g)
  <2>1. TypeOK'
    BY <1>3 DEF GetAcquire, TypeOK, Steps
  <2>2. CallInv' /\ SweepInv' /\ FetchOnlyWhenAbsent'
    BY <1>3, NilAssumption DEF GetAcquire, TypeOK, CallInv, SweepInv, FetchOnlyWhenAbsent, Locked
  <2> QED
    BY <2>1, <2>2
<1>4. CASE GetRecheck(g)
  <2>1. TypeOK'
    BY <1>4 DEF GetRecheck, TypeOK, CallInv, Steps
  <2>2. CallInv' /\ SweepInv' /\ FetchOnlyWhenAbsent'
    BY <1>4 DEF GetRecheck, TypeOK, CallInv, SweepInv, FetchOnlyWhenAbsent, Locked
  <2> QED
    BY <2>1, <2>2
<1> QED
  BY <1>1, <1>2, <1>3, <1>4

(* Get from the fetch on.  Nobody else is about to insert an entry for the *)
(* name, since only this goroutine has its barrier.                        *)
LEMMA GetFetchesIInv ==
    ASSUME IInv, NEW g \in Goroutines,
           GetFetch(g) \/ GetSet(g) \/ GetUnlock(g) \/ GetReturn(g)
    PROVE  IInv'
<1> USE DEF IInv, Goto, storeVars, envVars, cacheVars, sweepVars
<1>1. CASE GetFetch(g)
  <2>1. TypeOK'
    BY <1>1 DEF GetFetch, TypeOK, CallInv, Steps
  <2>2. CallInv' /\ SweepInv' /\ FetchOnlyWhenAbsent'
    BY <1>1 DEF GetFetch, TypeOK, CallInv, SweepInv, FetchOnlyWhenAbsent, Locked
  <2> QED
    BY <2>1, <2>2
<1>2. CASE GetSet(g)
  <2>1. name[g] \in Names /\ key[g] \in Versions /\ barrier[name[g]] = g
    BY <1>2 DEF GetSet, TypeOK, CallInv, Locked
  <2>2. TypeOK'
    BY <1>2, <2>1 DEF GetSet, TypeOK, Entries, Steps
  <2>3. CallInv' /\ SweepInv'
    BY <1>2, <2>1 DEF GetSet, TypeOK, CallInv, SweepInv, Locked
  <2>4. FetchOnlyWhenAbsent'
    <3> SUFFICES ASSUME NEW h \in Goroutines, pc'[h] \in {"fetch", "set"}
                 PROVE  cache'[name'[h]] = Nil
      BY DEF FetchOnlyWhenAbsent
    <3>1. h # g /\ pc[h] \in {"fetch", "set"} /\ name' = name
      BY <1>2 DEF GetSet, TypeOK
    <3>2. name[h] \in Names /\ name[h] # name[g]
      BY <2>1, <3>1 DEF CallInv, Locked
    <3>3. cache'[name[h]] = cache[name[h]]
      BY <1>2, <3>2 DEF GetSet, TypeOK
    <3> QED
      BY <3>1, <3>3 DEF FetchOnlyWhenAbsent
  <2> QED
    BY <2>2, <2>3, <2>4
<1>3. CASE GetUnlock(g)
  <2>1. TypeOK'
    BY <1>3 DEF GetUnlock, TypeOK, CallInv, Steps
  <2>2. CallInv' /\ SweepInv' /\ FetchOnlyWhenAbsent'
    BY <1>3 DEF GetUnlock, TypeOK, CallInv, SweepInv, FetchOnlyWhenAbsent, Locked
  <2> QED
    BY <2>1, <2>2
<1>4. CASE GetReturn(g)
  <2>1. TypeOK'
    BY <1>4 DEF GetReturn, TypeOK, Steps
  <2>2. CallInv' /\ SweepInv' /\ FetchOnlyWhenAbsent'
    BY <1>4 DEF GetReturn, TypeOK, CallInv, SweepInv, FetchOnlyWhenAbsent, Locked
  <2> QED
    BY <2>1, <2>2
<1> QED
  BY <1>1, <1>2, <1>3, <1>4

(* Create and Delete.                                                      *)
LEMMA StoreIInv ==
    ASSUME IInv,
           \E g \in Goroutines : \/ \E n \in Names : Create(g, n) \/ Delete(g, n) \/ DeleteFailed(g, n)
                                 \/ DeleteEvict(g)
    PROVE  IInv'
<1> USE DEF IInv, Goto, storeVars, envVars, cacheVars, sweepVars, goVars
<1>0. ASSUME NEW n \in Names, StoreCreate(n) \/ StoreDelete(n)
      PROVE  store' \in [Names -> Versions \cup {NoKey}] /\ created' \in 0 .. MaxVersion
  BY <1>0, BoundsAssumption DEF StoreCreate, StoreDelete, TypeOK, Versions, NoKey
<1>1. ASSUME NEW g \in Goroutines, NEW n \in Names, Create(g, n) \/ DeleteFailed(g, n)
      PROVE  IInv'
  <2>1. TypeOK'
    BY <1>1, <1>0 DEF Create, DeleteFailed, TypeOK
  <2>2. CallInv' /\ SweepInv' /\ FetchOnlyWhenAbsent'
    BY <1>1 DEF Create, DeleteFailed, CallInv, SweepInv, FetchOnlyWhenAbsent
  <2> QED
    BY <2>1, <2>2
<1>2. ASSUME NEW g \in Goroutines, NEW n \in Names, Delete(g, n)
      PROVE  IInv'
  <2>1. TypeOK'
    BY <1>2, <1>0 DEF Delete, TypeOK, Steps
  <2>2. CallInv' /\ SweepInv' /\ FetchOnlyWhenAbsent'
    BY <1>2 DEF Delete, StoreDelete, TypeOK, CallInv, SweepInv, FetchOnlyWhenAbsent, Locked
  <2> QED
    BY <2>1, <2>2
<1>3. ASSUME NEW g \in Goroutines, DeleteEvict(g)
      PROVE  IInv'
  <2>1. TypeOK'
    BY <1>3 DEF DeleteEvict, TypeOK, CallInv, Steps
  <2>2. CallInv' /\ SweepInv' /\ FetchOnlyWhenAbsent'
    BY <1>3 DEF DeleteEvict, TypeOK, CallInv, SweepInv, FetchOnlyWhenAbsent, Locked
  <2> QED
    BY <2>1, <2>2
<1> QED
  BY <1>1, <1>2, <1>3

(* The collectors remove entries, and DeleteFunc publishes a part of the   *)
(* map that is the cache until then.                                       *)
LEMMA CollectIInv ==
    ASSUME IInv, Collect
    PROVE  IInv'
<1> USE DEF IInv, storeVars, envVars, cacheVars, sweepVars, goVars
<1>1. ASSUME NEW c \in Collectors \ {"Status"}, Tick(c)
      PROVE  IInv'
  BY <1>1 DEF Tick, TypeOK, CallInv, SweepInv, FetchOnlyWhenAbsent, Collectors
<1>2. ASSUME NEW c \in {"Expiry", "ExpiryOffline"}, DeleteAll(c)
      PROVE  IInv'
  <2>1. TypeOK' /\ SweepInv'
    BY <1>2 DEF DeleteAll, TypeOK, SweepInv, EmptyMap, Collectors
  <2>2. CallInv' /\ FetchOnlyWhenAbsent'
    BY <1>2 DEF DeleteAll, CallInv, FetchOnlyWhenAbsent, EmptyMap
  <2> QED
    BY <2>1, <2>2
<1>3. CASE SweepBegin
  <2>1. TypeOK' /\ SweepInv'
    BY <1>3 DEF SweepBegin, TypeOK, SweepInv, Cached, Collectors
  <2>2. CallInv' /\ FetchOnlyWhenAbsent'
    BY <1>3 DEF SweepBegin, CallInv, FetchOnlyWhenAbsent
  <2> QED
    BY <2>1, <2>2
<1>4. ASSUME NEW n \in Names, SweepVisit(n)
      PROVE  IInv'
  <2>1. TypeOK' /\ SweepInv'
    BY <1>4 DEF SweepVisit, TypeOK, SweepInv
  <2>2. CallInv' /\ FetchOnlyWhenAbsent'
    BY <1>4 DEF SweepVisit, CallInv, FetchOnlyWhenAbsent
  <2> QED
    BY <2>1, <2>2
<1>5. CASE SweepEnd
  <2>1. TypeOK' /\ SweepInv'
    BY <1>5 DEF SweepEnd, TypeOK, SweepInv, EmptyMap, Collectors
  <2>2. CallInv' /\ FetchOnlyWhenAbsent'
    BY <1>5 DEF SweepEnd, TypeOK, SweepInv, CallInv, FetchOnlyWhenAbsent
  <2> QED
    BY <2>1, <2>2
<1>6. CASE Status
  <2>1. offline' \in BOOLEAN
    BY <1>6 DEF Status, StatusCheck, StatusStore, TypeOK
  <2>2. gc' \in [Collectors -> {"wait", "run", "sweep", "up", "down", "exited"}]
    BY <1>6 DEF Status, StatusCheck, StatusStore, TypeOK
  <2>3. gc'["ExpiryUnused"] = gc["ExpiryUnused"]
    BY <1>6 DEF Status, StatusCheck, StatusStore, TypeOK, Collectors
  <2>4. UNCHANGED <<storeVars, envVars, cacheVars, barrier, goVars, sweepVars>>
    BY <1>6 DEF Status, StatusCheck, StatusStore
  <2>5. TypeOK'
    BY <2>1, <2>2, <2>4 DEF TypeOK
  <2>6. CallInv' /\ SweepInv' /\ FetchOnlyWhenAbsent'
    BY <2>3, <2>4 DEF CallInv, SweepInv, FetchOnlyWhenAbsent
  <2> QED
    BY <2>5, <2>6
<1>7. ASSUME NEW c \in Collectors, Exit(c)
      PROVE  IInv'
  BY <1>7 DEF Exit, TypeOK, CallInv, SweepInv, FetchOnlyWhenAbsent, Collectors
<1> QED
  BY <1>1, <1>2, <1>3, <1>4, <1>5, <1>6, <1>7 DEF Collect, Sweep

(* Closing the cache, and the KeyStore's outages.                          *)
LEMMA EnvIInv ==
    ASSUME IInv, Close \/ Outage \/ Recovery
    PROVE  IInv'
<1> USE DEF IInv, storeVars, envVars, cacheVars, sweepVars, goVars
<1>1. env' \in Environment
  <2>1. env \in Environment
    BY DEF TypeOK
  <2>2. CASE Outage
    <3>1. env.outages - 1 \in Nat
      BY <2>1, <2>2 DEF Outage, Environment
    <3> QED
      BY <2>1, <2>2, <3>1 DEF Outage, Environment
  <2> QED
    BY <2>1, <2>2 DEF Close, Recovery
<1>2. TypeOK'
  BY <1>1 DEF Close, Outage, Recovery, TypeOK
<1>3. CallInv' /\ SweepInv' /\ FetchOnlyWhenAbsent'
  BY DEF Close, Outage, Recovery, CallInv, SweepInv, FetchOnlyWhenAbsent
<1> QED
  BY <1>2, <1>3

(* IInv is preserved by every step.                                        *)
LEMMA NextIInv ==
    ASSUME IInv, [Next]_vars
    PROVE  IInv'
<1>1. CASE UNCHANGED vars
  BY <1>1 DEF IInv, TypeOK, CallInv, SweepInv, FetchOnlyWhenAbsent, vars, storeVars, envVars,
              cacheVars, goVars, sweepVars
<1>2. CASE Next
  BY <1>2, GetReadsIInv, GetFetchesIInv, StoreIInv, CollectIInv, EnvIInv DEF Next, Handler, HandlerStep
<1> QED
  BY <1>1, <1>2

(* IInv is an inductive invariant of the key cache.                        *)
THEOREM Inductive == Spec => []IInv
BY InitIInv, NextIInv, PTL DEF Spec

(* Type correctness: Get returns keys and never follows a nil pointer.     *)
THEOREM TypeCorrect == Spec => []TypeOK
BY Inductive, PTL DEF IInv

(* A key is fetched only while it is not cached, whatever the collectors   *)
(* and other calls do.                                                     *)
THEOREM FetchOnce == Spec => []FetchOnlyWhenAbsent
BY Inductive, PTL DEF IInv
-----------------------------------------------------------------------------
(* Who has a barrier is between Lock and Unlock of a Get for that name.    *)
OwnInv ==
    \A n \in Names : barrier[n] # Nil =>
        /\ barrier[n] \in Goroutines
        /\ pc[barrier[n]] \in Locked /\ name[barrier[n]] = n

(* What a step can do to the barriers.                                     *)
LockStutter ==
    /\ barrier' = barrier
    /\ \A g \in Goroutines :
        /\ pc'[g] \in Locked <=> pc[g] \in Locked
        /\ pc'[g] = "acquire" <=> pc[g] = "acquire"
        /\ pc[g] \in Locked \cup {"acquire"} => name'[g] = name[g]

LockRequest(g, n) ==
    /\ pc[g] = "idle" /\ pc' = [pc EXCEPT ![g] = "acquire"]
    /\ name' = [name EXCEPT ![g] = n] /\ barrier' = barrier

LEMMA LockMoves ==
    ASSUME IInv, [Next]_vars
    PROVE  \/ LockStutter
           \/ \E g \in Goroutines, n \in Names : LockRequest(g, n)
           \/ \E g \in Goroutines : GetAcquire(g) \/ GetUnlock(g)
<1> USE DEF IInv, Goto
<1>1. ASSUME NEW g \in Goroutines, NEW n \in Names, GetLookup(g, n)
      PROVE  LockStutter \/ LockRequest(g, n)
  BY <1>1 DEF GetLookup, LockStutter, LockRequest, TypeOK, Locked
<1>2. ASSUME NEW g \in Goroutines,
             \/ GetTouch(g) \/ GetRecheck(g) \/ GetFetch(g) \/ GetSet(g) \/ GetReturn(g)
             \/ DeleteEvict(g) \/ \E n \in Names : Delete(g, n)
      PROVE  LockStutter
  BY <1>2 DEF GetTouch, GetRecheck, GetFetch, GetSet, GetReturn, DeleteEvict, Delete,
              LockStutter, TypeOK, Locked
<1>3. ASSUME \/ \E g \in Goroutines, n \in Names : Create(g, n) \/ DeleteFailed(g, n)
             \/ Collect \/ Close \/ Outage \/ Recovery \/ UNCHANGED vars
      PROVE  LockStutter
  <2>1. UNCHANGED <<barrier, goVars>>
    BY <1>3 DEF Create, DeleteFailed, Collect, Tick, DeleteAll, Sweep, SweepBegin, SweepVisit,
                SweepEnd, Status, StatusCheck, StatusStore, Exit, Close, Outage, Recovery, vars
  <2> QED
    BY <2>1 DEF LockStutter, goVars
<1> QED
  BY <1>1, <1>2, <1>3 DEF Next, Handler, HandlerStep

(* The barrier as the abstract lock sees it.                               *)
LEMMA LockSteps ==
    ASSUME IInv, OwnInv, [Next]_vars
    PROVE  OwnInv' /\ [KL!Next]_(KL!vars)
<1> USE DEF IInv
<1>1. CASE LockStutter
  <2>1. OwnInv'
    BY <1>1 DEF LockStutter, OwnInv
  <2>2. waitingOf' = waitingOf
    BY <1>1 DEF LockStutter, waitingOf, CallInv
  <2>3. holdingOf' = holdingOf
    BY <1>1 DEF LockStutter, holdingOf
  <2> QED
    BY <2>1, <2>2, <2>3 DEF KL!vars
<1>2. ASSUME NEW g \in Goroutines, NEW n \in Names, LockRequest(g, n)
      PROVE  OwnInv' /\ KL!Request(g, n)
  <2>1. \A l \in Names : g \notin waitingOf[l] \cup holdingOf[l]
    BY <1>2 DEF LockRequest, waitingOf, holdingOf, OwnInv, Locked
  <2>2. waitingOf' = [waitingOf EXCEPT ![n] = @ \cup {g}]
    <3>1. pc[g] = "idle" /\ pc' = [pc EXCEPT ![g] = "acquire"] /\ name' = [name EXCEPT ![g] = n]
      BY <1>2 DEF LockRequest
    <3>2. pc'[g] = "acquire" /\ name'[g] = n
      BY <3>1 DEF TypeOK
    <3>3. \A h \in Goroutines \ {g} : pc'[h] = pc[h] /\ name'[h] = name[h]
      BY <3>1 DEF TypeOK
    <3>4. waitingOf'[n] = waitingOf[n] \cup {g}
      BY <3>2, <3>3 DEF waitingOf
    <3>5. \A l \in Names \ {n} : waitingOf'[l] = waitingOf[l]
      BY <3>1, <3>2, <3>3 DEF waitingOf
    <3> QED
      BY <3>4, <3>5 DEF waitingOf
  <2>3. holdingOf' = holdingOf
    BY <1>2 DEF LockRequest, holdingOf
  <2>4. OwnInv'
    BY <1>2 DEF LockRequest, OwnInv, TypeOK, Locked
  <2> QED
    BY <2>1, <2>2, <2>3, <2>4 DEF KL!Request
<1>3. ASSUME NEW g \in Goroutines, GetAcquire(g)
      PROVE  name[g] \in Names /\ OwnInv' /\ KL!Acquire(g, name[g])
  <2>1. /\ pc[g] = "acquire" /\ pc' = [pc EXCEPT ![g] = "recheck"] /\ name' = name
        /\ name[g] \in Names /\ barrier[name[g]] = Nil
        /\ barrier' = [barrier EXCEPT ![name[g]] = g]
    BY <1>3 DEF GetAcquire, Goto, CallInv
  <2>2. g \in waitingOf[name[g]] /\ holdingOf[name[g]] = {}
    BY <2>1 DEF waitingOf, holdingOf
  <2>3. waitingOf' = [waitingOf EXCEPT ![name[g]] = @ \ {g}]
    BY <2>1 DEF waitingOf, TypeOK
  <2>4. holdingOf' = [holdingOf EXCEPT ![name[g]] = {g}]
    <3>1. holdingOf'[name[g]] = {g}
      BY <2>1, NilAssumption DEF holdingOf, TypeOK
    <3>2. \A l \in Names \ {name[g]} : holdingOf'[l] = holdingOf[l]
      BY <2>1 DEF holdingOf, TypeOK
    <3> QED
      BY <2>1, <3>1, <3>2 DEF holdingOf
  <2>5. OwnInv'
    BY <2>1 DEF OwnInv, TypeOK, Locked
  <2> QED
    BY <2>1, <2>2, <2>3, <2>4, <2>5 DEF KL!Acquire
<1>4. ASSUME NEW g \in Goroutines, GetUnlock(g)
      PROVE  name[g] \in Names /\ OwnInv' /\ KL!Release(g, name[g])
  <2>1. /\ pc[g] = "unlock" /\ pc' = [pc EXCEPT ![g] = "done"] /\ name' = name
        /\ name[g] \in Names /\ barrier[name[g]] = g
        /\ barrier' = [barrier EXCEPT ![name[g]] = Nil]
    BY <1>4 DEF GetUnlock, Goto, CallInv, Locked
  <2>2. holdingOf[name[g]] = {g}
    BY <2>1, NilAssumption DEF holdingOf
  <2>3. waitingOf' = waitingOf
    BY <2>1 DEF waitingOf, TypeOK
  <2>4. holdingOf' = [holdingOf EXCEPT ![name[g]] = {}]
    BY <2>1 DEF holdingOf, TypeOK
  <2>5. OwnInv'
    BY <2>1 DEF OwnInv, TypeOK, Locked
  <2> QED
    BY <2>1, <2>2, <2>3, <2>4, <2>5 DEF KL!Release
<1> QED
  BY <1>1, <1>2, <1>3, <1>4, LockMoves DEF KL!Next

(* keyCache.Get uses the Barrier as the lock per key that Barrier is shown *)
(* to implement: no goroutine locks while it waits or holds, and whoever   *)
(* unlocks holds the lock, on every path of Get (UsesKeyLock).             *)
THEOREM LockUse == Spec => UsesKeyLock
<1>1. Init => OwnInv /\ KL!Init
  BY DEF Init, OwnInv, KL!Init, waitingOf, holdingOf
<1>2. IInv /\ OwnInv /\ [Next]_vars => OwnInv' /\ [KL!Next]_(KL!vars)
  BY LockSteps
<1> QED
  BY <1>1, <1>2, Inductive, PTL DEF Spec, UsesKeyLock, KL!Spec
-----------------------------------------------------------------------------
(***************************************************************************)
(* What a step can do, as far as keys are concerned: to the KeyStore, to   *)
(* the cache, and to the call of a goroutine.                              *)
(***************************************************************************)
StoreMove ==
    \/ UNCHANGED <<store, created>>
    \/ \E n \in Names : StoreCreate(n) \/ StoreDelete(n)

CacheMove ==
    \A n \in Names : cache'[n] # Nil =>
        \/ cache'[n] = cache[n]
        \/ \E g \in Goroutines : pc[g] = "set" /\ name[g] = n /\ cache'[n].Key = key[g]

CallMove(g) ==
    \/ /\ pc'[g] = pc[g] /\ name'[g] = name[g] /\ ptr'[g] = ptr[g] /\ key'[g] = key[g]
    \/ /\ pc'[g] = "idle" /\ key'[g] = NoKey
       /\ pc[g] = "evict" => cache'[name[g]] = Nil
    \/ /\ pc[g] = "idle" /\ pc'[g] \in {"touch", "acquire"}
       /\ ptr'[g] = cache[name'[g]] /\ key'[g] = key[g]
    \/ /\ pc[g] = "idle" /\ pc'[g] = "evict" /\ name'[g] \in Names
       /\ store[name'[g]] # NoKey /\ key'[g] = store[name'[g]] /\ StoreDelete(name'[g])
    \/ /\ pc[g] \in {"touch", "touchLocked"} /\ pc'[g] \in {"done", "unlock"}
       /\ name'[g] = name[g] /\ key'[g] = ptr[g].Key
    \/ /\ pc[g] = "acquire" /\ pc'[g] = "recheck"
       /\ name'[g] = name[g] /\ key'[g] = key[g]
    \/ /\ pc[g] = "recheck" /\ pc'[g] \in {"touchLocked", "fetch"}
       /\ name'[g] = name[g] /\ key'[g] = key[g] /\ ptr'[g] = cache[name[g]]
    \/ /\ pc[g] = "fetch" /\ pc'[g] = "set"
       /\ name'[g] = name[g] /\ key'[g] = store[name[g]] /\ store[name[g]] # NoKey
    \/ /\ pc[g] \in {"fetch", "set", "unlock"} /\ pc'[g] \in {"unlock", "done"}
       /\ name'[g] = name[g] /\ key'[g] = key[g]

(* The KeyStore is written by Create and by Delete only.                   *)
LEMMA StoreMoves == Next => StoreMove
BY DEF Next, Handler, HandlerStep, GetLookup, GetTouch, GetAcquire, GetRecheck, GetFetch, GetSet,
       GetUnlock, GetReturn, Create, Delete, DeleteFailed, DeleteEvict, Collect, Tick, DeleteAll,
       Sweep, SweepBegin, SweepVisit, SweepEnd, Status, StatusCheck, StatusStore, Exit, Close, Outage, Recovery,
       StoreMove, storeVars

(* Entries get into the cache by GetSet only.                              *)
LEMMA CacheMoves ==
    ASSUME IInv, Next
    PROVE  CacheMove
<1> USE DEF IInv, CacheMove
<1>1. CASE \E g \in Goroutines : GetSet(g)
  BY <1>1 DEF GetSet, Goto, TypeOK, CallInv
<1>2. CASE \E g \in Goroutines : DeleteEvict(g)
  BY <1>2 DEF DeleteEvict, TypeOK
<1>3. CASE \E c \in {"Expiry", "ExpiryOffline"} : DeleteAll(c)
  BY <1>3 DEF DeleteAll, EmptyMap
<1>4. CASE SweepEnd
  BY <1>4 DEF SweepEnd, SweepInv
<1>5. CASE UNCHANGED cache
  BY <1>5
<1> QED
  BY <1>1, <1>2, <1>3, <1>4, <1>5
  DEF Next, Handler, HandlerStep, GetLookup, GetTouch, GetAcquire, GetRecheck, GetFetch,
      GetUnlock, GetReturn, Create, Delete, DeleteFailed, Collect, Tick,
      Sweep, SweepBegin, SweepVisit, Status, StatusCheck, StatusStore, Exit, Close, Outage, Recovery, cacheVars

(* A call goes on by its own steps only.                                   *)
LEMMA CallMoves ==
    ASSUME IInv, Next, NEW h \in Goroutines
    PROVE  CallMove(h)
<1> USE DEF IInv, TypeOK, Goto, CallMove
<1>1. ASSUME NEW g \in Goroutines, Handler(g)
      PROVE  CallMove(h)
  <2>1. CASE \E n \in Names : GetLookup(g, n)
    BY <2>1 DEF GetLookup
  <2>2. CASE \E n \in Names : Create(g, n) \/ DeleteFailed(g, n)
    BY <2>2 DEF Create, DeleteFailed, goVars
  <2>3. CASE \E n \in Names : Delete(g, n)
    <3>1. PICK n \in Names : Delete(g, n)
      BY <2>3
    <3>2. StoreDelete(n) /\ store[n] # NoKey
      BY <3>1 DEF Delete, StoreDelete
    <3>3. /\ pc[g] = "idle" /\ pc'[g] = "evict" /\ name'[g] = n /\ key'[g] = store[n]
          /\ h # g => pc'[h] = pc[h] /\ name'[h] = name[h] /\ ptr'[h] = ptr[h] /\ key'[h] = key[h]
      BY <3>1 DEF Delete
    <3> QED
      BY <3>2, <3>3
  <2>4. CASE GetTouch(g)
    BY <2>4 DEF GetTouch
  <2>5. CASE GetAcquire(g) \/ GetRecheck(g)
    BY <2>5 DEF GetAcquire, GetRecheck
  <2>6. CASE GetFetch(g)
    BY <2>6 DEF GetFetch
  <2>7. CASE GetSet(g) \/ GetUnlock(g)
    BY <2>7 DEF GetSet, GetUnlock
  <2>8. CASE GetReturn(g) \/ DeleteEvict(g)
    BY <2>8 DEF GetReturn, DeleteEvict, CallInv
  <2> QED
    BY <1>1, <2>1, <2>2, <2>3, <2>4, <2>5, <2>6, <2>7, <2>8 DEF Handler, HandlerStep
<1>2. CASE UNCHANGED goVars
  BY <1>2 DEF goVars
<1> QED
  BY <1>1, <1>2
  DEF Next, Collect, Tick, DeleteAll, Sweep, SweepBegin, SweepVisit, SweepEnd, Status, StatusCheck, StatusStore, Exit,
      Close, Outage, Recovery

-----------------------------------------------------------------------------
(* A version is stored under one name, ever.                               *)
StoredInv ==
    /\ \A n \in Names : stored[n] \in SUBSET (1 .. created)
    /\ \A n \in Names : store[n] # NoKey => store[n] \in stored[n]
    /\ \A m, n \in Names : m # n => stored[m] \cap stored[n] = {}

(* The keys and pointers of a call are about its name.                     *)
GenuineInv ==
    /\ KeysGenuine
    /\ \A g \in Goroutines :
        /\ pc[g] \in {"touch", "touchLocked"} => ptr[g].Key \in stored[name[g]]
        /\ pc[g] \in {"idle", "touch", "acquire", "recheck", "touchLocked", "fetch"} => key[g] = NoKey
        /\ pc[g] = "evict" => key[g] \in stored[name[g]]

(* A deleted version does not come back to the KeyStore, and who is about  *)
(* to insert it had fetched it before.                                     *)
DeletedInv ==
    /\ \A v \in deleted : \E n \in Names : v \in stored[n]
    /\ \A n \in Names : store[n] \notin deleted
    /\ \A g \in Goroutines :
        /\ pc[g] = "evict" => \A n \in Names : store[n] # key[g]
        /\ pc[g] = "set" /\ key[g] \in deleted => key[g] \in inflight
    /\ DeletedStaysOut

HIInv == IInv /\ StoredInv /\ GenuineInv /\ DeletedInv

(* Nothing is cached or deleted at first, and keys differ.                 *)
LEMMA InitHIInv == HInit => HIInv
<1> SUFFICES ASSUME HInit PROVE HIInv
  OBVIOUS
<1>1. IInv /\ Init
  BY InitIInv DEF HInit
<1>2. StoredInv
  BY <1>1 DEF HInit, Init, StoredInv
<1>3. GenuineInv /\ DeletedInv
  BY <1>1 DEF HInit, Init, GenuineInv, DeletedInv, KeysGenuine, DeletedStaysOut, EmptyMap
<1> QED
  BY <1>1, <1>2, <1>3 DEF HIInv

(* A new version is greater than all before.                               *)
LEMMA NextStoredInv ==
    ASSUME HIInv, HNext
    PROVE  /\ StoredInv'
           /\ \A n \in Names : stored[n] \subseteq stored'[n]
<1> USE DEF HIInv, IInv
<1>1. \A n \in Names : stored'[n] = stored[n] \cup ({store'[n]} \ {NoKey})
  BY DEF HNext, Observe
<1>2. StoreMove
  BY StoreMoves DEF HNext
<1>3. CASE UNCHANGED <<store, created>>
  BY <1>1, <1>3 DEF StoredInv
<1>4. ASSUME NEW n \in Names, StoreCreate(n)
      PROVE  StoredInv'
  <2>1. created \in Nat /\ created' = created + 1
    BY <1>4, BoundsAssumption DEF StoreCreate, TypeOK
  <2>2. \A m \in Names : m # n => store'[m] = store[m]
    BY <1>4 DEF StoreCreate, TypeOK
  <2>3. store'[n] = created + 1
    BY <1>4 DEF StoreCreate, TypeOK
  <2>4. \A m \in Names : m # n => stored'[m] = stored[m]
    <3>1. \A m \in Names : {store[m]} \ {NoKey} \subseteq stored[m]
      BY DEF StoredInv
    <3> QED
      BY <1>1, <2>2, <3>1
  <2>5. stored'[n] = stored[n] \cup {created + 1}
    BY <1>1, <2>1, <2>3 DEF NoKey
  <2>6. \A m \in Names : created + 1 \notin stored[m]
    BY <2>1 DEF StoredInv
  <2>7. \A m \in Names : stored'[m] \in SUBSET (1 .. created')
    BY <2>1, <2>4, <2>5 DEF StoredInv
  <2> QED
    BY <2>2, <2>3, <2>4, <2>5, <2>6, <2>7 DEF StoredInv
<1>5. ASSUME NEW n \in Names, StoreDelete(n)
      PROVE  StoredInv'
  BY <1>1, <1>5 DEF StoreDelete, StoredInv, TypeOK
<1> QED
  BY <1>1, <1>2, <1>3, <1>4, <1>5 DEF StoreMove

(* Keys move from the KeyStore to calls, from calls to the cache and from  *)
(* the cache to calls, always under the same name.                         *)
LEMMA NextGenuineInv ==
    ASSUME HIInv, HNext
    PROVE  GenuineInv'
<1> USE DEF HIInv, IInv
<1>1. StoredInv' /\ \A n \in Names : stored[n] \subseteq stored'[n]
  BY NextStoredInv
<1>2. IInv'
  BY NextIInv DEF HNext
<1>3. \A n \in Names : cache'[n] # Nil => cache'[n].Key \in stored'[n]
  <2>1. CacheMove
    BY CacheMoves DEF HNext
  <2> QED
    BY <1>1, <2>1 DEF CacheMove, GenuineInv, KeysGenuine, CallInv
<1>4. ASSUME NEW g \in Goroutines
      PROVE  /\ pc'[g] \in {"set", "unlock", "done"} => key'[g] \in stored'[name'[g]] \cup {NoKey}
             /\ pc'[g] \in {"touch", "touchLocked"} => ptr'[g].Key \in stored'[name'[g]]
             /\ pc'[g] \in {"idle", "touch", "acquire", "recheck", "touchLocked", "fetch"} => key'[g] = NoKey
             /\ pc'[g] = "evict" => key'[g] \in stored'[name'[g]]
  <2>1. CallMove(g)
    BY CallMoves DEF HNext
  <2>2. /\ pc'[g] # "idle" => name'[g] \in Names
        /\ pc'[g] \in {"touch", "touchLocked"} => ptr'[g] # Nil
        /\ pc[g] # "idle" => name[g] \in Names
    BY <1>2 DEF CallInv
  <2> QED
    BY <1>1, <2>1, <2>2 DEF CallMove, GenuineInv, KeysGenuine, StoredInv
<1> QED
  BY <1>3, <1>4 DEF GenuineInv, KeysGenuine

(* Delete removes the name from the cache in the step that marks its key   *)
(* as deleted.                                                             *)
LEMMA NextDeletedInv ==
    ASSUME HIInv, HNext
    PROVE  DeletedInv'
<1> USE DEF HIInv, IInv
<1>1. StoredInv' /\ \A n \in Names : stored[n] \subseteq stored'[n]
  BY NextStoredInv
<1>2. GenuineInv' /\ IInv'
  BY NextGenuineInv, NextIInv DEF HNext
<1>3. /\ deleted' = deleted \cup {key[g] : g \in Evicting}
      /\ deleted \ inflight \subseteq (deleted' \ inflight') \cup inflight'
      /\ inflight \subseteq inflight'
      /\ \A g \in Evicting, h \in Goroutines : pc[h] = "set" /\ key[h] = key[g] => key[h] \in inflight'
  BY DEF HNext, Observe, Evicting
<1>4. \A g \in Evicting : /\ g \in Goroutines
                          /\ pc[g] = "evict"
                          /\ name[g] \in Names
                          /\ key[g] \in stored[name[g]]
                          /\ cache'[name[g]] = Nil
  <2> SUFFICES ASSUME NEW g \in Goroutines, pc[g] = "evict", pc'[g] = "idle"
               PROVE  name[g] \in Names /\ key[g] \in stored[name[g]] /\ cache'[name[g]] = Nil
    BY DEF Evicting
  <2>1. CallMove(g)
    BY CallMoves DEF HNext
  <2> QED
    BY <2>1 DEF CallMove, CallInv, GenuineInv
<1>5. \A v \in deleted' : \E n \in Names : v \in stored'[n]
  BY <1>1, <1>3, <1>4 DEF DeletedInv
<1>6. \A n \in Names : store'[n] = store[n] \/ store'[n] = NoKey \/ store'[n] = created + 1
  BY StoreMoves DEF HNext, StoreMove, StoreCreate, StoreDelete, TypeOK
<1>7. \A n \in Names : \A v \in stored[n] : v # NoKey /\ v # created + 1
  BY BoundsAssumption DEF StoredInv, TypeOK, NoKey
<1>8. \A n \in Names : store'[n] \notin deleted'
  BY <1>3, <1>4, <1>6, <1>7 DEF DeletedInv
<1>9. ASSUME NEW g \in Goroutines
      PROVE  /\ pc'[g] = "evict" => \A n \in Names : store'[n] # key'[g]
             /\ pc'[g] = "set" /\ key'[g] \in deleted' => key'[g] \in inflight'
  <2>1. CallMove(g)
    BY CallMoves DEF HNext
  <2>2. pc'[g] = "evict" => \A n \in Names : store'[n] # key'[g]
    <3>1. CASE pc[g] = "evict"
      BY <2>1, <3>1, <1>6, <1>7 DEF CallMove, DeletedInv, GenuineInv, CallInv
    <3>2. CASE pc[g] # "evict" /\ pc'[g] = "evict"
      <4>1. /\ name'[g] \in Names /\ key'[g] = store[name'[g]] /\ key'[g] # NoKey
            /\ StoreDelete(name'[g])
        BY <2>1, <3>2 DEF CallMove
      <4>2. \A n \in Names : n # name'[g] => store[n] # key'[g]
        BY <4>1 DEF StoredInv
      <4> QED
        BY <4>1, <4>2 DEF StoreDelete, TypeOK
    <3> QED
      BY <3>1, <3>2
  <2>3. pc'[g] = "set" /\ key'[g] \in deleted' => key'[g] \in inflight'
    <3>1. CASE pc[g] = "set"
      BY <1>3, <2>1, <3>1 DEF CallMove, DeletedInv
    <3>2. CASE pc[g] # "set" /\ pc'[g] = "set"
      <4>1. name[g] \in Names /\ key'[g] = store[name[g]] /\ key'[g] # NoKey
        BY <2>1, <3>2 DEF CallMove, CallInv
      <4>2. key'[g] \notin deleted
        BY <4>1 DEF DeletedInv
      <4>3. \A d \in Evicting : key[d] # key'[g]
        BY <1>4, <4>1 DEF DeletedInv
      <4> QED
        BY <1>3, <4>2, <4>3
    <3> QED
      BY <3>1, <3>2
  <2> QED
    BY <2>2, <2>3
<1>10. DeletedStaysOut'
  <2> SUFFICES ASSUME NEW n \in Names, cache'[n] # Nil
               PROVE  cache'[n].Key \notin deleted' \ inflight'
    BY DEF DeletedStaysOut
  <2>1. cache'[n].Key \in stored'[n]
    BY <1>2 DEF GenuineInv, KeysGenuine
  <2>2. \A d \in Evicting : key[d] # cache'[n].Key
    BY <1>1, <1>4, <2>1 DEF StoredInv
  <2>3. cache'[n] = cache[n] \/ \E g \in Goroutines : pc[g] = "set" /\ cache'[n].Key = key[g]
    BY CacheMoves DEF CacheMove, HNext
  <2> QED
    BY <1>3, <2>2, <2>3 DEF DeletedInv, DeletedStaysOut
<1> QED
  BY <1>5, <1>8, <1>9, <1>10 DEF DeletedInv

(* HIInv is an inductive invariant of the key cache with its history.      *)
THEOREM HistoryInductive == HSpec => []HIInv
<1>1. HIInv /\ [HNext]_hvars => HIInv'
  <2> SUFFICES ASSUME HIInv, [HNext]_hvars PROVE HIInv'
    OBVIOUS
  <2>1. CASE UNCHANGED hvars
    <3>1. IInv'
      BY <2>1, NextIInv DEF HIInv, hvars
    <3>2. UNCHANGED <<store, created, cache, pc, name, ptr, key, stored, deleted, inflight>>
      BY <2>1 DEF hvars, vars, storeVars, cacheVars, goVars
    <3> QED
      BY <3>1, <3>2 DEF HIInv, StoredInv, GenuineInv, DeletedInv, KeysGenuine, DeletedStaysOut
  <2>2. CASE HNext
    BY <2>2, NextIInv, NextStoredInv, NextGenuineInv, NextDeletedInv DEF HIInv, HNext
  <2> QED
    BY <2>1, <2>2
<1> QED
  BY InitHIInv, <1>1, PTL DEF HSpec

(* A Get returns keys that were stored under its name, and the cache holds *)
(* no other.                                                               *)
THEOREM Genuine == HSpec => []KeysGenuine
BY HistoryInductive, PTL DEF HIInv, GenuineInv

(* A deleted key is cached again only by a Get that had already fetched it *)
(* when it was deleted.                                                    *)
THEOREM StaysOut == HSpec => []DeletedStaysOut
BY HistoryInductive, PTL DEF HIInv, DeletedInv
-----------------------------------------------------------------------------
(* Before a sweep looks at an entry, its Used flag tells whether it was    *)
(* accessed; after that, the flag is set only by an access during the      *)
(* sweep, which counts for the next one.                                   *)
AccessInv ==
    /\ access \in [Names -> Accesses]
    /\ ~Sweeping => late = {} /\ sweep = {}
    /\ \A n \in Names : n \in sweep => w[n] = Nil
    /\ \A n \in Names : cache[n] # Nil /\ (~Sweeping \/ n \in sweep) =>
        /\ access[n] = "since" => n \in used
        /\ n \in used => access[n] # "none" \/ n \in late
    /\ \A n \in Names : Sweeping /\ cache[n] # Nil /\ n \notin sweep /\ n \in used => n \in late
    /\ SweepsUnused

(* A step that sets a Used flag: of the entry a Get found, or of a new one.*)
LEMMA AccessMoves ==
    ASSUME IInv, Next
    PROVE  /\ \/ \E g \in Goroutines : GetTouch(g) \/ GetSet(g)
              \/ Accessing = {}
           /\ \A g \in Goroutines : GetTouch(g) =>
                  Accessing = IF cache[name[g]] = ptr[g] THEN {name[g]} ELSE {}
           /\ \A g \in Goroutines : GetSet(g) => Accessing = {name[g]}
<1> USE DEF IInv, Goto
<1> DEFINE Marks(h) == \/ pc[h] \in {"touch", "touchLocked"} /\ pc'[h] # pc[h] /\ cache[name[h]] = ptr[h]
                       \/ pc[h] = "set" /\ pc'[h] # pc[h]
<1>1. Accessing = {name[g] : g \in {h \in Goroutines : Marks(h)}}
  BY DEF Accessing
<1>2. ASSUME NEW g \in Goroutines, GetTouch(g)
      PROVE  Accessing = IF cache[name[g]] = ptr[g] THEN {name[g]} ELSE {}
  <2>1. \A h \in Goroutines : Marks(h) <=> h = g /\ cache[name[g]] = ptr[g]
    BY <1>2 DEF GetTouch, TypeOK
  <2> HIDE DEF Marks
  <2> QED
    BY <1>1, <2>1
<1>3. ASSUME NEW g \in Goroutines, GetSet(g)
      PROVE  Accessing = {name[g]}
  <2>1. \A h \in Goroutines : Marks(h) <=> h = g
    BY <1>3 DEF GetSet, TypeOK
  <2> HIDE DEF Marks
  <2> QED
    BY <1>1, <2>1
<1>4. ASSUME NEW g \in Goroutines, Handler(g), ~GetTouch(g), ~GetSet(g)
      PROVE  Accessing = {}
  <2>1. \A h \in Goroutines : ~Marks(h)
    BY <1>4 DEF Handler, HandlerStep, GetLookup, GetAcquire, GetRecheck, GetFetch, GetUnlock, GetReturn,
                Create, Delete, DeleteFailed, DeleteEvict, TypeOK, goVars
  <2> HIDE DEF Marks
  <2> QED
    BY <1>1, <2>1
<1>5. ASSUME UNCHANGED goVars
      PROVE  Accessing = {}
  <2>1. \A h \in Goroutines : ~Marks(h)
    BY <1>5 DEF goVars
  <2> HIDE DEF Marks
  <2> QED
    BY <1>1, <2>1
<1>6. (\E g \in Goroutines : Handler(g)) \/ UNCHANGED goVars
  BY DEF Next, Collect, Tick, DeleteAll, Sweep, SweepBegin, SweepVisit, SweepEnd, Status, StatusCheck,
         StatusStore, Exit, Close, Outage, Recovery
<1> QED
  BY <1>2, <1>3, <1>4, <1>5, <1>6

(* The steps that leave the entries, their flags and the sweep alone.      *)
LEMMA QuietMoves ==
    ASSUME IInv, Next
    PROVE  \/ \E g \in Goroutines : GetTouch(g) \/ GetSet(g) \/ DeleteEvict(g)
           \/ \E c \in {"Expiry", "ExpiryOffline"} : DeleteAll(c)
           \/ Sweep
           \/ /\ UNCHANGED <<cache, used, sweep, r, w>>
              /\ Sweeping' <=> Sweeping
              /\ Sweeping => gc'["ExpiryUnused"] # "wait"
<1> DEFINE Quiet == /\ UNCHANGED <<cache, used, sweep, r, w>>
                    /\ Sweeping' <=> Sweeping
                    /\ Sweeping => gc'["ExpiryUnused"] # "wait"
<1> USE DEF cacheVars, sweepVars, Sweeping
<1>1. ASSUME NEW g \in Goroutines, Handler(g)
      PROVE  GetTouch(g) \/ GetSet(g) \/ DeleteEvict(g) \/ Quiet
  BY <1>1 DEF Handler, HandlerStep, GetLookup, GetAcquire, GetRecheck, GetFetch, GetUnlock, GetReturn,
              Create, Delete, DeleteFailed
<1>2. ASSUME NEW c \in Collectors \ {"Status"}, Tick(c)
      PROVE  Quiet
  BY <1>2 DEF Tick, IInv, TypeOK
<1>3. ASSUME NEW c \in Collectors, Exit(c)
      PROVE  Quiet
  BY <1>3 DEF Exit, IInv, TypeOK
<1>4. ASSUME Status
      PROVE  Quiet
  <2>1. gc \in [Collectors -> {"wait", "run", "sweep", "up", "down", "exited"}]
    BY DEF IInv, TypeOK
  <2>2. gc'["ExpiryUnused"] = gc["ExpiryUnused"]
    BY <1>4, <2>1 DEF Status, StatusCheck, StatusStore, Collectors
  <2>3. UNCHANGED <<cacheVars, sweepVars>>
    BY <1>4 DEF Status, StatusCheck, StatusStore
  <2> QED
    BY <2>2, <2>3
<1>5. ASSUME Close \/ Outage \/ Recovery
      PROVE  Quiet
  BY <1>5 DEF Close, Outage, Recovery
<1> QED
  BY <1>1, <1>2, <1>3, <1>4, <1>5 DEF Next, Collect

(* One step per kind of step: an access, an eviction, a step of a sweep.   *)
LEMMA NextAccessInv ==
    ASSUME IInv, AccessInv, HNext
    PROVE  AccessInv'
<1> USE DEF IInv, SweepInv, Sweeping
<1>1. Next /\ ObserveAccess /\ IInv'
  BY NextIInv DEF HNext, Observe
<1>2. access' \in [Names -> Accesses] /\ (~Sweeping' => sweep' = {})
  <2>1. access' \in [Names -> Accesses]
    BY <1>1 DEF ObserveAccess, AccessInv, Accesses
  <2>2. ~Sweeping' => sweep' = {}
    BY <1>1
  <2> QED
    BY <2>1, <2>2
<1>3. ASSUME NEW g \in Goroutines, GetTouch(g)
      PROVE  AccessInv'
  <2>1. /\ UNCHANGED <<cache, sweep, r, w, gc>>
        /\ used' = used \cup Accessing
        /\ Accessing \subseteq Names
    <3>1. Accessing = IF cache[name[g]] = ptr[g] THEN {name[g]} ELSE {}
      BY <1>1, <1>3, AccessMoves
    <3>2. name[g] \in Names
      BY <1>3 DEF GetTouch, Goto, CallInv
    <3> QED
      BY <1>3, <3>1, <3>2 DEF GetTouch, sweepVars
  <2>2. CASE Sweeping
    <3>1. late' = late \cup Accessing /\ access' = [n \in Names |-> IF cache[n] = Nil THEN "none" ELSE access[n]]
      BY <1>1, <2>1, <2>2 DEF ObserveAccess
    <3> QED
      BY <1>2, <2>1, <2>2, <3>1 DEF AccessInv, SweepsUnused
  <2>3. CASE ~Sweeping
    <3>1. late' = late /\ \A n \in Names : cache[n] # Nil =>
                               access'[n] = IF n \in Accessing THEN "since" ELSE access[n]
      BY <1>1, <2>1, <2>3 DEF ObserveAccess
    <3> QED
      BY <1>2, <2>1, <2>3, <3>1 DEF AccessInv, SweepsUnused
  <2> QED
    BY <2>2, <2>3
<1>4. ASSUME NEW g \in Goroutines, GetSet(g)
      PROVE  AccessInv'
  <2>1. /\ ~Sweeping /\ ~Sweeping' /\ name[g] \in Names
        /\ used' = used \cup {name[g]}
        /\ Accessing = {name[g]}
        /\ \A n \in Names \ {name[g]} : cache'[n] = cache[n]
    BY <1>1, <1>4, AccessMoves DEF GetSet, Goto, sweepVars, TypeOK, CallInv
  <2>2. late' = late /\ \A n \in Names : cache'[n] # Nil =>
                             access'[n] = IF n = name[g] THEN "since" ELSE access[n]
    BY <1>1, <2>1 DEF ObserveAccess
  <2> QED
    BY <1>2, <2>1, <2>2 DEF AccessInv, SweepsUnused
<1>5. ASSUME \/ \E g \in Goroutines : DeleteEvict(g)
             \/ \E c \in {"Expiry", "ExpiryOffline"} : DeleteAll(c)
      PROVE  AccessInv'
  <2>1. ~Sweeping /\ ~Sweeping'
    BY <1>5 DEF DeleteEvict, DeleteAll, sweepVars, TypeOK, Collectors
  <2>2. \A n \in Names : cache'[n] # Nil => cache'[n] = cache[n] /\ (n \in used' <=> n \in used)
    BY <1>5 DEF DeleteEvict, DeleteAll, EmptyMap, TypeOK
  <2>3. Accessing = {}
    <3>1. ~\E g \in Goroutines : GetTouch(g) \/ GetSet(g)
      BY <1>5 DEF DeleteEvict, DeleteAll, GetTouch, GetSet, Goto, TypeOK, goVars
    <3> QED
      BY <1>1, <3>1, AccessMoves
  <2>4. late' = late /\ \A n \in Names : cache'[n] # Nil => access'[n] = access[n]
    BY <1>1, <2>1, <2>3 DEF ObserveAccess
  <2> QED
    BY <1>2, <2>1, <2>2, <2>4 DEF AccessInv, SweepsUnused
<1>6. ASSUME Sweep
      PROVE  AccessInv'
  <2>1. Accessing = {}
    <3>1. ~\E g \in Goroutines : GetTouch(g) \/ GetSet(g)
      BY <1>6 DEF Sweep, SweepBegin, SweepVisit, SweepEnd, GetTouch, GetSet, Goto, TypeOK, goVars
    <3> QED
      BY <1>1, <3>1, AccessMoves
  <2>2. CASE SweepBegin
    <3>1. /\ ~Sweeping /\ Sweeping' /\ UNCHANGED <<cache, used>>
          /\ \A n \in Names : cache[n] # Nil => n \in sweep'
          /\ r' = cache /\ \A n \in Names : w'[n] = Nil
      BY <2>2 DEF SweepBegin, cacheVars, TypeOK, Collectors, Cached
    <3>2. late' = late /\ \A n \in Names : cache'[n] # Nil => access'[n] = access[n]
      BY <1>1, <2>1, <3>1 DEF ObserveAccess
    <3> QED
      BY <1>2, <3>1, <3>2 DEF AccessInv, SweepsUnused
  <2>3. ASSUME NEW n \in Names, SweepVisit(n)
        PROVE  AccessInv'
    <3>1. /\ Sweeping /\ Sweeping' /\ UNCHANGED <<cache, r, gc>> /\ r = cache
          /\ n \in sweep /\ sweep' = sweep \ {n} /\ used' = used \ {n}
          /\ w'[n] = IF n \in used THEN r[n] ELSE w[n]
          /\ \A m \in Names \ {n} : w'[m] = w[m]
      BY <2>3 DEF SweepVisit, TypeOK, Collectors
    <3>2. late' = late /\ \A m \in Names : cache'[m] # Nil => access'[m] = access[m]
      BY <1>1, <2>1, <3>1 DEF ObserveAccess
    <3>3. SweepsUnused'
      <4> SUFFICES ASSUME NEW m \in Names, r'[m] # Nil, m \notin sweep'
                   PROVE  /\ access'[m] = "since" => w'[m] # Nil
                          /\ w'[m] # Nil => access'[m] # "none" \/ m \in late'
        BY DEF SweepsUnused
      <4>1. CASE m = n /\ n \in used
        BY <3>1, <3>2, <4>1 DEF AccessInv
      <4>2. CASE m = n /\ n \notin used
        <5>1. access[n] # "since"
          BY <3>1, <4>2 DEF AccessInv
        <5>2. w[n] = Nil
          BY <3>1 DEF AccessInv
        <5> QED
          BY <3>1, <3>2, <4>2, <5>1, <5>2
      <4>3. CASE m # n
        BY <3>1, <3>2, <4>3 DEF AccessInv, SweepsUnused
      <4> QED
        BY <4>1, <4>2, <4>3
    <3> QED
      BY <1>2, <3>1, <3>2, <3>3 DEF AccessInv
  <2>4. CASE SweepEnd
    <3>1. /\ Sweeping /\ ~Sweeping' /\ gc'["ExpiryUnused"] = "wait" /\ sweep = {}
          /\ cache' = w /\ used' = {n \in used : w[n] # Nil}
      BY <2>4 DEF SweepEnd, TypeOK, Collectors
    <3>2. late' = {} /\ \A n \in Names : cache'[n] # Nil => access'[n] = IF n \in late THEN "during" ELSE "none"
      BY <1>1, <3>1 DEF ObserveAccess
    <3> QED
      BY <1>2, <3>1, <3>2 DEF AccessInv, SweepsUnused
  <2> QED
    BY <1>6, <2>2, <2>3, <2>4 DEF Sweep
<1>7. ASSUME UNCHANGED <<cache, used, sweep, r, w>>, Sweeping' <=> Sweeping,
             Sweeping => gc'["ExpiryUnused"] # "wait",
             ~\E g \in Goroutines : GetTouch(g) \/ GetSet(g)
      PROVE  AccessInv'
  <2>1. Accessing = {}
    BY <1>1, <1>7, AccessMoves
  <2>2. late' = late /\ \A n \in Names : cache'[n] # Nil => access'[n] = access[n]
    BY <1>1, <1>7, <2>1 DEF ObserveAccess
  <2> QED
    BY <1>2, <1>7, <2>2 DEF AccessInv, SweepsUnused
<1> QED
  BY <1>1, <1>3, <1>4, <1>5, <1>6, <1>7, QuietMoves

(* ExpiryUnused evicts the entries that were not accessed, and no others,  *)
(* whatever Gets run while it looks at the flags.                          *)
THEOREM UnusedEvicted == HSpec => []SweepsUnused
<1>1. HInit => AccessInv
  BY DEF HInit, Init, AccessInv, SweepsUnused, Sweeping, Accesses, EmptyMap
<1>2. IInv /\ AccessInv /\ [HNext]_hvars => AccessInv'
  <2> SUFFICES ASSUME IInv, AccessInv, UNCHANGED hvars PROVE AccessInv'
    BY NextAccessInv
  <2> QED
    BY DEF AccessInv, SweepsUnused, Sweeping, hvars, vars, cacheVars, sweepVars
<1> QED
  BY <1>1, <1>2, HistoryInductive, PTL DEF HSpec, HIInv, AccessInv
=============================================================================
