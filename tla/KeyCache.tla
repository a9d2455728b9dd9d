------------------------------ MODULE KeyCache ------------------------------
(***************************************************************************)
(* keystore.go: keyCache, the in-memory cache between the request handlers *)
(* and a KeyStore, with its background garbage collectors.                 *)
(*                                                                         *)
(* Goroutines (request handlers) call Get, Create and Delete concurrently. *)
(* Every access to shared state is a step of its own: a lookup in the      *)
(* copy-on-write cache, a call of the KeyStore, setting an entry's Used    *)
(* flag, inserting into the cache.  The Barrier of Get is used at the      *)
(* level of KeyLock, which Barrier implements.  Cache entries have an      *)
(* identity: a goroutine may still point to an entry that was evicted, or  *)
(* evicted and replaced by one for the same key.                           *)
(*                                                                         *)
(* A key is abstracted to a version number, unique to the Create that made *)
(* it.  The KeyStore (Create, Delete, Get and Status of the interface) is  *)
(* external: a linearizable map whose calls may fail, before or after they *)
(* took effect.  Other KES servers may write it as well: what they do is   *)
(* what Create and DeleteFailed of an idle goroutine do.                   *)
(***************************************************************************)
EXTENDS Naturals, FiniteSets

CONSTANTS
    Goroutines,   \* concurrent callers
    Names,        \* key names
    Addresses,    \* where cacheEntry objects are allocated: numbers
    Nil,          \* the nil pointer, and "no name", "no goroutine"
    Scenarios,    \* the pairs of a CacheConfig and an environment considered
    MaxVersion    \* bound: keys ever created

(* A CacheConfig, abstracted to which of its three durations are positive. *)
Config == [Expiry : BOOLEAN, ExpiryUnused : BOOLEAN, ExpiryOffline : BOOLEAN]

(* How often the KeyStore becomes unreachable (a bound), whether the cache *)
(* is closed at some time, and which goroutines call it.                   *)
Environment == [outages : Nat, closes : BOOLEAN, callers : SUBSET Goroutines]

ASSUME ScenariosAssumption == Scenarios \subseteq Config \X Environment
ASSUME NilAssumption == Nil \notin Names \cup Goroutines \cup [Key : Nat, at : Nat]
ASSUME BoundsAssumption == MaxVersion \in Nat /\ Addresses \subseteq Nat

Versions == 1 .. MaxVersion
NoKey == 0                        \* absent from the KeyStore; no key returned
Entries == [Key : Versions, at : Addresses]
EmptyMap == [n \in Names |-> Nil]
Collectors == {"Expiry", "ExpiryUnused", "ExpiryOffline", "Status"}

VARIABLES
    conf,       \* the CacheConfig passed to newCache
    env,        \* the environment; env.outages counts down
    store,      \* the KeyStore: the version stored under each name, or NoKey
    created,    \* number of versions created so far
    reachable,  \* whether the KeyStore answers
    cache,      \* keyCache.cache: the cacheEntry of each name, or Nil
    used,       \* the names whose cached entry has its Used flag set
    barrier,    \* keyCache.barrier: the goroutine that locked each name, or Nil
    mu,         \* Cow.mu is held by a running DeleteFunc
    offline,    \* keyCache.offline
    closed,     \* keyCache.stop was called
    pc,         \* where each goroutine is
    name,       \* the name its call is about
    ptr,        \* the entry its last lookup returned, or Nil
    key,        \* the version it fetched, returns or deleted, or NoKey
    gc,         \* where each garbage collector is
    sweep,      \* DeleteFunc: names not visited yet
    r,          \* DeleteFunc: the map it iterates over
    w           \* DeleteFunc: the map that will replace it

storeVars == <<store, created>>
envVars == <<conf, env, reachable, closed>>
cacheVars == <<cache, used>>
goVars == <<pc, name, ptr, key>>
sweepVars == <<mu, sweep, r, w>>
vars == <<storeVars, envVars, cacheVars, barrier, offline, goVars, gc, sweepVars>>

Steps == {"idle", "touch", "acquire", "recheck", "touchLocked", "fetch", "set",
          "unlock", "evict", "done"}

TypeOK ==
    /\ conf \in Config
    /\ env \in Environment
    /\ store \in [Names -> Versions \cup {NoKey}]
    /\ created \in 0 .. MaxVersion
    /\ reachable \in BOOLEAN
    /\ cache \in [Names -> Entries \cup {Nil}]
    /\ used \in SUBSET Names
    /\ barrier \in [Names -> Goroutines \cup {Nil}]
    /\ mu \in BOOLEAN
    /\ offline \in BOOLEAN
    /\ closed \in BOOLEAN
    /\ pc \in [Goroutines -> Steps]
    /\ name \in [Goroutines -> Names \cup {Nil}]
    /\ ptr \in [Goroutines -> Entries \cup {Nil}]
    /\ key \in [Goroutines -> Versions \cup {NoKey}]
    /\ gc \in [Collectors -> {"wait", "run", "sweep", "up", "down", "exited"}]
    /\ sweep \in SUBSET Names
    /\ r \in [Names -> Entries \cup {Nil}]
    /\ w \in [Names -> Entries \cup {Nil}]

(* newCache: gc returns at once for an interval that is not positive.  The *)
(* KeyStore may hold keys from an earlier run of the server.               *)
Init ==
    /\ \E s \in Scenarios : conf = s[1] /\ env = s[2]
    /\ created \in 0 .. MaxVersion
    /\ store \in [Names -> (1 .. created) \cup {NoKey}]
    /\ \A m, n \in Names : store[m] = store[n] /\ store[m] # NoKey => m = n
    /\ reachable = TRUE
    /\ cache = EmptyMap
    /\ used = {}
    /\ barrier = [n \in Names |-> Nil]
    /\ mu = FALSE
    /\ offline = FALSE
    /\ closed = FALSE
    /\ pc = [g \in Goroutines |-> "idle"]
    /\ name = [g \in Goroutines |-> Nil]
    /\ ptr = [g \in Goroutines |-> Nil]
    /\ key = [g \in Goroutines |-> NoKey]
    /\ gc = [c \in Collectors |->
                IF c # "Status" /\ ~conf[c] THEN "exited" ELSE "wait"]
    /\ sweep = {}
    /\ r = EmptyMap
    /\ w = EmptyMap

-----------------------------------------------------------------------------
(* A goroutine moves on.                                                   *)
Goto(g, from, to) ==
    /\ pc[g] = from
    /\ pc' = [pc EXCEPT ![g] = to]

(***************************************************************************)
(* Get(name)                                                               *)
(*                                                                         *)
(* Reading the cache takes no lock: it sees the map of the moment.  A miss *)
(* of the first lookup goes on to wait for the barrier.                    *)
(***************************************************************************)
GetLookup(g, n) ==
    /\ Goto(g, "idle", IF cache[n] # Nil THEN "touch" ELSE "acquire")
    /\ name' = [name EXCEPT ![g] = n]
    /\ ptr' = [ptr EXCEPT ![g] = cache[n]]
    /\ UNCHANGED <<storeVars, envVars, cacheVars, barrier, offline, key, gc, sweepVars>>

(* entry.Used.Store(true) and return entry.Key.  If the entry is no longer *)
(* the cached one, nobody will look at its flag again.                     *)
GetTouch(g) ==
    /\ \/ Goto(g, "touch", "done")
       \/ Goto(g, "touchLocked", "unlock")
    /\ used' = IF cache[name[g]] = ptr[g] THEN used \cup {name[g]} ELSE used
    /\ key' = [key EXCEPT ![g] = ptr[g].Key]
    /\ ptr' = [ptr EXCEPT ![g] = Nil]
    /\ UNCHANGED <<storeVars, envVars, cache, barrier, offline, name,
                   gc, sweepVars>>

(* Mutant of GetAcquire: the barrier is not waited for.                    *)
GetAcquireAlways(g) ==
    /\ Goto(g, "acquire", "recheck")
    /\ barrier' = [barrier EXCEPT ![name[g]] = g]
    /\ UNCHANGED <<storeVars, envVars, cacheVars, offline, name, ptr, key, gc, sweepVars>>

(* barrier.Lock: see KeyLock.                                              *)
GetAcquire(g) ==
    /\ Goto(g, "acquire", "recheck")
    /\ barrier[name[g]] = Nil
    /\ barrier' = [barrier EXCEPT ![name[g]] = g]
    /\ UNCHANGED <<storeVars, envVars, cacheVars, offline, name, ptr, key,
                   gc, sweepVars>>

(* Mutant of GetRecheck: the cache is not checked again.                   *)
GetNoRecheck(g) ==
    /\ Goto(g, "recheck", "fetch")
    /\ UNCHANGED <<storeVars, envVars, cacheVars, barrier, offline, name, ptr, key,
                   gc, sweepVars>>

(* The second lookup, behind the barrier.                                  *)
GetRecheck(g) ==
    /\ Goto(g, "recheck", IF cache[name[g]] # Nil THEN "touchLocked" ELSE "fetch")
    /\ ptr' = [ptr EXCEPT ![g] = cache[name[g]]]
    /\ UNCHANGED <<storeVars, envVars, cacheVars, barrier, offline, name, key,
                   gc, sweepVars>>

(* Mutant of GetFetch: ErrKeyNotFound is not handled.                      *)
GetFetchUnchecked(g) ==
    /\ Goto(g, "fetch", "set")
    /\ key' = [key EXCEPT ![g] = store[name[g]]]
    /\ UNCHANGED <<storeVars, envVars, cacheVars, barrier, offline, name, ptr,
                   gc, sweepVars>>

(* Mutant of GetFetch: an error returns without unlocking the barrier.     *)
GetFetchNoUnlock(g) ==
    /\ \/ /\ Goto(g, "fetch", "set")
          /\ reachable
          /\ store[name[g]] # NoKey
          /\ key' = [key EXCEPT ![g] = store[name[g]]]
       \/ /\ Goto(g, "fetch", "done")
          /\ UNCHANGED key
    /\ UNCHANGED <<storeVars, envVars, cacheVars, barrier, offline, name, ptr,
                   gc, sweepVars>>

(* store.Get and ParseKeyVersion: the key, ErrKeyNotFound, or any other    *)
(* error, each of which ends the call.                                     *)
GetFetch(g) ==
    /\ \/ /\ Goto(g, "fetch", "set")
          /\ reachable
          /\ store[name[g]] # NoKey
          /\ key' = [key EXCEPT ![g] = store[name[g]]]
       \/ /\ Goto(g, "fetch", "unlock")
          /\ UNCHANGED key
    /\ UNCHANGED <<storeVars, envVars, cacheVars, barrier, offline, name, ptr,
                   gc, sweepVars>>

(* The address of a new cacheEntry: the lowest that nothing points to,     *)
(* for it makes no difference which.                                       *)
Unused(a) ==
    /\ \A n \in Names : cache[n] # Nil => cache[n].at # a
    /\ \A g \in Goroutines : ptr[g] # Nil => ptr[g].at # a

(* The new entry, marked as used, goes into the cache.                     *)
GetSet(g) ==
    /\ Goto(g, "set", "unlock")
    /\ ~mu
    /\ \E a \in Addresses :
        /\ Unused(a)
        /\ \A b \in Addresses : Unused(b) => a <= b
        /\ cache' = [cache EXCEPT ![name[g]] = [Key |-> key[g], at |-> a]]
    /\ used' = used \cup {name[g]}
    /\ UNCHANGED <<storeVars, envVars, barrier, offline, name, ptr, key,
                   gc, sweepVars>>

(* The deferred barrier.Unlock, on every path.                             *)
GetUnlock(g) ==
    /\ Goto(g, "unlock", "done")
    /\ barrier' = [barrier EXCEPT ![name[g]] = Nil]
    /\ UNCHANGED <<storeVars, envVars, cacheVars, offline, name, ptr, key,
                   gc, sweepVars>>

(* The handler gets the key, or the error if key is NoKey.                 *)
GetReturn(g) ==
    /\ Goto(g, "done", "idle")
    /\ name' = [name EXCEPT ![g] = Nil]
    /\ key' = [key EXCEPT ![g] = NoKey]
    /\ UNCHANGED <<storeVars, envVars, cacheVars, barrier, offline, ptr, gc, sweepVars>>

(***************************************************************************)
(* Create(name): a new key goes to the KeyStore and not into the cache.    *)
(* If it fails, the entry may have been created nevertheless; if it did    *)
(* not take effect, the call left no trace.                                *)
(***************************************************************************)
StoreCreate(n) ==
    /\ reachable
    /\ created < MaxVersion
    /\ store[n] = NoKey
    /\ created' = created + 1
    /\ store' = [store EXCEPT ![n] = created + 1]

Create(g, n) ==
    /\ pc[g] = "idle"
    /\ StoreCreate(n)
    /\ UNCHANGED <<envVars, cacheVars, barrier, offline, goVars, gc, sweepVars>>

(***************************************************************************)
(* Delete(name): the KeyStore first.  An error, ErrKeyNotFound included,   *)
(* ends the call and leaves the cache alone, also if the entry was removed *)
(* and only the answer got lost.                                           *)
(***************************************************************************)
StoreDelete(n) ==
    /\ reachable
    /\ store[n] # NoKey
    /\ store' = [store EXCEPT ![n] = NoKey]
    /\ UNCHANGED created

Delete(g, n) ==
    /\ Goto(g, "idle", "evict")
    /\ StoreDelete(n)
    /\ name' = [name EXCEPT ![g] = n]
    /\ key' = [key EXCEPT ![g] = store[n]]
    /\ UNCHANGED <<envVars, cacheVars, barrier, offline, ptr, gc, sweepVars>>

DeleteFailed(g, n) ==
    /\ pc[g] = "idle"
    /\ StoreDelete(n)
    /\ UNCHANGED <<envVars, cacheVars, barrier, offline, goVars, gc, sweepVars>>

(* Mutant of DeleteEvict: Cow.Delete does not lock Cow.mu.                 *)
DeleteEvictUnlocked(g) ==
    /\ Goto(g, "evict", "idle")
    /\ cache' = [cache EXCEPT ![name[g]] = Nil]
    /\ used' = used \ {name[g]}
    /\ name' = [name EXCEPT ![g] = Nil]
    /\ key' = [key EXCEPT ![g] = NoKey]
    /\ UNCHANGED <<storeVars, envVars, barrier, offline, ptr, gc, sweepVars>>

DeleteEvict(g) ==
    /\ Goto(g, "evict", "idle")
    /\ ~mu
    /\ cache' = [cache EXCEPT ![name[g]] = Nil]
    /\ used' = used \ {name[g]}
    /\ name' = [name EXCEPT ![g] = Nil]
    /\ key' = [key EXCEPT ![g] = NoKey]
    /\ UNCHANGED <<storeVars, envVars, barrier, offline, ptr, gc, sweepVars>>

(* A call that has started goes on.                                        *)
HandlerStep(g) ==
    \/ GetTouch(g)
    \/ GetAcquire(g)
    \/ GetRecheck(g)
    \/ GetFetch(g)
    \/ GetSet(g)
    \/ GetUnlock(g)
    \/ GetReturn(g)
    \/ DeleteEvict(g)

Handler(g) ==
    \/ /\ g \in env.callers
       /\ \E n \in Names : \/ GetLookup(g, n)
                           \/ Create(g, n)
                           \/ Delete(g, n)
                           \/ DeleteFailed(g, n)
    \/ HandlerStep(g)

-----------------------------------------------------------------------------
(* Mutant of Due: Expiry does not check whether offline caching is on.     *)
DueOnline(c) ==
    IF c = "ExpiryOffline" THEN offline /\ conf.ExpiryOffline ELSE ~offline

(***************************************************************************)
(* The garbage collectors.  A tick reads the offline flag; what follows    *)
(* depends on the value read, even when it changes meanwhile.  A tick that *)
(* is not due does nothing.                                                *)
(***************************************************************************)
Due(c) ==
    CASE c = "Expiry"        -> ~offline \/ ~conf.ExpiryOffline
      [] c = "ExpiryUnused"  -> ~offline \/ ~conf.ExpiryOffline
      [] c = "ExpiryOffline" -> offline /\ conf.ExpiryOffline

Tick(c) ==
    /\ gc[c] = "wait"
    /\ Due(c)
    /\ gc' = [gc EXCEPT ![c] = "run"]
    /\ UNCHANGED <<storeVars, envVars, cacheVars, barrier, offline, goVars, sweepVars>>

(* Cow.DeleteAll, which Expiry and ExpiryOffline run.                      *)
DeleteAll(c) ==
    /\ gc[c] = "run"
    /\ ~mu
    /\ cache' = EmptyMap
    /\ used' = {}
    /\ gc' = [gc EXCEPT ![c] = "wait"]
    /\ UNCHANGED <<storeVars, envVars, barrier, offline, goVars, sweepVars>>

(* Cow.DeleteFunc, which ExpiryUnused runs: it holds Cow.mu, asks f about  *)
(* one entry after the other and then publishes the map of those that f    *)
(* returned false for.  f clears the Used flag and returns true if it was  *)
(* not set.                                                                *)
Cached == {n \in Names : cache[n] # Nil}

SweepBegin ==
    /\ gc["ExpiryUnused"] = "run"
    /\ ~mu
    /\ mu' = TRUE
    /\ sweep' = Cached
    /\ r' = cache
    /\ gc' = [gc EXCEPT !["ExpiryUnused"] = "sweep"]
    /\ UNCHANGED <<storeVars, envVars, cacheVars, barrier, offline, goVars, w>>

(* Mutant of SweepVisit: the Used flag is read but not cleared.            *)
SweepVisitKeep(n) ==
    /\ n \in sweep
    /\ sweep' = sweep \ {n}
    /\ w' = IF n \in used THEN [w EXCEPT ![n] = r[n]] ELSE w
    /\ UNCHANGED <<storeVars, envVars, cacheVars, barrier, offline, goVars, gc, mu, r>>

SweepVisit(n) ==
    /\ n \in sweep
    /\ sweep' = sweep \ {n}
    /\ w' = IF n \in used THEN [w EXCEPT ![n] = r[n]] ELSE w
    /\ used' = used \ {n}
    /\ UNCHANGED <<storeVars, envVars, cache, barrier, offline, goVars, gc, mu, r>>

SweepEnd ==
    /\ gc["ExpiryUnused"] = "sweep"
    /\ sweep = {}
    /\ cache' = w
    /\ used' = {n \in used : w[n] # Nil}
    /\ r' = EmptyMap
    /\ w' = EmptyMap
    /\ mu' = FALSE
    /\ gc' = [gc EXCEPT !["ExpiryUnused"] = "wait"]
    /\ UNCHANGED <<storeVars, envVars, barrier, offline, goVars, sweep>>

Sweep == SweepBegin \/ (\E n \in Names : SweepVisit(n)) \/ SweepEnd

(* The status check.  One that Close cancels counts as success or failure: *)
(* KeyStores wrap the error such that errors.Is does not find it.          *)
StatusCheck ==
    /\ gc["Status"] = "wait"
    /\ \E up \in IF closed THEN BOOLEAN ELSE {reachable} :
        gc' = [gc EXCEPT !["Status"] = IF up THEN "up" ELSE "down"]
    /\ UNCHANGED <<storeVars, envVars, cacheVars, barrier, offline, goVars, sweepVars>>

(* The flag is stored later, when the answer may be out of date.           *)
StatusStore ==
    /\ gc["Status"] \in {"up", "down"}
    /\ offline' = (gc["Status"] = "down")
    /\ gc' = [gc EXCEPT !["Status"] = "wait"]
    /\ UNCHANGED <<storeVars, envVars, cacheVars, barrier, goVars, sweepVars>>

Status == StatusCheck \/ StatusStore

(* Mutant of Exit: the status check does not watch the context.            *)
ExitButStatus(c) ==
    /\ closed
    /\ c # "Status"
    /\ gc[c] = "wait"
    /\ gc' = [gc EXCEPT ![c] = "exited"]
    /\ UNCHANGED <<storeVars, envVars, cacheVars, barrier, offline, goVars, sweepVars>>

(* Once the context is canceled a collector exits, but may serve another   *)
(* tick before: select picks any of two ready channels.                    *)
Exit(c) ==
    /\ closed
    /\ gc[c] = "wait"
    /\ gc' = [gc EXCEPT ![c] = "exited"]
    /\ UNCHANGED <<storeVars, envVars, cacheVars, barrier, offline, goVars, sweepVars>>

Collect ==
    \/ \E c \in Collectors \ {"Status"} : Tick(c)
    \/ \E c \in {"Expiry", "ExpiryOffline"} : DeleteAll(c)
    \/ Sweep
    \/ Status
    \/ \E c \in Collectors : Exit(c)

(* Close: cancels the context of the collectors and closes the KeyStore.   *)
Close ==
    /\ env.closes
    /\ ~closed
    /\ closed' = TRUE
    /\ UNCHANGED <<storeVars, conf, env, reachable, cacheVars, barrier, offline,
                   goVars, gc, sweepVars>>

-----------------------------------------------------------------------------
(***************************************************************************)
(* The environment: the KeyStore becomes unreachable and returns.          *)
(***************************************************************************)
Outage ==
    /\ reachable
    /\ env.outages > 0
    /\ reachable' = FALSE
    /\ env' = [env EXCEPT !.outages = @ - 1]
    /\ UNCHANGED <<storeVars, conf, closed, cacheVars, barrier, offline,
                   goVars, gc, sweepVars>>

Recovery ==
    /\ ~reachable
    /\ reachable' = TRUE
    /\ UNCHANGED <<storeVars, conf, env, closed, cacheVars, barrier, offline,
                   goVars, gc, sweepVars>>

Next ==
    \/ \E g \in Goroutines : Handler(g)
    \/ Collect
    \/ Close
    \/ Outage
    \/ Recovery

Spec == Init /\ [][Next]_vars

(***************************************************************************)
(* Scheduling.  A goroutine that can run is run.  The steps that may have  *)
(* to wait, for the barrier or for Cow.mu, are granted eventually: a       *)
(* sync.Mutex does not starve a waiter, and neither does a Barrier, hence  *)
(* strong fairness.  Tickers tick for ever, every check of Status returns, *)
(* and a collector whose context is canceled does not choose the ticker    *)
(* every time.  Callers and the environment owe nothing: outages end only  *)
(* to begin again finitely often.                                          *)
(***************************************************************************)
Fairness ==
    /\ \A g \in Goroutines : SF_vars(HandlerStep(g))
    /\ \A c \in {"Expiry", "ExpiryOffline"} : SF_vars(Tick(c) \/ DeleteAll(c))
    /\ SF_vars(Tick("ExpiryUnused") \/ Sweep)
    /\ WF_vars(Status)
    /\ SF_vars(\E c \in Collectors : Exit(c))

FairSpec == Spec /\ Fairness

-----------------------------------------------------------------------------
(* "Multiple concurrent Get calls for the same key, that is not in the     *)
(* cache, are serialized" (keystore.go, Get): a key is fetched from the    *)
(* KeyStore only while it is not cached, so N concurrent Gets cost one     *)
(* fetch and no Get replaces the entry another one inserted.               *)
FetchOnlyWhenAbsent ==
    \A g \in Goroutines : pc[g] \in {"fetch", "set"} => cache[name[g]] = Nil

(* Every Get returns, on every path, and so does every Delete and Create.  *)
CallsReturn ==
    \A g \in Goroutines : pc[g] # "idle" ~> pc[g] = "idle"

(* With Expiry set, a key that is no longer in the KeyStore leaves the     *)
(* cache at last, whether the KeyStore stays reachable or not and however  *)
(* often the stale key is used.                                            *)
Stale(n) == cache[n] # Nil /\ cache[n].Key # store[n]

StaleExpires ==
    \A n \in Names : (conf.Expiry /\ Stale(n)) ~> (~Stale(n) \/ closed)

(* Close stops all collectors, the one that just checks the status too.    *)
CloseStopsCollectors ==
    closed ~> \A c \in Collectors : gc[c] = "exited"

(* Get uses the barrier as KeyLock allows: whoever unlocks holds the lock. *)
waitingOf == [n \in Names |-> {g \in Goroutines : name[g] = n /\ pc[g] = "acquire"}]
holdingOf == [n \in Names |-> {barrier[n]} \ {Nil}]

KL == INSTANCE KeyLock WITH Keys <- Names, waiting <- waitingOf, holding <- holdingOf

UsesKeyLock == KL!Spec
=============================================================================
