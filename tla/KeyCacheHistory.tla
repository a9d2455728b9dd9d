-------------------------- MODULE KeyCacheHistory --------------------------
(***************************************************************************)
(* KeyCache with history variables, which observe its steps and restrict   *)
(* none of them: what was ever stored, what was deleted, what a Get could  *)
(* know when it started, and which entries were accessed between sweeps.   *)
(***************************************************************************)
EXTENDS KeyCache

VARIABLES
    stored,     \* every version ever stored under each name
    deleted,    \* versions a Delete of this cache removed, returning nil
    inflight,   \* deleted versions a Get had already fetched, but not inserted,
                \* when Delete removed the name from the cache
    before,     \* the value of deleted when the goroutine's Get started
    access,     \* when each cached entry was accessed, if so: see Accesses
    late        \* names whose entry was accessed during the sweep under way

hvars == <<vars, stored, deleted, inflight, before, access, late>>

(* An entry was accessed between the last sweep and the one under way or   *)
(* to come, or at the earliest during the last sweep and not after it.     *)
Accesses == {"since", "during", "none"}

HInit ==
    /\ Init
    /\ stored = [n \in Names |-> {store[n]} \ {NoKey}]
    /\ deleted = {}
    /\ inflight = {}
    /\ before = [g \in Goroutines |-> {}]
    /\ access = [n \in Names |-> "none"]
    /\ late = {}

(* The goroutines whose Delete removes its name from the cache in a step.  *)
Evicting == {g \in Goroutines : pc[g] = "evict" /\ pc'[g] = "idle"}

(* The names whose cached entry a Get marks as used in a step: the entry   *)
(* it found, if that is still the cached one, or the one it inserts.       *)
Accessing ==
    {name[g] : g \in {h \in Goroutines :
        \/ pc[h] \in {"touch", "touchLocked"} /\ pc'[h] # pc[h] /\ cache[name[h]] = ptr[h]
        \/ pc[h] = "set" /\ pc'[h] # pc[h]}}

Sweeping == gc["ExpiryUnused"] = "sweep"

ObserveAccess ==
    LET ends == Sweeping /\ gc'["ExpiryUnused"] = "wait"
    IN  /\ late' = CASE ends -> {}
                     [] Sweeping /\ ~ends -> late \cup Accessing
                     [] OTHER -> late
        /\ access' = [n \in Names |->
                CASE cache'[n] = Nil -> "none"
                  [] cache'[n] # Nil /\ ends -> IF n \in late THEN "during" ELSE "none"
                  [] cache'[n] # Nil /\ ~Sweeping /\ n \in Accessing -> "since"
                  [] OTHER -> access[n]]

Observe ==
    /\ stored' = [n \in Names |-> stored[n] \cup ({store'[n]} \ {NoKey})]
    /\ deleted' = deleted \cup {key[g] : g \in Evicting}
    /\ inflight' = inflight \cup
         {key[g] : g \in {d \in Evicting : \E h \in Goroutines : pc[h] = "set" /\ key[h] = key[d]}}
    /\ before' = [g \in Goroutines |->
                    CASE pc[g] = "idle" /\ pc'[g] \in {"touch", "acquire"} -> deleted
                      [] pc'[g] = "idle" -> {}
                      [] OTHER -> before[g]]
    /\ ObserveAccess

HNext == Next /\ Observe

HSpec == HInit /\ [][HNext]_hvars

-----------------------------------------------------------------------------
(* A Get that returns a key returns one that was stored under its name,    *)
(* whatever was evicted, deleted or fetched since its first lookup.        *)
KeysGenuine ==
    /\ \A n \in Names : cache[n] # Nil => cache[n].Key \in stored[n]
    /\ \A g \in Goroutines :
        pc[g] \in {"set", "unlock", "done"} => key[g] \in stored[name[g]] \cup {NoKey}

(* A key that Delete removed is back in the cache only if a Get had        *)
(* fetched it before and had not inserted it yet: no collector that builds *)
(* its map meanwhile, no later Get, no Create brings it back.              *)
DeletedStaysOut ==
    \A n \in Names :
        cache[n] # Nil => cache[n].Key \notin deleted \ inflight

(* "Keys that haven't been accessed get evicted from the cache" and one    *)
(* that was accessed "in the interval" remains (config.go, ExpiryUnused):  *)
(* an entry that a Get marked as used after the last sweep ended and       *)
(* before this one began survives this one, and an entry that survives was *)
(* accessed since the last sweep began.  Gets set the flag while a sweep   *)
(* clears it, before or after it was looked at.                            *)
SweepsUnused ==
    Sweeping => \A n \in Names : r[n] # Nil /\ n \notin sweep =>
        /\ access[n] = "since" => w[n] # Nil
        /\ w[n] # Nil => access[n] # "none" \/ n \in late

(* "Delete deletes the key from the key store and removes it from the      *)
(* cache" (keystore.go): a Get that starts after Delete has returned       *)
(* without an error does not return the deleted key.                       *)
DeletedNotServed ==
    \A g \in Goroutines : pc[g] = "done" => key[g] \notin before[g]
=============================================================================
