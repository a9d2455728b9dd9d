--------------------------- MODULE BarrierProofs ---------------------------
(***************************************************************************)
(* Proofs about Barrier, for any finite set of goroutines and any sets of  *)
(* keys and addresses.                                                     *)
(*                                                                         *)
(* Mutual exclusion is not inductive by itself.  It rests on two facts     *)
(* that have to be carried along: all goroutines that want or have a key   *)
(* refer to the object the map holds for it (SameObject), and the object   *)
(* stays in the map as long as there is one of them, which is what the     *)
(* exact reference count is for (CountExact).                              *)
(***************************************************************************)
EXTENDS Barrier, FiniteSetTheorems, TLAPS

(* TypeOK, without the bound on N, which follows from CountExact.          *)
Types ==
    /\ keys \in [Keys -> Barriers \cup {Nil}]
    /\ N \in [Barriers -> Nat]
    /\ locked \in [Barriers -> BOOLEAN]
    /\ pc \in [Goroutines -> {"idle", "acquire", "held", "release"}]
    /\ key \in [Goroutines -> Keys \cup {Nil}]
    /\ m \in [Goroutines -> Barriers \cup {Nil}]
    /\ panicked = FALSE

(* A goroutine inside Lock or Unlock has a key and an object.              *)
Busy == \A g \in Goroutines :
            pc[g] # "idle" => key[g] \in Keys /\ m[g] \in Barriers

(* A goroutine that is counted refers to the object of its key.            *)
SameObject == \A g \in Goroutines :
                  pc[g] \in {"acquire", "held"} => keys[key[g]] = m[g]

(* No object serves two keys.                                              *)
OneKey == \A k, l \in Keys : keys[k] = keys[l] /\ keys[k] # Nil => k = l

(* An object outside the map is not counted by anyone.                     *)
ZeroOutside == \A b \in Barriers : (\A k \in Keys : keys[k] # b) => N[b] = 0

(* Whoever locked an object and has not unlocked it is alone with it.      *)
LockedByOne ==
    /\ \A g \in Goroutines : pc[g] \in {"held", "release"} => locked[m[g]]
    /\ \A g, h \in Goroutines :
        /\ pc[g] \in {"held", "release"}
        /\ pc[h] \in {"held", "release"}
        /\ m[g] = m[h]
        => g = h

IInv == /\ Types
        /\ Busy
        /\ SameObject
        /\ OneKey
        /\ CountExact
        /\ ZeroOutside
        /\ LockedByOne

-----------------------------------------------------------------------------
(* The goroutines that N counts can be counted.                             *)
LEMMA UsersFinite ==
    ASSUME NEW k \in Keys
    PROVE  /\ IsFiniteSet(Users(k))
           /\ Cardinality(Users(k)) \in Nat
           /\ Cardinality(Users(k)) <= Cardinality(Goroutines)
  <1>1. Users(k) \in SUBSET Goroutines
    BY DEF Users
  <1>2. IsFiniteSet(Users(k)) /\ Cardinality(Users(k)) <= Cardinality(Goroutines)
    BY <1>1, GoroutinesFinite, FS_Subset
  <1> QED
    BY <1>2, FS_CardinalityType

(* Nobody uses the Barrier at first.                                       *)
LEMMA InitIInv == Init => IInv
  <1> SUFFICES ASSUME Init PROVE IInv
    OBVIOUS
  <1>1. Types /\ Busy /\ SameObject /\ OneKey /\ ZeroOutside /\ LockedByOne
    BY DEF Init, Types, Busy, SameObject, OneKey, ZeroOutside, LockedByOne
  <1>2. CountExact
    BY NilNotAnObject DEF Init, CountExact, Users
  <1> QED
    BY <1>1, <1>2 DEF IInv

(* Lock up to add: the caller is counted, by the object of its key.        *)
LEMMA AddIInv ==
    ASSUME IInv, NEW g \in Goroutines, NEW k \in Keys, Add(g, k)
    PROVE  IInv'
  <1> USE DEF IInv
  <1>1. /\ pc[g] = "idle"
        /\ pc' = [pc EXCEPT ![g] = "acquire"]
        /\ key' = [key EXCEPT ![g] = k]
        /\ panicked' = panicked
    BY DEF Add
  <1>2. g \notin Users(k)
    BY <1>1 DEF Users
  <1>3. /\ Users(k)' = Users(k) \cup {g}
        /\ \A l \in Keys \ {k} : Users(l)' = Users(l)
    BY <1>1 DEF Users, Types
  <1>4. Cardinality(Users(k)') = Cardinality(Users(k)) + 1
    BY <1>2, <1>3, UsersFinite, FS_AddElement
  <1>5. CASE AddExisting(g, k)
    <2>1. /\ keys[k] \in Barriers
          /\ keys' = keys
          /\ locked' = locked
          /\ N' = [N EXCEPT ![keys[k]] = N[keys[k]] + 1]
          /\ m' = [m EXCEPT ![g] = keys[k]]
      BY <1>5 DEF AddExisting, Types
    <2>2. Types' /\ Busy' /\ SameObject' /\ OneKey'
      BY <1>1, <2>1 DEF Types, Busy, SameObject, OneKey
    <2>3. CountExact'
      <3> SUFFICES ASSUME NEW l \in Keys
                   PROVE  /\ keys[l] # Nil <=> Users(l)' # {}
                          /\ keys[l] # Nil => N'[keys[l]] = Cardinality(Users(l)')
        BY <2>1 DEF CountExact
      <3>1. CASE l = k
        BY <3>1, <1>3, <1>4, <2>1, NilNotAnObject DEF CountExact, Types
      <3>2. CASE l # k
        <4>1. keys[l] # Nil => keys[l] # keys[k]
          BY <3>2, <2>1 DEF OneKey
        <4> QED
          BY <3>2, <4>1, <1>3, <2>1 DEF CountExact, Types
      <3> QED
        BY <3>1, <3>2
    <2>4. ZeroOutside'
      BY <2>1 DEF ZeroOutside, Types
    <2>5. LockedByOne'
      BY <1>1, <2>1 DEF LockedByOne, Types
    <2> QED
      BY <2>2, <2>3, <2>4, <2>5
  <1>6. CASE AddNew(g, k)
    <2>1. keys[k] = Nil
      BY <1>6 DEF AddNew
    <2> PICK b \in Barriers :
          /\ Unreferenced(b)
          /\ keys' = [keys EXCEPT ![k] = b]
          /\ N' = [N EXCEPT ![b] = 1]
          /\ locked' = [locked EXCEPT ![b] = FALSE]
          /\ m' = [m EXCEPT ![g] = b]
      BY <1>6 DEF AddNew
    <2>2. b # Nil
      BY NilNotAnObject
    <2>3. Types' /\ Busy'
      BY <1>1 DEF Types, Busy
    <2>4. SameObject'
      <3> SUFFICES ASSUME NEW h \in Goroutines, pc'[h] \in {"acquire", "held"}
                   PROVE  keys'[key'[h]] = m'[h]
        BY DEF SameObject
      <3>1. CASE h = g
        BY <3>1, <1>1 DEF Types
      <3>2. CASE h # g
        <4>1. pc[h] \in {"acquire", "held"} /\ key'[h] = key[h] /\ m'[h] = m[h]
          BY <3>2, <1>1 DEF Types
        <4>2. key[h] \in Keys /\ m[h] \in Barriers /\ keys[key[h]] = m[h]
          BY <4>1 DEF Busy, SameObject
        <4>3. key[h] # k
          BY <4>2, <2>1, NilNotAnObject
        <4> QED
          BY <4>1, <4>2, <4>3 DEF Types
      <3> QED
        BY <3>1, <3>2
    <2>5. OneKey'
      BY <2>2 DEF OneKey, Types, Unreferenced
    <2>6. CountExact'
      <3> SUFFICES ASSUME NEW l \in Keys
                   PROVE  /\ keys'[l] # Nil <=> Users(l)' # {}
                          /\ keys'[l] # Nil => N'[keys'[l]] = Cardinality(Users(l)')
        BY DEF CountExact
      <3>1. CASE l = k
        <4>1. Users(k) = {}
          BY <2>1 DEF CountExact
        <4>2. Cardinality(Users(k)') = 1
          BY <4>1, <1>4, FS_EmptySet
        <4> QED
          BY <3>1, <4>2, <1>3, <2>2 DEF Types
      <3>2. CASE l # k
        <4>1. keys'[l] = keys[l] /\ keys[l] # b
          BY <3>2 DEF Types, Unreferenced
        <4> QED
          BY <3>2, <4>1, <1>3 DEF CountExact, Types
      <3> QED
        BY <3>1, <3>2
    <2>7. ZeroOutside'
      <3> SUFFICES ASSUME NEW c \in Barriers, \A l \in Keys : keys'[l] # c
                   PROVE  N'[c] = 0
        BY DEF ZeroOutside
      <3>1. c # b
        BY DEF Types
      <3>2. \A l \in Keys : keys[l] # c
        BY <2>1, NilNotAnObject DEF Types
      <3> QED
        BY <3>1, <3>2 DEF ZeroOutside, Types
    <2>8. LockedByOne'
      BY <1>1 DEF LockedByOne, Types, Unreferenced
    <2> QED
      BY <2>3, <2>4, <2>5, <2>6, <2>7, <2>8
  <1> QED
    BY <1>5, <1>6 DEF Add

(* Locking an object that is not locked: the goroutine is alone with it.   *)
LEMMA AcquireIInv ==
    ASSUME IInv, NEW g \in Goroutines, Acquire(g)
    PROVE  IInv'
  <1> USE DEF IInv
  <1>1. \A l \in Keys : Users(l)' = Users(l)
    BY DEF Users, Acquire, Types
  <1>2. Types' /\ Busy' /\ SameObject' /\ OneKey' /\ ZeroOutside'
    BY DEF Acquire, Types, Busy, SameObject, OneKey, ZeroOutside
  <1>3. CountExact'
    BY <1>1 DEF Acquire, CountExact
  <1>4. LockedByOne'
    BY DEF Acquire, LockedByOne, Types, Busy
  <1> QED
    BY <1>2, <1>3, <1>4

(* Unlock up to remove: the object leaves the map with its last user.      *)
LEMMA RemoveIInv ==
    ASSUME IInv, NEW g \in Goroutines, Remove(g)
    PROVE  IInv'
  <1> DEFINE k == key[g]
             b == keys[k]
  <1> USE DEF IInv
  <1>1. pc[g] = "held" /\ k \in Keys /\ b \in Barriers /\ m[g] = b /\ b # Nil
    BY NilNotAnObject DEF Remove, Busy, SameObject
  <1>2. /\ N' = [N EXCEPT ![b] = N[b] - 1]
        /\ keys' = IF N[b] = 1 THEN [keys EXCEPT ![k] = Nil] ELSE keys
        /\ m' = [m EXCEPT ![g] = b]
        /\ pc' = [pc EXCEPT ![g] = "release"]
        /\ UNCHANGED <<locked, key, panicked>>
    BY <1>1 DEF Remove, MapAfterRemove
  <1>3. m' = m
    BY <1>1, <1>2 DEF Types
  <1>4. g \in Users(k)
    BY <1>1 DEF Users
  <1>5. /\ Users(k)' = Users(k) \ {g}
        /\ \A l \in Keys \ {k} : Users(l)' = Users(l)
    BY <1>1, <1>2 DEF Users, Types
  <1>6. N[b] = Cardinality(Users(k)) /\ N[b] \in Nat
    BY <1>1 DEF CountExact, Types
  <1>7. /\ IsFiniteSet(Users(k)')
        /\ Cardinality(Users(k)') = N[b] - 1
    BY <1>1, <1>4, <1>5, <1>6, UsersFinite, FS_RemoveElement
  <1>8. N[b] = 1 <=> Users(k)' = {}
    BY <1>6, <1>7, FS_EmptySet
  <1>9. N[b] # 0
    BY <1>1, <1>4, <1>6, UsersFinite, FS_EmptySet
  <1>10. Types'
    BY <1>1, <1>2, <1>6, <1>9 DEF Types
  <1>11. Busy' /\ OneKey' /\ LockedByOne'
    <2>1. Busy'
      BY <1>1, <1>2, <1>3 DEF Busy, Types
    <2>2. OneKey'
      BY <1>1, <1>2 DEF OneKey, Types
    <2>3. LockedByOne'
      BY <1>1, <1>2, <1>3 DEF LockedByOne, Types
    <2> QED
      BY <2>1, <2>2, <2>3
  <1>12. SameObject'
    <2> SUFFICES ASSUME NEW h \in Goroutines, pc'[h] \in {"acquire", "held"}
                 PROVE  keys'[key[h]] = m[h]
      BY <1>2, <1>3 DEF SameObject
    <2>1. h # g /\ pc[h] \in {"acquire", "held"}
      BY <1>2 DEF Types
    <2>2. key[h] \in Keys /\ keys[key[h]] = m[h]
      BY <2>1 DEF Busy, SameObject
    <2>3. CASE N[b] = 1
      <3>1. h \notin Users(k)
        BY <2>3, <1>5, <1>8, <2>1
      <3>2. key[h] # k
        BY <3>1, <2>1 DEF Users
      <3> QED
        BY <3>2, <2>2, <1>2, <1>1 DEF Types
    <2>4. CASE N[b] # 1
      BY <2>4, <2>2, <1>2
    <2> QED
      BY <2>3, <2>4
  <1>13. CountExact'
    <2> SUFFICES ASSUME NEW l \in Keys
                 PROVE  /\ keys'[l] # Nil <=> Users(l)' # {}
                        /\ keys'[l] # Nil => N'[keys'[l]] = Cardinality(Users(l)')
      BY DEF CountExact
    <2>1. CASE l = k
      BY <2>1, <1>1, <1>2, <1>7, <1>8 DEF Types
    <2>2. CASE l # k
      <3>1. keys'[l] = keys[l]
        BY <2>2, <1>1, <1>2 DEF Types
      <3>2. keys[l] # Nil => keys[l] # b
        BY <2>2, <1>1 DEF OneKey
      <3> QED
        BY <2>2, <3>1, <3>2, <1>1, <1>2, <1>5 DEF CountExact, Types
    <2> QED
      BY <2>1, <2>2
  <1>14. ZeroOutside'
    <2> SUFFICES ASSUME NEW c \in Barriers, \A l \in Keys : keys'[l] # c
                 PROVE  N'[c] = 0
      BY DEF ZeroOutside
    <2>1. CASE c = b
      BY <2>1, <1>1, <1>2, <1>6 DEF Types
    <2>2. CASE c # b
      <3>1. \A l \in Keys : keys[l] # c
        BY <2>2, <1>1, <1>2 DEF Types
      <3> QED
        BY <2>2, <3>1, <1>1, <1>2 DEF ZeroOutside, Types
    <2> QED
      BY <2>1, <2>2
  <1> QED
    BY <1>10, <1>11, <1>12, <1>13, <1>14

(* Unlocking an object that may have left the map.                         *)
LEMMA ReleaseIInv ==
    ASSUME IInv, NEW g \in Goroutines, Release(g)
    PROVE  IInv'
  <1> USE DEF IInv
  <1>1. /\ pc[g] = "release"
        /\ m[g] \in Barriers
        /\ locked[m[g]]
    BY DEF Release, Busy, LockedByOne
  <1>2. panicked' = FALSE
    BY <1>1 DEF Release, Types
  <1>3. \A l \in Keys : Users(l)' = Users(l)
    BY <1>1, NilNotAnObject DEF Users, Release, Types
  <1>4. CountExact'
    BY <1>3 DEF Release, CountExact
  <1>5. Types' /\ Busy' /\ SameObject' /\ OneKey' /\ ZeroOutside'
    BY <1>1, <1>2 DEF Release, Types, Busy, SameObject, OneKey, ZeroOutside
  <1>6. LockedByOne'
    BY <1>1 DEF Release, LockedByOne, Types, Busy
  <1> QED
    BY <1>4, <1>5, <1>6

(* Steps of nobody.                                                        *)
LEMMA StutterIInv ==
    ASSUME IInv, UNCHANGED vars
    PROVE  IInv'
  <1>1. \A l \in Keys : Users(l)' = Users(l)
    BY DEF vars, Users
  <1>2. CountExact'
    BY <1>1 DEF vars, IInv, CountExact
  <1>3. Types' /\ Busy' /\ SameObject' /\ OneKey'
    BY DEF vars, IInv, Types, Busy, SameObject, OneKey
  <1>4. ZeroOutside' /\ LockedByOne'
    BY DEF vars, IInv, ZeroOutside, LockedByOne
  <1> QED
    BY <1>2, <1>3, <1>4 DEF IInv

(* IInv is preserved by every step.                                        *)
LEMMA NextIInv == IInv /\ [Next]_vars => IInv'
  BY AddIInv, AcquireIInv, RemoveIInv, ReleaseIInv, StutterIInv DEF Next

(* The inductive invariant holds in every reachable state.                 *)
THEOREM Inductive == Spec => []IInv
  BY InitIInv, NextIInv, PTL DEF Spec

(* Type correctness of the Barrier: in particular no reference count       *)
(* exceeds the number of goroutines or drops below zero.                   *)
THEOREM TypeCorrect == Spec => []TypeOK
  <1>1. IInv => TypeOK
    <2> SUFFICES ASSUME IInv PROVE TypeOK
      OBVIOUS
    <2>1. Cardinality(Goroutines) \in Nat
      BY GoroutinesFinite, FS_CardinalityType
    <2>2. \A b \in Barriers : N[b] \in 0 .. Cardinality(Goroutines)
      <3> SUFFICES ASSUME NEW b \in Barriers
                   PROVE  N[b] \in Nat /\ N[b] <= Cardinality(Goroutines)
        BY <2>1
      <3>1. CASE \A k \in Keys : keys[k] # b
        BY <3>1, <2>1 DEF IInv, ZeroOutside, Types
      <3>2. CASE \E k \in Keys : keys[k] = b
        BY <3>2, UsersFinite, NilNotAnObject DEF IInv, CountExact, Types
      <3> QED
        BY <3>1, <3>2
    <2> QED
      BY <2>2 DEF IInv, Types, TypeOK
  <1> QED
    BY <1>1, Inductive, PTL

(* Lock and Unlock exclude each other per key.                             *)
THEOREM Safe == Spec => []MutualExclusion
  <1>1. IInv => MutualExclusion
    BY DEF IInv, Types, SameObject, LockedByOne, MutualExclusion
  <1> QED
    BY <1>1, Inductive, PTL

(* The reference count of add and remove is exact: the map does not leak,  *)
(* and a paired Unlock never panics.                                       *)
THEOREM ExactCount == Spec => []Counted
  <1>1. IInv => Counted
    BY DEF IInv, Types, NoPanic, Counted
  <1> QED
    BY <1>1, Inductive, PTL

-----------------------------------------------------------------------------
(* Barrier implements KeyLock: add is a Request, locking the object an     *)
(* Acquire, remove a Release, and unlocking the object is invisible.       *)
THEOREM Refinement == Spec => IsKeyLock
  <1>1. Init => KL!Init
    BY DEF Init, KL!Init, waitingOf, holdingOf
  <1>2. IInv /\ [Next]_vars => [KL!Next]_(KL!vars)
    <2> SUFFICES ASSUME IInv, [Next]_vars
                 PROVE  [KL!Next]_(KL!vars)
      OBVIOUS
    <2> USE DEF IInv
    <2>1. ASSUME NEW g \in Goroutines, NEW k \in Keys, Add(g, k)
          PROVE  KL!Request(g, k)
      <3>1. /\ pc[g] = "idle"
            /\ pc' = [pc EXCEPT ![g] = "acquire"]
            /\ key' = [key EXCEPT ![g] = k]
        BY <2>1 DEF Add
      <3>2. \A l \in Keys : g \notin waitingOf[l] \cup holdingOf[l]
        BY <3>1 DEF waitingOf, holdingOf
      <3>3. waitingOf' = [waitingOf EXCEPT ![k] = @ \cup {g}]
        BY <3>1 DEF waitingOf, Types
      <3>4. holdingOf' = holdingOf
        BY <3>1 DEF holdingOf, Types
      <3> QED
        BY <3>2, <3>3, <3>4 DEF KL!Request
    <2>2. ASSUME NEW g \in Goroutines, Acquire(g)
          PROVE  KL!Acquire(g, key[g])
      <3>1. /\ pc[g] = "acquire"
            /\ ~locked[m[g]]
            /\ pc' = [pc EXCEPT ![g] = "held"]
            /\ key' = key
            /\ key[g] \in Keys
        BY <2>2 DEF Acquire, Busy
      <3>2. g \in waitingOf[key[g]]
        BY <3>1 DEF waitingOf
      <3>3. holdingOf[key[g]] = {}
        BY <3>1 DEF holdingOf, SameObject, LockedByOne
      <3>4. waitingOf' = [waitingOf EXCEPT ![key[g]] = @ \ {g}]
        BY <3>1 DEF waitingOf, Types
      <3>5. holdingOf' = [holdingOf EXCEPT ![key[g]] = @ \cup {g}]
        BY <3>1 DEF holdingOf, Types
      <3>6. holdingOf' = [holdingOf EXCEPT ![key[g]] = {g}]
        BY <3>3, <3>5
      <3> QED
        BY <3>2, <3>3, <3>4, <3>6 DEF KL!Acquire
    <2>3. ASSUME NEW g \in Goroutines, Remove(g)
          PROVE  KL!Release(g, key[g])
      <3>1. /\ pc[g] = "held"
            /\ key[g] \in Keys
            /\ keys[key[g]] # Nil
        BY <2>3, NilNotAnObject DEF Remove, Busy, SameObject
      <3>2. /\ pc' = [pc EXCEPT ![g] = "release"]
            /\ key' = key
        BY <2>3, <3>1 DEF Remove
      <3>3. holdingOf[key[g]] = {g}
        BY <3>1 DEF holdingOf, SameObject, LockedByOne
      <3>4. holdingOf' = [holdingOf EXCEPT ![key[g]] = @ \ {g}]
        BY <3>1, <3>2 DEF holdingOf, Types
      <3>5. holdingOf' = [holdingOf EXCEPT ![key[g]] = {}]
        BY <3>3, <3>4
      <3>6. waitingOf' = waitingOf
        BY <3>1, <3>2 DEF waitingOf, Types
      <3> QED
        BY <3>3, <3>5, <3>6 DEF KL!Release
    <2>4. ASSUME NEW g \in Goroutines, Release(g)
          PROVE  UNCHANGED KL!vars
      <3>1. waitingOf' = waitingOf /\ holdingOf' = holdingOf
        BY <2>4, NilNotAnObject DEF Release, waitingOf, holdingOf, Types
      <3> QED
        BY <3>1 DEF KL!vars
    <2>5. ASSUME UNCHANGED vars
          PROVE  UNCHANGED KL!vars
      BY <2>5 DEF vars, KL!vars, waitingOf, holdingOf
    <2>6. ASSUME NEW g \in Goroutines, Acquire(g) \/ Remove(g)
          PROVE  key[g] \in Keys
      BY <2>6 DEF Acquire, Remove, Busy
    <2> QED
      BY <2>1, <2>2, <2>3, <2>4, <2>5, <2>6 DEF Next, KL!Next
  <1> QED
    BY <1>1, <1>2, Inductive, PTL DEF Spec, IsKeyLock, KL!Spec
=============================================================================
