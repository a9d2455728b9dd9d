-------------------------- MODULE MulticastProofs --------------------------
(***************************************************************************)
(* Proofs about Multicast, for any number of clients and loggers.          *)
(***************************************************************************)
EXTENDS Multicast, TLAPS

(* The pointer comparison of a compare-and-swap: a handler that is in      *)
(* current loaded the group of now.                                        *)
LoadedInv == \A s \in current : old[s] = group

(* What a logger still has to write to, in terms of the clients' state.    *)
LoggerInv ==
    \A l \in Loggers :
        /\ lpc[l] # "each" => pending[l] = {}
        /\ due[l] \subseteq Subscribed
        /\ lpc[l] = "each" => due[l] \subseteq pending[l] \cup reached[l]
        /\ left[l] \subseteq Left
        /\ left[l] \cap pending[l] = {}

IInv == TypeOK /\ LoadedInv /\ NoLostUpdate /\ LoggerInv /\ Delivered /\ LeftNotReached

(* Nobody is subscribed, and nothing is logged, at first.                  *)
LEMMA InitIInv == Init => IInv
BY DEF Init, IInv, TypeOK, Groups, LoadedInv, NoLostUpdate, LoggerInv, Delivered,
       LeftNotReached, Subscribed, Left, Members

(* The steps of the handlers keep what is known of the group, and the      *)
(* clients that are subscribed or have left change by the handler's own    *)
(* step only.                                                              *)
LEMMA HandlerGroup ==
    ASSUME IInv, NEW s \in Subscribers,
           Subscribe(s) \/ SubscriberStep(s) \/ Unsubscribe(s)
    PROVE  /\ TypeOK'
           /\ LoadedInv'
           /\ NoLostUpdate'
           /\ Left \subseteq Left'
           /\ Subscribed \ Subscribed' \subseteq {t \in {s} : Unsubscribe(s)}
<1> USE NilNotAGroup DEF IInv, Groups, Members
<1>1. CASE Subscribe(s)
  BY <1>1 DEF Subscribe, Goto, TypeOK, LoadedInv, NoLostUpdate, Subscribed, Left, logVars
<1>2. CASE AddLoad(s)
  BY <1>2 DEF AddLoad, Load, Goto, TypeOK, LoadedInv, NoLostUpdate, Subscribed, Left, logVars
<1>3. CASE AddFirst(s)
  BY <1>3 DEF AddFirst, Goto, TypeOK, LoadedInv, NoLostUpdate, Subscribed, Left, logVars
<1>4. CASE AddSwap(s)
  BY <1>4 DEF AddSwap, Swap, TypeOK, LoadedInv, NoLostUpdate, Subscribed, Left, logVars
<1>5. CASE RemoveLoad(s)
  BY <1>5 DEF RemoveLoad, Load, Goto, TypeOK, LoadedInv, NoLostUpdate, Subscribed, Left, logVars
<1>6. CASE RemoveSwap(s)
  BY <1>6 DEF RemoveSwap, Swap, TypeOK, LoadedInv, NoLostUpdate, Subscribed, Left, logVars
<1>7. CASE Unsubscribe(s)
  BY <1>7 DEF Unsubscribe, Goto, TypeOK, LoadedInv, NoLostUpdate, Subscribed, Left, logVars
<1> QED
  BY <1>1, <1>2, <1>3, <1>4, <1>5, <1>6, <1>7 DEF SubscriberStep

(* A handler's step leaves the loggers alone.                              *)
LEMMA HandlerIInv ==
    ASSUME IInv, NEW s \in Subscribers,
           Subscribe(s) \/ SubscriberStep(s) \/ Unsubscribe(s)
    PROVE  IInv'
<1>1. TypeOK' /\ LoadedInv' /\ NoLostUpdate'
  BY HandlerGroup
<1>2. Left \subseteq Left' /\ UNCHANGED logVars
  BY HandlerGroup DEF Subscribe, SubscriberStep, Unsubscribe, AddLoad, AddFirst, AddSwap,
                      RemoveLoad, RemoveSwap
<1>3. \A l \in Loggers : due'[l] \subseteq due[l] /\ due'[l] \subseteq Subscribed'
  <2>1. CASE Unsubscribe(s)
    <3>1. Subscribed \ Subscribed' \subseteq {s}
      BY HandlerGroup
    <3>2. \A l \in Loggers : due'[l] = due[l] \ {s}
      BY <2>1 DEF Unsubscribe
    <3> QED
      BY <3>1, <3>2 DEF IInv, LoggerInv
  <2>2. CASE ~Unsubscribe(s)
    <3>1. Subscribed \subseteq Subscribed'
      BY <2>2, HandlerGroup
    <3>2. due' = due
      BY <2>2 DEF Subscribe, SubscriberStep, AddLoad, AddFirst, AddSwap, RemoveLoad, RemoveSwap
    <3> QED
      BY <3>1, <3>2 DEF IInv, LoggerInv
  <2> QED
    BY <2>1, <2>2
<1>4. LoggerInv'
  BY <1>2, <1>3 DEF IInv, LoggerInv, logVars
<1>5. Delivered' /\ LeftNotReached'
  BY <1>2, <1>3 DEF IInv, Delivered, LeftNotReached, logVars
<1> QED
  BY <1>1, <1>4, <1>5 DEF IInv

(* A logger's step leaves the group alone.                                 *)
LEMMA LoggerIInv ==
    ASSUME IInv, NEW l \in Loggers, Logger(l)
    PROVE  IInv'
<1>1. UNCHANGED subVars
  BY DEF Logger, Log, Num, WriteLoad, WriteTo, WriteDone, LogReturn
<1>2. LoadedInv' /\ NoLostUpdate' /\ Subscribed' = Subscribed /\ Left' = Left
  BY <1>1 DEF IInv, LoadedInv, NoLostUpdate, Subscribed, Left, Members, subVars
<1> USE DEF IInv, LGoto
<1>3. CASE Log(l)
  <2>1. TypeOK'
    BY <1>1, <1>3 DEF Log, TypeOK, Subscribed, Left, subVars
  <2>2. LoggerInv' /\ Delivered' /\ LeftNotReached'
    BY <1>2, <1>3 DEF Log, TypeOK, LoggerInv, Delivered, LeftNotReached
  <2> QED
    BY <1>2, <2>1, <2>2
<1>4. CASE Num(l)
  <2>1. TypeOK'
    BY <1>1, <1>4 DEF Num, TypeOK, subVars
  <2>2. LoggerInv' /\ Delivered' /\ LeftNotReached'
    BY <1>2, <1>4 DEF Num, TypeOK, LoggerInv, Delivered, LeftNotReached, NoLostUpdate
  <2> QED
    BY <1>2, <2>1, <2>2
<1>5. CASE WriteLoad(l)
  <2>1. Members \subseteq Subscribers
    BY DEF Members, TypeOK, Groups
  <2>2. TypeOK'
    BY <1>1, <1>5, <2>1 DEF WriteLoad, TypeOK, subVars
  <2>3. LoggerInv' /\ Delivered' /\ LeftNotReached'
    BY <1>2, <1>5 DEF WriteLoad, TypeOK, LoggerInv, Delivered, LeftNotReached, NoLostUpdate
  <2> QED
    BY <1>2, <2>2, <2>3
<1>6. CASE \E s \in Subscribers : WriteTo(l, s)
  <2>1. TypeOK'
    BY <1>1, <1>6 DEF WriteTo, TypeOK, subVars
  <2>2. LoggerInv' /\ Delivered' /\ LeftNotReached'
    BY <1>2, <1>6 DEF WriteTo, TypeOK, LoggerInv, Delivered, LeftNotReached
  <2> QED
    BY <1>2, <2>1, <2>2
<1>7. CASE WriteDone(l)
  <2>1. TypeOK'
    BY <1>1, <1>7 DEF WriteDone, TypeOK, subVars
  <2>2. LoggerInv' /\ Delivered' /\ LeftNotReached'
    BY <1>2, <1>7 DEF WriteDone, TypeOK, LoggerInv, Delivered, LeftNotReached
  <2> QED
    BY <1>2, <2>1, <2>2
<1>8. CASE LogReturn(l)
  <2>1. TypeOK'
    BY <1>1, <1>8 DEF LogReturn, TypeOK, subVars
  <2>2. LoggerInv' /\ Delivered' /\ LeftNotReached'
    BY <1>2, <1>8 DEF LogReturn, TypeOK, LoggerInv, Delivered, LeftNotReached
  <2> QED
    BY <1>2, <2>1, <2>2
<1> QED
  BY <1>3, <1>4, <1>5, <1>6, <1>7, <1>8 DEF Logger

(* IInv is an inductive invariant of the Multicast.                        *)
THEOREM Inductive == Spec => []IInv
<1>1. IInv /\ [Next]_vars => IInv'
  <2> SUFFICES ASSUME IInv, [Next]_vars PROVE IInv'
    OBVIOUS
  <2>1. CASE UNCHANGED vars
    BY <2>1 DEF IInv, TypeOK, LoadedInv, NoLostUpdate, LoggerInv, Delivered, LeftNotReached,
                Subscribed, Left, Members, vars, subVars, logVars
  <2> QED
    BY <2>1, HandlerIInv, LoggerIInv DEF Next
<1> QED
  BY InitIInv, <1>1, PTL DEF Spec

(* The groups are sets of writers or the nil pointer, and so on.           *)
THEOREM TypeCorrect == Spec => []TypeOK
BY Inductive, PTL DEF IInv

(* Compare-and-swap loses no update of the group: a client is a member     *)
(* from the return of Add to the call of Remove, and not after its return. *)
THEOREM Atomic == Spec => []NoLostUpdate
BY Inductive, PTL DEF IInv

(* Every event reaches the clients subscribed while it is logged, and none *)
(* that had left before.                                                   *)
THEOREM Delivery == Spec => []Reached
BY Inductive, PTL DEF IInv, Reached
=============================================================================
