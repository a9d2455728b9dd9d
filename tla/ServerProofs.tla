---------------------------- MODULE ServerProofs ----------------------------
(***************************************************************************)
(* Proofs about Server, for any number of callers, requests and            *)
(* configurations.                                                         *)
(***************************************************************************)
EXTENDS Server, TLAPS

CloseSteps == {"shutdown", "closeKeys"}
UpdateSteps == {"admin", "policies", "predefine", "state", "handler"}

(* Server.mu: who is inside Close or an Update method holds it, Close      *)
(* having set closed, and an Update having found the server started and    *)
(* open.  The http.Server is there iff the server was started, and accepts *)
(* requests until Close.                                                   *)
LockInv ==
    /\ \A t \in Threads :
           /\ mu = t <=> pc[t] \in CloseSteps \cup UpdateSteps
           /\ pc[t] # "tls"
           /\ pc[t] \in CloseSteps => closed /\ started
           /\ pc[t] \in UpdateSteps => t \in Callers /\ started /\ ~closed
    /\ srv = "none" <=> ~started
    /\ srv = "open" <=> started /\ ~closed

(* Configurations are numbered in the order they are applied: a part of    *)
(* the state comes from one of those so far, and the one an Update applies *)
(* is newer than all of them.  What an Update loaded is still the state    *)
(* when it stores the next one.                                            *)
Older(s, c) == s.Admin < c /\ s.Policies < c /\ s.Keys < c /\ s.Routes < c

UpdateInv ==
    /\ latest = state
    /\ started => Older(state, conf + 1) /\ handler <= state.Routes
    /\ \A t \in Threads :
           pc[t] \in UpdateSteps =>
               /\ old[t] \in States /\ new[t] = conf /\ conf > 0
               /\ Older(old[t], conf)
               /\ pc[t] # "handler" => old[t] = state
               /\ pc[t] = "handler" => state = StateOf(conf)

(* The pointers a request has loaded, from the first to the last, and the  *)
(* ones it may still load.                                                 *)
RequestInv ==
    \A q \in Requests :
        /\ rpc[q] # "idle" => started /\ routes[q] <= state.Routes
        /\ rpc[q] \in {"idle", "routed"} => auth[q] = Nil
        /\ rpc[q] \notin {"idle", "routed"} =>
               /\ auth[q] \in States
               /\ routes[q] <= auth[q].Routes /\ auth[q].Keys <= state.Keys
        /\ rpc[q] # "calling" => keys[q] = NoConf
        /\ rpc[q] = "calling" => auth[q].Keys <= keys[q] /\ keys[q] <= state.Keys

(* The key cache in use, and the one that an Update is about to use, are   *)
(* open; a cache that was handed to the caller of Update is an older one.  *)
(* Close closes the one in use once the requests are done, or when it ran  *)
(* into the timeout.                                                       *)
OpenInv ==
    /\ started => state.Keys \in open \/ (closed /\ mu = Nil)
    /\ \A t \in Threads : pc[t] \in {"predefine", "state"} => conf \in open
    /\ \A c \in returned : started /\ c < state.Keys
    /\ srv = "shutdown" =>
           \/ \E t \in Threads : pc[t] = "shutdown"
           \/ \A q \in Requests : rpc[q] = "idle"

(* CachesAccounted, cache by cache.                                        *)
AccountInv ==
    \A k \in open :
        \/ started /\ k = state.Keys /\ ~(closed /\ mu = Nil)
        \/ k \in returned \cup abandoned
        \/ \E t \in Threads : pc[t] \in {"predefine", "state"} /\ k = conf
        \/ \E t \in Threads : pc[t] = "handler" /\ k = old[t].Keys

IInv == TypeOK /\ LockInv /\ UpdateInv /\ RequestInv /\ OpenInv /\ AccountInv

-----------------------------------------------------------------------------
(* Server.mu excludes: two threads that are inside are the same one.       *)
LEMMA Exclusion ==
    ASSUME LockInv,
           NEW t \in Threads, pc[t] \in CloseSteps \cup UpdateSteps,
           NEW u \in Threads, pc[u] \in CloseSteps \cup UpdateSteps
    PROVE  t = u
BY DEF LockInv

(* A configuration's number is a part of every state that is made of it.   *)
LEMMA StateOfType == \A c \in Confs : StateOf(c) \in States
BY DEF StateOf, States

(* Nothing is configured, open or called at first.                         *)
LEMMA InitIInv == Init => IInv
<1> SUFFICES ASSUME Init PROVE IInv
  OBVIOUS
<1> USE NilAssumption, MaxConfAssumption DEF Init
<1>1. TypeOK
  <2>1. state \in IF started THEN States ELSE {Nil}
    OBVIOUS
  <2>2. /\ tls \in Confs \cup {NoConf} /\ handler \in Confs \cup {NoConf}
        /\ conf \in 0 .. MaxConf
    BY DEF Confs, NoConf
  <2> QED
    BY <2>1, <2>2 DEF TypeOK
<1>2. LockInv
  BY DEF LockInv, CloseSteps, UpdateSteps
<1>3. UpdateInv
  BY DEF UpdateInv, UpdateSteps
<1>4. RequestInv
  BY DEF RequestInv
<1>5. OpenInv /\ AccountInv
  BY DEF OpenInv, AccountInv
<1> QED
  BY <1>1, <1>2, <1>3, <1>4, <1>5 DEF IInv

(* Start and the goroutine that serves.                                    *)
LEMMA ServeIInv ==
    ASSUME IInv, Start \/ StartFailed \/ ServeEnds \/ Cancel
    PROVE  IInv'
<1> USE NilAssumption, CallersAssumption, MaxConfAssumption
    DEF IInv, Threads, CloseSteps, UpdateSteps, lifeVars, pointers, cacheVars, updVars, reqVars
<1>1. CASE Start
  <2> USE <1>1, StateOfType DEF Start, Goto, NewCache, Confs, NoConf
  <2>1. TypeOK'
    BY DEF TypeOK
  <2>2. LockInv'
    BY DEF LockInv, TypeOK
  <2>3. UpdateInv'
    BY DEF UpdateInv, LockInv, TypeOK, Older, StateOf
  <2>4. RequestInv'
    BY DEF RequestInv
  <2>5. OpenInv' /\ AccountInv'
    BY DEF OpenInv, AccountInv, LockInv, TypeOK, StateOf
  <2> QED
    BY <2>1, <2>2, <2>3, <2>4, <2>5
<1>2. CASE StartFailed
  <2> USE <1>2 DEF StartFailed, NewCache, Confs, NoConf
  <2>1. TypeOK' /\ LockInv' /\ RequestInv'
    BY DEF TypeOK, LockInv, RequestInv
  <2>2. UpdateInv' /\ OpenInv' /\ AccountInv'
    BY DEF UpdateInv, OpenInv, AccountInv, LockInv, TypeOK
  <2> QED
    BY <2>1, <2>2
<1>3. CASE ServeEnds
  <2> USE <1>3 DEF ServeEnds
  <2>1. PICK to \in {"returning", "returned"} : Goto("serve", "serving", to)
    OBVIOUS
  <2> USE <2>1 DEF Goto
  <2>2. TypeOK' /\ LockInv' /\ RequestInv'
    BY DEF TypeOK, LockInv, RequestInv
  <2>3. UpdateInv' /\ OpenInv' /\ AccountInv'
    BY DEF UpdateInv, OpenInv, AccountInv, TypeOK
  <2> QED
    BY <2>2, <2>3
<1>4. CASE Cancel
  <2>1. TypeOK' /\ LockInv' /\ RequestInv'
    BY <1>4 DEF Cancel, TypeOK, LockInv, RequestInv
  <2>2. UpdateInv' /\ OpenInv' /\ AccountInv'
    BY <1>4 DEF Cancel, UpdateInv, OpenInv, AccountInv
  <2> QED
    BY <2>1, <2>2
<1> QED
  BY <1>1, <1>2, <1>3, <1>4

(* Close, from the lock to the key cache.                                  *)
LEMMA CloseIInv ==
    ASSUME IInv, NEW t \in Threads, CloseStart(t) \/ CloseStep(t)
    PROVE  IInv'
<1> USE NilAssumption, CallersAssumption, MaxConfAssumption
    DEF IInv, Threads, CloseSteps, UpdateSteps, lifeVars, pointers, cacheVars, updVars, reqVars
<1>1. CASE CloseAgain(t)
  <2> USE <1>1 DEF CloseAgain, CallsClose, Done
  <2>1. TypeOK' /\ LockInv' /\ RequestInv'
    BY DEF TypeOK, LockInv, RequestInv
  <2>2. UpdateInv' /\ OpenInv' /\ AccountInv'
    BY DEF UpdateInv, OpenInv, AccountInv, TypeOK, LockInv
  <2> QED
    BY <2>1, <2>2
<1>2. CASE CloseUnstarted(t)
  <2> USE <1>2 DEF CloseUnstarted, CallsClose
  <2>1. TypeOK' /\ LockInv' /\ RequestInv'
    BY DEF TypeOK, LockInv, RequestInv
  <2>2. UpdateInv' /\ OpenInv' /\ AccountInv'
    BY DEF UpdateInv, OpenInv, AccountInv, TypeOK, LockInv
  <2> QED
    BY <2>1, <2>2
<1>3. CASE CloseBegin(t)
  <2> USE <1>3 DEF CloseBegin, CallsClose
  <2>1. TypeOK' /\ LockInv' /\ RequestInv'
    BY DEF TypeOK, LockInv, RequestInv
  <2>2. UpdateInv' /\ OpenInv'
    BY DEF UpdateInv, OpenInv, TypeOK, LockInv
  <2>3. AccountInv'
    BY DEF AccountInv, TypeOK, LockInv
  <2> QED
    BY <2>1, <2>2, <2>3
<1>4. CASE ShutdownDone(t)
  <2> USE <1>4 DEF ShutdownDone, Goto
  <2>1. TypeOK' /\ LockInv' /\ RequestInv'
    BY DEF TypeOK, LockInv, RequestInv
  <2>2. UpdateInv' /\ OpenInv' /\ AccountInv'
    BY DEF UpdateInv, OpenInv, AccountInv, TypeOK, LockInv
  <2> QED
    BY <2>1, <2>2
<1>5. CASE ShutdownTimeout(t)
  <2> USE <1>5 DEF ShutdownTimeout, Goto
  <2>1. TypeOK' /\ LockInv' /\ RequestInv'
    BY DEF TypeOK, LockInv, RequestInv
  <2>2. UpdateInv' /\ OpenInv' /\ AccountInv'
    BY DEF UpdateInv, OpenInv, AccountInv, TypeOK, LockInv
  <2> QED
    BY <2>1, <2>2
<1>6. CASE CloseKeys(t)
  <2> USE <1>6 DEF CloseKeys, Goto, Done
  <2>1. TypeOK' /\ LockInv' /\ RequestInv'
    BY DEF TypeOK, LockInv, RequestInv
  <2>2. UpdateInv'
    BY DEF UpdateInv, TypeOK, LockInv
  <2>3. OpenInv' /\ AccountInv'
    BY DEF OpenInv, AccountInv, TypeOK, LockInv
  <2> QED
    BY <2>1, <2>2, <2>3
<1> QED
  BY <1>1, <1>2, <1>3, <1>4, <1>5, <1>6 DEF CloseStart, CloseStep

(* The methods of Server that reconfigure it: the lock, and one store.     *)
LEMMA UpdatesIInv ==
    ASSUME IInv, NEW t \in Callers, Updates(t)
    PROVE  IInv'
<1> USE NilAssumption, CallersAssumption, MaxConfAssumption
    DEF IInv, Threads, CloseSteps, UpdateSteps, lifeVars, pointers, cacheVars, updVars, reqVars
<1>1. CASE UpdateTLS(t)
  <2> USE <1>1 DEF UpdateTLS, Confs, NoConf
  <2>1. TypeOK' /\ LockInv' /\ RequestInv'
    BY DEF TypeOK, LockInv, RequestInv
  <2>2. UpdateInv'
    BY DEF UpdateInv, Older, States, TypeOK, LockInv
  <2>3. OpenInv' /\ AccountInv'
    BY DEF OpenInv, AccountInv, TypeOK, LockInv
  <2> QED
    BY <2>1, <2>2, <2>3
<1>2. ASSUME NEW step \in {"admin", "policies", "predefine"}, UpdateBegin(t, step),
             open' = open \cup (IF step = "predefine" THEN {conf + 1} ELSE {})
      PROVE  IInv'
  <2> USE <1>2 DEF UpdateBegin, Goto, Lock, Confs, NoConf
  <2>1. TypeOK' /\ LockInv' /\ RequestInv'
    BY DEF TypeOK, LockInv, RequestInv
  <2>2. UpdateInv'
    BY DEF UpdateInv, Older, States, TypeOK, LockInv
  <2>3. OpenInv'
    BY DEF OpenInv, TypeOK, LockInv
  <2>4. AccountInv'
    <3> SUFFICES ASSUME NEW k \in open'
                 PROVE  \/ started' /\ k = state'.Keys /\ ~(closed' /\ mu' = Nil)
                        \/ k \in returned' \cup abandoned'
                        \/ \E u \in Threads : pc'[u] \in {"predefine", "state"} /\ k = conf'
      BY DEF AccountInv
    <3>1. \A u \in Threads : pc[u] \notin UpdateSteps
      BY DEF LockInv, TypeOK
    <3>2. CASE k \in open
      BY <3>1, <3>2 DEF AccountInv
    <3>3. CASE k \notin open
      <4>1. step = "predefine" /\ k = conf'
        BY <3>3
      <4>2. pc'[t] = "predefine"
        BY <4>1 DEF TypeOK
      <4> QED
        BY <4>1, <4>2
    <3> QED
      BY <3>2, <3>3
  <2> QED
    BY <2>1, <2>2, <2>3, <2>4
<1>3. ASSUME NEW step \in {"admin", "policies"}, UpdateBegin(t, step), UNCHANGED open
      PROVE  IInv'
  BY <1>2, <1>3
<1> QED
  BY <1>1, <1>2, <1>3 DEF Updates

(* The rest of an Update: what it loaded is the state until it stores the  *)
(* next one, because nobody else is inside.                                *)
LEMMA UpdateStepIInv ==
    ASSUME IInv, NEW t \in Callers, UpdateStep(t)
    PROVE  IInv'
<1> USE NilAssumption, CallersAssumption, MaxConfAssumption
    DEF IInv, Threads, CloseSteps, UpdateSteps, lifeVars, pointers, cacheVars, updVars, reqVars
<1>1. /\ pc[t] \in UpdateSteps /\ mu = t /\ started /\ ~closed /\ srv = "open"
      /\ state \in States /\ old[t] \in States /\ new[t] = conf /\ conf \in Confs
      /\ Older(old[t], conf)
      /\ pc[t] # "handler" => old[t] = state
      /\ pc[t] = "handler" => state = StateOf(conf)
  BY DEF UpdateStep, UpdateAdmin, UpdatePolicies, UpdateFailed, UpdateStoreTLS, UpdateStoreState,
         UpdateStoreHandler, Goto, LockInv, UpdateInv, TypeOK, Confs
<1>2. \A u \in Threads : u # t => pc[u] \notin CloseSteps \cup UpdateSteps
  BY <1>1, Exclusion
<1>3. CASE UpdateAdmin(t)
  <2> USE <1>3 DEF UpdateAdmin, UpdateDone
  <2>1. /\ state' \in States /\ latest' = state'
        /\ state'.Keys = state.Keys /\ state'.Routes = state.Routes
        /\ Older(state', conf + 1)
    BY <1>1 DEF UpdateInv, States, Older, Confs
  <2>2. TypeOK'
    BY <1>1, <2>1 DEF TypeOK, NoConf
  <2>3. LockInv' /\ RequestInv'
    BY <1>1, <1>2, <2>1 DEF LockInv, RequestInv, TypeOK
  <2>4. UpdateInv'
    BY <1>1, <1>2, <2>1 DEF UpdateInv, TypeOK
  <2>5. OpenInv' /\ AccountInv'
    BY <1>1, <1>2, <2>1 DEF OpenInv, AccountInv, TypeOK
  <2> QED
    BY <2>2, <2>3, <2>4, <2>5
<1>4. CASE UpdatePolicies(t)
  <2> USE <1>4 DEF UpdatePolicies, UpdateDone
  <2>1. /\ state' \in States /\ latest' = state'
        /\ state'.Keys = state.Keys /\ state'.Routes = state.Routes
        /\ Older(state', conf + 1)
    BY <1>1 DEF UpdateInv, States, Older, Confs
  <2>2. TypeOK'
    BY <1>1, <2>1 DEF TypeOK, NoConf
  <2>3. LockInv' /\ RequestInv'
    BY <1>1, <1>2, <2>1 DEF LockInv, RequestInv, TypeOK
  <2>4. UpdateInv'
    BY <1>1, <1>2, <2>1 DEF UpdateInv, TypeOK
  <2>5. OpenInv' /\ AccountInv'
    BY <1>1, <1>2, <2>1 DEF OpenInv, AccountInv, TypeOK
  <2> QED
    BY <2>2, <2>3, <2>4, <2>5
<1>5. CASE UpdateFailed(t)
  <2> USE <1>5 DEF UpdateFailed, UpdateDone
  <2>1. TypeOK'
    BY <1>1 DEF TypeOK, NoConf
  <2>2. LockInv' /\ UpdateInv' /\ RequestInv'
    BY <1>1, <1>2 DEF LockInv, UpdateInv, RequestInv, TypeOK
  <2>3. OpenInv' /\ AccountInv'
    BY <1>1, <1>2 DEF OpenInv, AccountInv, TypeOK
  <2> QED
    BY <2>1, <2>2, <2>3
<1>6. CASE UpdateStoreTLS(t)
  <2> USE <1>6 DEF UpdateStoreTLS, Goto
  <2>1. TypeOK'
    BY <1>1 DEF TypeOK
  <2>2. LockInv' /\ UpdateInv' /\ RequestInv'
    BY <1>1, <1>2 DEF LockInv, UpdateInv, RequestInv, TypeOK
  <2>3. OpenInv' /\ AccountInv'
    BY <1>1, <1>2 DEF OpenInv, AccountInv, TypeOK
  <2> QED
    BY <2>1, <2>2, <2>3
<1>7. CASE UpdateStoreState(t)
  <2> USE <1>7 DEF UpdateStoreState, Goto
  <2>1. /\ state' = StateOf(conf) /\ state' \in States /\ latest' = state'
        /\ state'.Keys = conf /\ state'.Routes = conf /\ Older(state', conf + 1)
        /\ state.Keys < conf /\ state.Routes < conf /\ old[t] = state
        /\ conf \in Nat /\ state.Keys \in Nat /\ state.Routes \in Nat /\ handler \in Nat
    BY <1>1, StateOfType DEF StateOf, Older, Confs, NoConf, States, TypeOK
  <2>2. TypeOK'
    BY <1>1, <2>1 DEF TypeOK
  <2>3. LockInv'
    BY <1>1, <1>2, <2>1 DEF LockInv, TypeOK
  <2>4. UpdateInv'
    BY <1>1, <1>2, <2>1 DEF UpdateInv, TypeOK
  <2>5. RequestInv'
    BY <1>1, <2>1 DEF RequestInv, TypeOK, States, Confs, NoConf
  <2>6. OpenInv'
    <3>1. conf \in open
      BY DEF OpenInv
    <3>2. \A c \in returned : c < conf
      BY <2>1 DEF OpenInv, TypeOK, Confs
    <3>3. \A u \in Threads : pc'[u] \notin {"predefine", "state"}
      BY <1>2 DEF TypeOK
    <3> QED
      BY <1>1, <2>1, <3>1, <3>2, <3>3 DEF OpenInv
  <2>7. AccountInv'
    BY <1>1, <1>2, <2>1 DEF AccountInv, TypeOK
  <2> QED
    BY <2>2, <2>3, <2>4, <2>5, <2>6, <2>7
<1>8. CASE UpdateStoreHandler(t)
  <2> USE <1>8 DEF UpdateStoreHandler, UpdateDone
  <2>1. /\ state.Keys = conf /\ state.Routes = conf
        /\ old[t].Keys \in Confs /\ old[t].Keys < conf
    BY <1>1 DEF StateOf, Older, States
  <2>2. TypeOK'
    BY <1>1, <2>1 DEF TypeOK, NoConf
  <2>3. LockInv' /\ RequestInv'
    BY <1>1, <1>2 DEF LockInv, RequestInv, TypeOK
  <2>4. UpdateInv'
    BY <1>1, <1>2, <2>1 DEF UpdateInv, TypeOK, Confs
  <2>5. OpenInv' /\ AccountInv'
    BY <1>1, <1>2, <2>1 DEF OpenInv, AccountInv, TypeOK
  <2> QED
    BY <2>2, <2>3, <2>4, <2>5
<1> QED
  BY <1>3, <1>4, <1>5, <1>6, <1>7, <1>8 DEF UpdateStep

(* The caller of Update closes a cache: not the one in use.                *)
LEMMA CloseReturnedIInv ==
    ASSUME IInv, NEW c \in Confs, CloseReturned(c)
    PROVE  IInv'
<1> USE DEF IInv, CloseReturned, lifeVars, pointers, updVars, reqVars
<1>1. TypeOK' /\ LockInv' /\ UpdateInv' /\ RequestInv'
  BY DEF TypeOK, LockInv, UpdateInv, RequestInv
<1>2. OpenInv'
  <2>1. started /\ c < state.Keys /\ state.Keys <= conf /\ conf \in Nat /\ state.Keys \in Nat
    BY MaxConfAssumption DEF OpenInv, UpdateInv, Older, TypeOK, States, Confs
  <2>2. c # state.Keys /\ c # conf
    BY <2>1 DEF Confs
  <2> QED
    BY <2>2 DEF OpenInv
<1>3. AccountInv'
  BY DEF AccountInv
<1> QED
  BY <1>1, <1>2, <1>3

(* A request's step leaves the server as it is.                            *)
LEMMA RequestFrame ==
    ASSUME IInv, UNCHANGED <<lifeVars, mu, pointers, cacheVars, updVars, pc>>
    PROVE  LockInv' /\ UpdateInv' /\ AccountInv'
BY DEF IInv, LockInv, UpdateInv, AccountInv, lifeVars, pointers, cacheVars, updVars

(* What a request loads is never older than what it has loaded before, and *)
(* a new one begins only before Close.                                     *)
LEMMA RequestIInv ==
    ASSUME IInv, NEW q \in Requests, Route(q) \/ RequestStep(q) \/ StreamDone(q)
    PROVE  IInv'
<1> USE NilAssumption, MaxConfAssumption DEF IInv, lifeVars, pointers, cacheVars, updVars, NoConf
<1>1. LockInv' /\ UpdateInv' /\ AccountInv'
  BY RequestFrame DEF Route, RequestStep, StreamDone, Authenticate, Reject, CallKeys, Respond, Stream
<1>2. rpc[q] # "idle" => started /\ state \in States /\ state.Keys \in Confs
  BY DEF RequestInv, TypeOK, States
<1>3. CASE Route(q)
  <2> USE <1>3 DEF Route, RGoto
  <2>1. TypeOK' /\ OpenInv'
    BY DEF TypeOK, OpenInv
  <2>2. RequestInv'
    BY DEF RequestInv, TypeOK, UpdateInv, LockInv
  <2> QED
    BY <1>1, <2>1, <2>2
<1>4. CASE Authenticate(q)
  <2> USE <1>4 DEF Authenticate, RGoto
  <2>1. TypeOK' /\ OpenInv'
    BY <1>2 DEF TypeOK, OpenInv
  <2>2. RequestInv'
    BY <1>2 DEF RequestInv, TypeOK, Confs
  <2> QED
    BY <1>1, <2>1, <2>2
<1>5. CASE CallKeys(q)
  <2> USE <1>5 DEF CallKeys, RGoto
  <2>1. TypeOK' /\ OpenInv'
    BY <1>2 DEF TypeOK, OpenInv
  <2>2. RequestInv'
    BY <1>2 DEF RequestInv, TypeOK, Confs
  <2> QED
    BY <1>1, <2>1, <2>2
<1>6. CASE Stream(q)
  <2> USE <1>6 DEF Stream, RGoto
  <2>1. TypeOK' /\ OpenInv' /\ RequestInv'
    BY DEF TypeOK, OpenInv, RequestInv
  <2> QED
    BY <1>1, <2>1
<1>7. CASE Reject(q) \/ Respond(q) \/ StreamDone(q)
  <2> USE <1>7 DEF Reject, Respond, StreamDone, RequestDone
  <2>1. TypeOK' /\ OpenInv' /\ RequestInv'
    BY DEF TypeOK, OpenInv, RequestInv
  <2> QED
    BY <1>1, <2>1
<1> QED
  BY <1>3, <1>4, <1>5, <1>6, <1>7 DEF RequestStep

(* IInv is an invariant of the server.                                     *)
THEOREM Invariance == Spec => []IInv
<1>1. IInv /\ [Next]_vars => IInv'
  <2> SUFFICES ASSUME IInv, [Next]_vars PROVE IInv'
    OBVIOUS
  <2>1. CASE Next
    BY <2>1, ServeIInv, CloseIInv, UpdatesIInv, UpdateStepIInv, CloseReturnedIInv, RequestIInv
    DEF Next
  <2>2. CASE UNCHANGED vars
    <3> USE <2>2 DEF IInv, vars, lifeVars, pointers, cacheVars, updVars, reqVars
    <3>1. TypeOK' /\ LockInv' /\ RequestInv'
      BY DEF TypeOK, LockInv, RequestInv
    <3>2. UpdateInv' /\ OpenInv' /\ AccountInv'
      BY DEF UpdateInv, OpenInv, AccountInv
    <3> QED
      BY <3>1, <3>2
  <2> QED
    BY <2>1, <2>2
<1> QED
  BY <1>1, InitIInv, PTL DEF Spec

(* The pointers, threads and requests of a Server keep their types; in     *)
(* particular state is stored before anything loads it.                    *)
THEOREM TypeCorrect == Spec => []TypeOK
<1>1. IInv => TypeOK
  BY DEF IInv
<1> QED
  BY <1>1, Invariance, PTL

(* UpdateAdmin and UpdatePolicies copy the parts they do not change from a *)
(* state loaded before: no reconfiguration is lost nevertheless.           *)
THEOREM UpdatesKept == Spec => []NoLostUpdate
<1>1. IInv => NoLostUpdate
  BY DEF IInv, UpdateInv, NoLostUpdate
<1> QED
  BY <1>1, Invariance, PTL

(* A request that loads handler and state, the latter several times, while *)
(* the server is reconfigured and closed, is served by parts that move     *)
(* forward only, and Close closes its key cache after it is done or after  *)
(* the timeout.                                                            *)
THEOREM Served == Spec => []RequestsServed
<1>1. IInv => RequestsMoveForward
  BY DEF IInv, RequestInv, RequestsMoveForward
<1>2. IInv => GracefulClose
  <2> SUFFICES ASSUME IInv, NEW q \in Requests,
                      rpc[q] = "calling", keys[q] \notin open, keys[q] = state.Keys
               PROVE  srv = "closed"
    BY DEF GracefulClose
  <2>1. started /\ closed /\ mu = Nil
    BY DEF IInv, RequestInv, OpenInv
  <2>2. \A t \in Threads : pc[t] # "shutdown"
    BY <2>1, NilAssumption DEF IInv, LockInv, CloseSteps
  <2> QED
    BY <2>1, <2>2 DEF IInv, LockInv, OpenInv, TypeOK
<1>3. IInv => RequestsServed
  BY <1>1, <1>2 DEF RequestsServed
<1> QED
  BY <1>3, Invariance, PTL

(* No key cache of a configuration is left open and forgotten, whichever   *)
(* of Start, Update and Close succeed, fail or run into each other.        *)
THEOREM Accounted == Spec => []CachesAccounted
<1>1. IInv => CachesAccounted
  <2> SUFFICES ASSUME IInv, NEW k \in open
               PROVE  \/ state # Nil /\ ~(closed /\ mu = Nil) /\ k = state.Keys
                      \/ k \in returned \cup abandoned
                      \/ \E t \in Threads : pc[t] \in {"predefine", "state"} /\ k = new[t]
                      \/ \E t \in Threads : pc[t] = "handler" /\ k = old[t].Keys
    BY DEF CachesAccounted
  <2>1. started => state # Nil
    BY NilAssumption DEF IInv, TypeOK
  <2>2. \A t \in Threads : pc[t] \in {"predefine", "state"} => new[t] = conf
    BY DEF IInv, UpdateInv, UpdateSteps
  <2> QED
    BY <2>1, <2>2 DEF IInv, AccountInv
<1> QED
  BY <1>1, Invariance, PTL

(* Once Close has set closed, no method stores a pointer of the Server     *)
(* anymore: those that are inside hold the lock that Close had to take.    *)
THEOREM Final == Spec => ClosedIsFinal
<1>1. IInv /\ [Next]_vars => [closed => UNCHANGED pointers]_vars
  <2> SUFFICES ASSUME IInv, Next, closed PROVE UNCHANGED pointers
    OBVIOUS
  <2>1. \A t \in Callers : pc[t] \notin UpdateSteps
    BY DEF IInv, LockInv, Threads
  <2>2. ASSUME NEW t \in Callers, Updates(t) \/ UpdateStep(t)
        PROVE  UNCHANGED pointers
    BY <2>1, <2>2 DEF Updates, UpdateStep, UpdateBegin, UpdateTLS, Lock, UpdateAdmin, UpdatePolicies,
                      UpdateFailed, UpdateStoreTLS, UpdateStoreState, UpdateStoreHandler, Goto,
                      UpdateSteps
  <2>3. ASSUME NEW t \in Threads, CloseStart(t) \/ CloseStep(t)
        PROVE  UNCHANGED pointers
    BY <2>3 DEF CloseStart, CloseStep, CloseAgain, CloseUnstarted, CloseBegin, ShutdownDone,
                ShutdownTimeout, CloseKeys
  <2>4. ASSUME NEW q \in Requests, Route(q) \/ RequestStep(q) \/ StreamDone(q)
        PROVE  UNCHANGED pointers
    BY <2>4 DEF Route, RequestStep, StreamDone, Authenticate, Reject, CallKeys, Respond, Stream
  <2> QED
    BY <2>2, <2>3, <2>4 DEF Next, Start, StartFailed, ServeEnds, CloseReturned, Cancel
<1> QED
  BY <1>1, Invariance, PTL DEF Spec, ClosedIsFinal
=============================================================================
