------------------------------- MODULE Server -------------------------------
(***************************************************************************)
(* server.go: the life of a Server, its reconfiguration, and the requests  *)
(* it serves meanwhile.                                                    *)
(*                                                                         *)
(* Start, Close and the Update methods run under Server.mu.  Requests take *)
(* no lock: they load the atomic pointers handler and state, the latter    *)
(* several times, while an Update replaces tls, state and handler one      *)
(* after the other.  A configuration is abstracted to a number, in the     *)
(* order in which configurations are applied; a serverState to the numbers *)
(* of the configurations its parts come from.  A key cache (newCache) has  *)
(* the number of the configuration it was made for.                        *)
(*                                                                         *)
(* net/http is external: Serve, Shutdown and Close as server.go uses them. *)
(***************************************************************************)
EXTENDS Naturals

CONSTANTS
    Callers,    \* goroutines that call Close and the Update methods
    Requests,   \* client requests
    Nil,        \* the nil pointer, and "nobody"
    MaxConf     \* bound: configurations ever applied or tried

ASSUME MaxConfAssumption == MaxConf \in Nat

Confs == 1 .. MaxConf
NoConf == 0
States == [Admin : Confs, Policies : Confs, Keys : Confs, Routes : Confs]

(* The goroutine that called Start, and the one that serve starts to close *)
(* the server when the context is done.                                    *)
Threads == {"serve", "watch"} \cup Callers

ASSUME NilAssumption == Nil \notin Threads /\ \A s \in States : s # Nil
ASSUME CallersAssumption == Callers \cap {"serve", "watch"} = {}

VARIABLES
    forever,     \* ShutdownTimeout is negative: Close waits indefinitely
    canceled,    \* the context passed to Start is done
    mu,          \* the goroutine that holds Server.mu, or Nil
    started,     \* Server.started
    closed,      \* Server.closed
    srv,         \* Server.srv: "none", "open", "shutdown" or "closed"
    tls,         \* Server.tls
    state,       \* Server.state, or Nil
    handler,     \* Server.handler
    conf,        \* the number of configurations so far
    open,        \* key caches that have not been closed
    returned,    \* key caches that Update returned and the caller did not close
    abandoned,   \* key caches of a Start or an Update that failed
    latest,      \* history: the latest configuration applied to each part
    pc,          \* where each thread is
    old,         \* the serverState an Update method loaded
    new,         \* the configuration it applies
    rpc,         \* where each request is
    routes,      \* the routes the request got from handler
    auth,        \* the serverState that authenticated it
    keys         \* the key cache its handler calls

lifeVars == <<forever, canceled, started, closed, srv>>
pointers == <<tls, state, handler>>
cacheVars == <<open, returned, abandoned>>
updVars == <<conf, latest, old, new>>
reqVars == <<rpc, routes, auth, keys>>
vars == <<lifeVars, mu, pointers, cacheVars, updVars, pc, reqVars>>

TypeOK ==
    /\ forever \in BOOLEAN /\ canceled \in BOOLEAN
    /\ mu \in Threads \cup {Nil}
    /\ started \in BOOLEAN /\ closed \in BOOLEAN
    /\ srv \in {"none", "open", "shutdown", "closed"}
    /\ tls \in Confs \cup {NoConf} /\ handler \in Confs \cup {NoConf}
    /\ state \in IF started THEN States ELSE {Nil}
    /\ conf \in 0 .. MaxConf
    /\ open \in SUBSET Confs /\ returned \in SUBSET Confs /\ abandoned \in SUBSET Confs
    /\ latest \in {Nil} \cup States
    /\ pc \in [Threads -> {"idle", "serving", "returning", "returned", "shutdown", "closeKeys",
                           "admin", "policies", "predefine", "tls", "state", "handler"}]
    /\ old \in [Threads -> {Nil} \cup States]
    /\ new \in [Threads -> Confs \cup {NoConf}]
    /\ rpc \in [Requests -> {"idle", "routed", "authenticated", "calling", "streaming"}]
    /\ routes \in [Requests -> Confs \cup {NoConf}]
    /\ auth \in [Requests -> {Nil} \cup States]
    /\ keys \in [Requests -> Confs \cup {NoConf}]

Init ==
    /\ forever \in BOOLEAN
    /\ canceled = FALSE
    /\ mu = Nil
    /\ started = FALSE /\ closed = FALSE
    /\ srv = "none"
    /\ tls = NoConf /\ state = Nil /\ handler = NoConf
    /\ conf = 0
    /\ open = {} /\ returned = {} /\ abandoned = {}
    /\ latest = Nil
    /\ pc = [t \in Threads |-> "idle"]
    /\ old = [t \in Threads |-> Nil]
    /\ new = [t \in Threads |-> NoConf]
    /\ rpc = [q \in Requests |-> "idle"]
    /\ routes = [q \in Requests |-> NoConf]
    /\ auth = [q \in Requests |-> Nil]
    /\ keys = [q \in Requests |-> NoConf]

-----------------------------------------------------------------------------
Goto(t, from, to) ==
    /\ pc[t] = from
    /\ pc' = [pc EXCEPT ![t] = to]

StateOf(c) == [Admin |-> c, Policies |-> c, Keys |-> c, Routes |-> c]

(***************************************************************************)
(* Start: listen runs under mu and nothing reads the pointers before it    *)
(* returns.  If a predefined key cannot be created, Start returns an error *)
(* and the new key cache is left behind.                                   *)
(***************************************************************************)
NewCache ==
    /\ conf < MaxConf
    /\ conf' = conf + 1
    /\ open' = open \cup {conf + 1}

(* Mutant of Start: the new state is not published.                        *)
StartNoState ==
    /\ Goto("serve", "idle", "serving")
    /\ mu = Nil /\ ~closed /\ ~started
    /\ NewCache
    /\ tls' = conf + 1
    /\ handler' = conf + 1
    /\ latest' = StateOf(conf + 1)
    /\ srv' = "open"
    /\ started' = TRUE
    /\ UNCHANGED <<forever, canceled, closed, mu, state, returned, abandoned, old, new, reqVars>>

Start ==
    /\ Goto("serve", "idle", "serving")
    /\ mu = Nil /\ ~closed /\ ~started
    /\ NewCache
    /\ tls' = conf + 1
    /\ state' = StateOf(conf + 1)
    /\ handler' = conf + 1
    /\ latest' = StateOf(conf + 1)
    /\ srv' = "open"
    /\ started' = TRUE
    /\ UNCHANGED <<forever, canceled, closed, mu, returned, abandoned, old, new, reqVars>>

StartFailed ==
    /\ pc["serve"] = "idle"
    /\ mu = Nil /\ ~closed /\ ~started
    /\ NewCache
    /\ abandoned' = abandoned \cup {conf + 1}
    /\ UNCHANGED <<lifeVars, mu, pointers, returned, latest, old, new, pc, reqVars>>

(* srv.Serve returns: ErrServerClosed once Shutdown has begun, after which *)
(* serve calls Close for its result; or any other error.                   *)
ServeEnds ==
    /\ \/ srv # "open" /\ Goto("serve", "serving", "returning")
       \/ srv = "open" /\ Goto("serve", "serving", "returned")
    /\ UNCHANGED <<lifeVars, mu, pointers, cacheVars, updVars, reqVars>>

(* Mutant of CallsClose: nobody waits for the context.                     *)
CallsCloseNoWatch(t) ==
    \/ t \in Callers /\ pc[t] = "idle"
    \/ t = "serve" /\ pc[t] = "returning"

(***************************************************************************)
(* Close, called by anyone, by serve, and by the goroutine that waits for  *)
(* the context, which is also done when serve has returned.  mu is held    *)
(* all along.                                                              *)
(***************************************************************************)
CallsClose(t) ==
    \/ t \in Callers /\ pc[t] = "idle"
    \/ t = "serve" /\ pc[t] = "returning"
    \/ t = "watch" /\ pc[t] = "idle" /\ started /\ (canceled \/ pc["serve"] = "returned")

Done(t) == IF t \in Callers THEN "idle" ELSE "returned"

CloseAgain(t) ==
    /\ CallsClose(t) /\ t \notin Callers
    /\ mu = Nil /\ closed
    /\ pc' = [pc EXCEPT ![t] = Done(t)]
    /\ UNCHANGED <<lifeVars, mu, pointers, cacheVars, updVars, reqVars>>

CloseUnstarted(t) ==
    /\ CallsClose(t)
    /\ mu = Nil /\ ~closed /\ srv = "none"
    /\ closed' = TRUE
    /\ UNCHANGED <<forever, canceled, started, srv, mu, pointers, cacheVars, updVars, pc, reqVars>>

CloseBegin(t) ==
    /\ CallsClose(t)
    /\ mu = Nil /\ ~closed /\ srv = "open"
    /\ closed' = TRUE
    /\ mu' = t
    /\ srv' = "shutdown"
    /\ pc' = [pc EXCEPT ![t] = "shutdown"]
    /\ UNCHANGED <<forever, canceled, started, pointers, cacheVars, updVars, reqVars>>

(* Mutant of ShutdownDone: running requests are not waited for.            *)
ShutdownAtOnce(t) ==
    /\ Goto(t, "shutdown", "closeKeys")
    /\ UNCHANGED <<lifeVars, mu, pointers, cacheVars, updVars, reqVars>>

(* srv.Shutdown returns when no request is running.                        *)
ShutdownDone(t) ==
    /\ Goto(t, "shutdown", "closeKeys")
    /\ \A q \in Requests : rpc[q] = "idle"
    /\ UNCHANGED <<lifeVars, mu, pointers, cacheVars, updVars, reqVars>>

(* Mutant of ShutdownTimeout: the sign of the timeout is mistaken.         *)
ShutdownTimeoutNegated(t) ==
    /\ Goto(t, "shutdown", "closeKeys")
    /\ forever
    /\ srv' = "closed"
    /\ UNCHANGED <<forever, canceled, started, closed, mu, pointers, cacheVars, updVars, reqVars>>

(* It runs into the timeout: srv.Close closes the connections.             *)
ShutdownTimeout(t) ==
    /\ Goto(t, "shutdown", "closeKeys")
    /\ ~forever
    /\ srv' = "closed"
    /\ UNCHANGED <<forever, canceled, started, closed, mu, pointers, cacheVars, updVars, reqVars>>

(* Mutant of CloseKeys: after a timeout the key cache is not closed.       *)
CloseKeysGraceful(t) ==
    /\ Goto(t, "closeKeys", Done(t))
    /\ open' = IF srv = "closed" THEN open ELSE open \ {state.Keys}
    /\ mu' = Nil
    /\ UNCHANGED <<lifeVars, pointers, returned, abandoned, updVars, reqVars>>

CloseKeys(t) ==
    /\ Goto(t, "closeKeys", Done(t))
    /\ open' = open \ {state.Keys}
    /\ mu' = Nil
    /\ UNCHANGED <<lifeVars, pointers, returned, abandoned, updVars, reqVars>>

-----------------------------------------------------------------------------
(* Mutants of Lock: mu is not locked; closed is not checked.               *)
LockNothing(t) == ~closed /\ started /\ mu' = mu
LockClosed(t) == mu = Nil /\ started /\ mu' = t

(***************************************************************************)
(* The Update methods, behind their checks of closed and started.          *)
(***************************************************************************)
Lock(t) == mu = Nil /\ ~closed /\ started /\ mu' = t

UpdateBegin(t, step) ==
    /\ Goto(t, "idle", step)
    /\ Lock(t)
    /\ conf < MaxConf
    /\ conf' = conf + 1
    /\ new' = [new EXCEPT ![t] = conf + 1]
    /\ old' = [old EXCEPT ![t] = state]
    /\ UNCHANGED <<lifeVars, pointers, returned, abandoned, latest, reqVars>>

(* A new state replaces the one of now.                                    *)
UpdateDone(t) ==
    /\ pc' = [pc EXCEPT ![t] = "idle"]
    /\ old' = [old EXCEPT ![t] = Nil]
    /\ new' = [new EXCEPT ![t] = NoConf]
    /\ mu' = Nil

UpdateAdmin(t) ==
    /\ pc[t] = "admin"
    /\ state' = [old[t] EXCEPT !.Admin = new[t]]
    /\ latest' = [latest EXCEPT !.Admin = new[t]]
    /\ UpdateDone(t)
    /\ UNCHANGED <<lifeVars, tls, handler, cacheVars, conf, reqVars>>

UpdatePolicies(t) ==
    /\ pc[t] = "policies"
    /\ state' = [old[t] EXCEPT !.Policies = new[t]]
    /\ latest' = [latest EXCEPT !.Policies = new[t]]
    /\ UpdateDone(t)
    /\ UNCHANGED <<lifeVars, tls, handler, cacheVars, conf, reqVars>>

(* One store under mu.                                                     *)
UpdateTLS(t) ==
    /\ pc[t] = "idle"
    /\ mu = Nil /\ ~closed /\ started
    /\ conf < MaxConf
    /\ conf' = conf + 1
    /\ tls' = conf + 1
    /\ UNCHANGED <<lifeVars, mu, state, handler, cacheVars, latest, old, new, pc, reqVars>>

(* Update creates the key cache first, then the predefined keys, which may *)
(* fail and leaves the new cache behind, and then stores tls, state and    *)
(* handler, in this order.  The old key cache goes to the caller.          *)
UpdateFailed(t) ==
    /\ pc[t] = "predefine"
    /\ abandoned' = abandoned \cup {new[t]}
    /\ UpdateDone(t)
    /\ UNCHANGED <<lifeVars, pointers, open, returned, conf, latest, reqVars>>

UpdateStoreTLS(t) ==
    /\ Goto(t, "predefine", "state")
    /\ tls' = new[t]
    /\ UNCHANGED <<lifeVars, mu, state, handler, cacheVars, updVars, reqVars>>

UpdateStoreState(t) ==
    /\ Goto(t, "state", "handler")
    /\ state' = StateOf(new[t])
    /\ latest' = StateOf(new[t])
    /\ UNCHANGED <<lifeVars, mu, tls, handler, cacheVars, conf, old, new, reqVars>>

UpdateStoreHandler(t) ==
    /\ pc[t] = "handler"
    /\ handler' = new[t]
    /\ returned' = returned \cup {old[t].Keys}
    /\ UpdateDone(t)
    /\ UNCHANGED <<lifeVars, tls, state, open, abandoned, conf, latest, reqVars>>

(* The caller of Update closes the old key cache (cmd/kes does so at once, *)
(* others at any later time).                                              *)
CloseReturned(c) ==
    /\ c \in returned
    /\ open' = open \ {c}
    /\ returned' = returned \ {c}
    /\ UNCHANGED <<lifeVars, mu, pointers, abandoned, updVars, pc, reqVars>>

Updates(t) ==
    \/ \E step \in {"admin", "policies"} : UpdateBegin(t, step) /\ UNCHANGED open
    \/ UpdateBegin(t, "predefine") /\ open' = open \cup {conf + 1}
    \/ UpdateTLS(t)

UpdateStep(t) ==
    \/ UpdateAdmin(t)
    \/ UpdatePolicies(t)
    \/ UpdateFailed(t)
    \/ UpdateStoreTLS(t)
    \/ UpdateStoreState(t)
    \/ UpdateStoreHandler(t)

CloseStart(t) == CloseAgain(t) \/ CloseUnstarted(t) \/ CloseBegin(t)
CloseStep(t) == ShutdownDone(t) \/ ShutdownTimeout(t) \/ CloseKeys(t)

-----------------------------------------------------------------------------
RGoto(q, from, to) ==
    /\ rpc[q] = from
    /\ rpc' = [rpc EXCEPT ![q] = to]

(* The http.Server's Handler: s.handler.Load().ServeHTTP.                  *)
Route(q) ==
    /\ RGoto(q, "idle", "routed")
    /\ srv = "open"
    /\ routes' = [routes EXCEPT ![q] = handler]
    /\ UNCHANGED <<lifeVars, mu, pointers, cacheVars, updVars, pc, auth, keys>>

RequestDone(q) ==
    /\ rpc' = [rpc EXCEPT ![q] = "idle"]
    /\ routes' = [routes EXCEPT ![q] = NoConf]
    /\ auth' = [auth EXCEPT ![q] = Nil]
    /\ keys' = [keys EXCEPT ![q] = NoConf]

(* verifyIdentity.Authenticate: Admin and Identities of one serverState.   *)
Authenticate(q) ==
    /\ RGoto(q, "routed", "authenticated")
    /\ auth' = [auth EXCEPT ![q] = state]
    /\ UNCHANGED <<lifeVars, mu, pointers, cacheVars, updVars, pc, routes, keys>>

Reject(q) ==
    /\ rpc[q] \in {"routed", "authenticated"}
    /\ RequestDone(q)
    /\ UNCHANGED <<lifeVars, mu, pointers, cacheVars, updVars, pc>>

(* A handler that uses s.state.Load().Keys, and returns.                   *)
CallKeys(q) ==
    /\ RGoto(q, "authenticated", "calling")
    /\ keys' = [keys EXCEPT ![q] = state.Keys]
    /\ UNCHANGED <<lifeVars, mu, pointers, cacheVars, updVars, pc, routes, auth>>

Respond(q) ==
    /\ rpc[q] = "calling"
    /\ RequestDone(q)
    /\ UNCHANGED <<lifeVars, mu, pointers, cacheVars, updVars, pc>>

(* logError and logAudit wait for the request's context: the client leaves *)
(* or the connection is closed, or Start's context is done (BaseContext).  *)
Stream(q) ==
    /\ RGoto(q, "authenticated", "streaming")
    /\ UNCHANGED <<lifeVars, mu, pointers, cacheVars, updVars, pc, routes, auth, keys>>

StreamDone(q) ==
    /\ rpc[q] = "streaming"
    /\ RequestDone(q)
    /\ UNCHANGED <<lifeVars, mu, pointers, cacheVars, updVars, pc>>

Interrupted == canceled \/ srv = "closed"

RequestStep(q) ==
    Authenticate(q) \/ Reject(q) \/ CallKeys(q) \/ Respond(q) \/ Stream(q)

(* The caller of Start cancels its context.                                *)
Cancel ==
    /\ ~canceled
    /\ canceled' = TRUE
    /\ UNCHANGED <<forever, started, closed, srv, mu, pointers, cacheVars, updVars, pc, reqVars>>

Next ==
    \/ Start \/ StartFailed \/ ServeEnds
    \/ \E t \in Threads : CloseStart(t) \/ CloseStep(t)
    \/ \E t \in Callers : Updates(t) \/ UpdateStep(t)
    \/ \E c \in Confs : CloseReturned(c)
    \/ \E q \in Requests : Route(q) \/ RequestStep(q) \/ StreamDone(q)
    \/ Cancel

Spec == Init /\ [][Next]_vars

(***************************************************************************)
(* Scheduling: goroutines that can run are run, mu does not starve who     *)
(* waits for it, calls of the KeyStore and the authentication return, a    *)
(* timeout expires.  A client need not leave the log APIs by itself.       *)
(***************************************************************************)
Fairness ==
    /\ WF_vars(srv # "open" /\ ServeEnds)
    /\ \A t \in {"serve", "watch"} : SF_vars(CloseStart(t))
    /\ \A t \in Threads : WF_vars(CloseStep(t))
    /\ \A t \in Callers : WF_vars(UpdateStep(t))
    /\ \A q \in Requests : WF_vars(RequestStep(q)) /\ WF_vars(Interrupted /\ StreamDone(q))

FairSpec == Spec /\ Fairness

-----------------------------------------------------------------------------
(* No reconfiguration is lost: when no method is running, the state is     *)
(* made of the latest parts, although UpdateAdmin and UpdatePolicies copy  *)
(* the parts they do not change from a state they loaded before.           *)
NoLostUpdate == mu = Nil => state = latest

(* A request sees the pointers move forward only: the state that           *)
(* authenticates it is at least as new as the routes that dispatched it,   *)
(* and the key cache it ends up with at least as new as the policies that  *)
(* let it in came with.                                                    *)
RequestsMoveForward ==
    \A q \in Requests :
        /\ auth[q] # Nil => routes[q] <= auth[q].Routes
        /\ keys[q] # NoConf => auth[q].Keys <= keys[q]

(* Close waits for requests: the key cache a running request calls is      *)
(* closed only after the graceful period, or by a caller of Update who     *)
(* closes the cache it got while requests that started before still run.   *)
GracefulClose ==
    \A q \in Requests :
        rpc[q] = "calling" /\ keys[q] \notin open =>
            srv = "closed" \/ keys[q] # state.Keys

(* Whatever is reconfigured or closed, a request is served by parts that   *)
(* belong together, until it is done or its time is over.                  *)
RequestsServed == RequestsMoveForward /\ GracefulClose

(* The resources of a configuration are released: a key cache that is open *)
(* is in use, or the caller of Update has it, or a predefined key of its   *)
(* configuration could not be created; and Close closes the one in use.    *)
CachesAccounted ==
    LET current == IF state = Nil THEN {} ELSE {state.Keys}
        pending == {new[t] : t \in {u \in Threads : pc[u] \in {"predefine", "state"}}}
        replaced == {old[t].Keys : t \in {u \in Threads : pc[u] = "handler"}}
        rest == IF closed /\ mu = Nil THEN {} ELSE current
    IN  open \subseteq rest \cup returned \cup abandoned \cup pending \cup replaced

(* Update, UpdateTLS and the others "[return] an error if the server [...] *)
(* has been closed": nothing is reconfigured behind Close, so the cache it *)
(* closes is the last one.                                                 *)
ClosedIsFinal == [][closed => UNCHANGED pointers]_vars

(* "Start returns once the server is closed or ctx.Done returns": also if  *)
(* clients are subscribed to the log APIs, unless the server waits for     *)
(* them indefinitely.                                                      *)
StartReturns ==
    (pc["serve"] = "serving" /\ (canceled \/ (closed /\ ~forever)))
        ~> pc["serve"] = "returned"

(* Close returns, and releases mu for those who wait.                      *)
CloseReturns ==
    ~forever => \A t \in Threads : pc[t] = "shutdown" ~> pc[t] = Done(t)
=============================================================================
