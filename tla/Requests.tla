------------------------------ MODULE Requests ------------------------------
(***************************************************************************)
(* The requests of clients, from the TLS handshake to the last metric,     *)
(* while the server is reconfigured (Reload.tla).                          *)
(*                                                                         *)
(* A request takes its route from Server.handler, and its handler loads    *)
(* Server.state anew each time it needs it: to authenticate, to call the   *)
(* key store, to log an error, to write an audit record.  Between any two  *)
(* of these steps other requests and the Update proceed.  The auditLogger  *)
(* is shared by all states: an Update overwrites its handler.              *)
(***************************************************************************)
EXTENDS Handlers, Config

CONSTANT
    Scenarios   \* the configurations, key store contents and requests to check

(* A scenario:                                                             *)
(*   conf     the configuration the server is started with                 *)
(*   stored   what its key store holds                                     *)
(*   build    FIPS mode, CPU features                                      *)
(*   faults   whether backends and connections may fail                    *)
(*   requests what the clients send, a sequence                            *)
(*   update   the method of Server that is called, with its configuration; *)
(*            "SIGHUP" if it is cmd/kes that calls Update; or "none"       *)
(*   files    the configuration files of cmd/kes, one after the other      *)
(*   signals  how often SIGHUP is sent, a bound                            *)
(* A configuration: admin, policies, the APIs that skip authentication,    *)
(* the kind of its key store, the names of its predefined keys, its TLS    *)
(* and cache configuration, its audit handler ("keep" if nil), whether it  *)
(* brings its own ErrorLog, and the log levels that go with it.            *)

Kinds == {"mem", "fs", "efs", "aws", "gcp", "azure", "vault", "entrust", "gemalto", "fortanix"}
AuditHandlers == {"h1", "h2", "off"}
Torn == "torn"   \* an interface value, half of which has been overwritten
HandlerEnabled(h) == h # "off"

(***************************************************************************)
(* What the scenarios have in common.  Go and YAML give values their types *)
(* and know the sections and paths that there are.  A server that is up    *)
(* has accepted its configuration, and cmd/kes has read it from the file.  *)
(***************************************************************************)
Policy == [ids : Seq(Int), allow : SUBSET (STRING \X Int), deny : SUBSET (STRING \X Int)]
ArePolicies(policies) == \A p \in DOMAIN policies : policies[p] \in Policy

IsConf(conf) ==
    /\ DOMAIN conf = {"admin", "policies", "skip", "keys", "predefined", "audit", "errorLog",
                      "tls", "cache", "levels"}
    /\ ArePolicies(conf.policies)
    /\ conf.skip \subseteq APIs
    /\ conf.keys \in Kinds \cup {"none"} /\ conf.predefined \subseteq Names
    /\ conf.audit \in AuditHandlers \cup {"keep"}
    /\ conf.errorLog \in BOOLEAN
    /\ conf.levels \in [error : Int, audit : Int]

IsFile(y) ==
    /\ ArePolicies(y.policies)
    /\ DOMAIN y.stores \subseteq (Kinds \ {"mem"}) \cup {"kes"}
    /\ \A i \in DOMAIN y.keys : y.keys[i] \in Names
    /\ DOMAIN y.paths \subseteq APIs /\ \A p \in DOMAIN y.paths : y.paths[p].skip \in BOOLEAN
    /\ y.cache \in [any : Int, unused : Int, offline : Int]
    /\ y.log.error.plus \in Int /\ y.log.audit.plus \in Int

IsRequest(q) ==
    /\ q.api \in APIs
    /\ q.certs \in Seq([ca : BOOLEAN, id : Names, trusted : BOOLEAN])
    /\ q.resource \in [name : Int, star : BOOLEAN]

ASSUME ScenariosAssumption ==
    \A s \in Scenarios :
        /\ IsConf(s.conf) /\ s.conf.keys \in Kinds /\ s.conf.audit \in AuditHandlers
        /\ IsConf(s.update.conf)
        /\ s.update.method \in {"none", "SIGHUP", "Update", "UpdateAdmin", "UpdatePolicies"}
        /\ IF s.update.method = "SIGHUP"
           THEN /\ Len(s.files) \in Nat \ {0} /\ ReadFile(s.files[1]).ok
                /\ s.conf = [ConfigOf(s.files[1]) EXCEPT !.audit = s.conf.audit]
           ELSE initPoliciesOK(s.conf.policies)
        /\ DOMAIN s.files = 1 .. Len(s.files) /\ \A i \in DOMAIN s.files : IsFile(s.files[i])
        /\ s.signals \in Nat /\ s.faults \in BOOLEAN
        /\ Len(s.requests) \in Nat /\ \A r \in 1 .. Len(s.requests) : IsRequest(s.requests[r])

(* A client that decrypts has the ciphertext of one of the requests to     *)
(* encrypt, body.of, or one of earlier: body.source says under which key   *)
(* and context what was sealed.  Other bytes pass for sealed under a key   *)
(* that nobody has.                                                        *)
Parts(c) == IF c.form = "raw" THEN c.raw ELSE <<c.Bytes, c.IV, c.Nonce>>

IsCiphertext(c, source) ==
    /\ c.form \in {"raw", "msgp", "json"} /\ c.known \in BOOLEAN
    /\ Parts(c)[1] = Seal(source.key, Parts(c)[2], Parts(c)[3], source.context, source.plaintext)

ASSUME CiphertextsAssumption ==
    \A s \in Scenarios : \A r \in 1 .. Len(s.requests) :
        LET body == s.requests[r].body
        IN  s.requests[r].api = "decryptKey" =>
                \/ body.of = 0 /\ IsCiphertext(body.ciphertext, body.source)
                \/ /\ body.of \in 1 .. Len(s.requests)
                   /\ s.requests[body.of].api \in {"encryptKey", "generateKey"}

VARIABLES
    setup,      \* the scenario
    up,         \* the process: "starting", "up", "dead"
    state,      \* Server.state: its configuration, and whether its logHandler has no level
    handler,    \* Server.handler: the APIs whose routes skip authentication
    tls,        \* Server.tls
    auditH,     \* the handler of the auditLogger
    levels,     \* Server.ErrLevel and Server.AuditLevel
    store,      \* what each key store holds for each name
    held,       \* what it has held for each name so far
    req,        \* the requests
    audit,      \* the audit records that were handled
    meter,      \* the metrics
    inForce,    \* history: the configurations in force
    durable,    \* history: keys that exist, or whose creation was acknowledged
    doomed      \* history: keys that a handler tried to delete, or a failed Create removed

confVars == <<up, state, handler, tls, auditH, levels, inForce>>
keyVars == <<store, held, durable, doomed>>
requestVars == <<setup, confVars, keyVars, req, audit, meter>>

Reqs == 1 .. Len(setup.requests)
Request(r) == setup.requests[r]
RouteFor(r) == initRoutes(req[r].skip)[Request(r).api]
Counted(r) == Routes[Request(r).api].Counted

Files == setup.files
UsedKinds ==
    {setup.conf.keys, setup.update.conf.keys}
        \cup {ymlToKeyStore(Files[i]).kind : i \in {j \in DOMAIN Files : ReadFile(Files[j]).ok}}
AuditOn == levels.audit <= LevelInfo
ErrorOn(level) == levels.error <= level

NoPage == [names |-> {}, skip |-> 0, last |-> FALSE]
Fresh ==
    [pc |-> "new", skip |-> {}, id |-> NoIdentity, used |-> "mem", codes |-> <<>>,
     result |-> NoResult, page |-> NoPage, hEnabled |-> FALSE, oEnabled |-> FALSE,
     effect |-> Panic, left |-> FALSE, granted |-> FALSE, panicked |-> FALSE,
     seen |-> {}, known |-> {}, audited |-> TRUE]

InitRequests ==
    /\ setup \in Scenarios
    /\ up = IF setup.update.method = "SIGHUP" THEN "starting" ELSE "up"
    /\ state = [conf |-> setup.conf, nolevel |-> FALSE]
    /\ handler = setup.conf.skip
    /\ auditH = setup.conf.audit
    /\ tls = setup.conf.tls
    /\ levels = setup.conf.levels
    /\ store = [k \in UsedKinds |-> [n \in Names |->
                    IF k = setup.conf.keys THEN setup.stored[n] ELSE Nothing]]
    /\ held = [k \in UsedKinds |-> [n \in Names |-> {store[k][n]} \ {Nothing}]]
    /\ req = [r \in Reqs |-> Fresh]
    /\ audit = <<>>
    /\ meter = [active |-> 0, latency |-> 0, succeeded |-> 0, errored |-> 0, failed |-> 0,
                errorEvents |-> 0, auditEvents |-> 0]
    /\ inForce = {setup.conf}
    /\ durable = {at \in UsedKinds \X Names :
                    store[at[1]][at[2]] # Nothing /\ Cacheable(store[at[1]][at[2]])}
    /\ doomed = {}

-----------------------------------------------------------------------------
(* Mutant of Leave: also requests that never got to their handler leave.   *)
LeaveUngranted(m, r) ==
    IF Counted(r) THEN [m EXCEPT !.active = @ - 1, !.latency = @ + 1] ELSE m

(* The end of a request.  Count and Latency run as deferred functions: if  *)
(* the handler panicked, no status was written, and Count panics itself    *)
(* before the request is counted in a class.                               *)
Leave(m, r) ==
    IF req[r].granted /\ Counted(r)
    THEN [m EXCEPT !.active = @ - 1, !.latency = @ + 1] ELSE m

updateMetrics(m, r, code) ==
    IF ~Counted(r) THEN m
    ELSE CASE code \in 200 .. 299 -> [m EXCEPT !.succeeded = @ + 1]
           [] code \in 400 .. 499 -> [m EXCEPT !.errored = @ + 1]
           [] code \in 500 .. 599 -> [m EXCEPT !.failed = @ + 1]

(* net/http recovers the panic and closes the connection.                  *)
Panics(r) ==
    /\ req' = [req EXCEPT ![r].pc = "done", ![r].panicked = TRUE, ![r].codes = <<>>]
    /\ meter' = Leave(meter, r)

(* Answered before a handler was called.                                   *)
Refuse(r, code) ==
    req' = [req EXCEPT ![r].pc = "done", ![r].codes = <<code>>]

(* The client that decrypts has a ciphertext of an earlier scenario, or    *)
(* one that the server gave it in answer to an earlier request.            *)
Answered(r) == req[r].pc = "done" /\ req[r].codes = <<200>>

Ciphertext(r) ==
    LET body == Request(r).body
    IN  IF body.of = 0 THEN body.ciphertext
        ELSE req[body.of].result.ciphertext

(* The TLS handshake, with the configuration of the moment.  The server    *)
(* keeps the connection, and serves requests from it, through all updates. *)
Handshake(r) ==
    LET certs == Request(r).certs
        required == tls.ClientAuth \in RequiresCert
        verified == tls.ClientAuth \in {"RequireAndVerifyClientCert", "VerifyClientCertIfGiven"}
    IN  /\ req[r].pc = "new"
        /\ IF (required => certs # <<>>) /\ (verified /\ certs # <<>> => certs[1].trusted)
           THEN req' = [req EXCEPT ![r].pc = "connected"]
           ELSE req' = [req EXCEPT ![r].pc = "done"]
        /\ UNCHANGED <<setup, confVars, keyVars, audit, meter>>

Arrive(r) ==
    LET q == Request(r)
    IN  /\ req[r].pc = "connected"
        /\ q.body.of > 0 => Answered(q.body.of)
        /\ req' = [req EXCEPT ![r].pc = "routed", ![r].skip = handler, ![r].seen = inForce,
                              ![r].known = durable \ doomed,
                              ![r].audited = AuditOn /\ HandlerEnabled(auditH)]
        /\ UNCHANGED <<setup, confVars, keyVars, audit, meter>>

(* Route.ServeHTTP up to the authentication.                               *)
CheckMethod(r) ==
    /\ req[r].pc = "routed"
    /\ ~MethodAllowed(RouteFor(r), Request(r).method)
    /\ Refuse(r, 405)
    /\ UNCHANGED <<setup, confVars, keyVars, audit, meter>>

(* The write deadline affects the connection only, but the connection may  *)
(* refuse it.  The log APIs have none.                                     *)
SetTimeout(r) ==
    /\ req[r].pc = "routed"
    /\ MethodAllowed(RouteFor(r), Request(r).method)
    /\ setup.faults /\ ~Streams(Request(r))
    /\ Refuse(r, 500)
    /\ UNCHANGED <<setup, confVars, keyVars, audit, meter>>

(* A rejected request is logged, at debug level, with the logger of the    *)
(* same state; a logHandler without level panics in Enabled.               *)
AuthenticateRequest(r) ==
    LET code == Authenticate(RouteFor(r), state.conf, Request(r))
    IN  /\ req[r].pc = "routed"
        /\ MethodAllowed(RouteFor(r), Request(r).method)
        /\ \/ /\ code = 0
              /\ req' = [req EXCEPT ![r].pc = "handler", ![r].granted = TRUE,
                                    ![r].id = Identity(RouteFor(r), Request(r))]
              /\ meter' = IF Counted(r) THEN [meter EXCEPT !.active = @ + 1] ELSE meter
           \/ /\ code # 0 /\ state.nolevel
              /\ Panics(r)
           \/ /\ code # 0 /\ ~state.nolevel
              /\ Refuse(r, code)
              /\ UNCHANGED meter
        /\ UNCHANGED <<setup, confVars, keyVars, audit>>

-----------------------------------------------------------------------------
CallOf(r, conf) ==
    [q |-> Request(r), id |-> req[r].id, random |-> r, conf |-> conf,
     cipher |-> IF Request(r).api = "decryptKey" THEN Ciphertext(r) ELSE NoResult,
     keys |-> store[conf.keys], held |-> held[conf.keys],
     build |-> setup.build, faults |-> setup.faults]

Put(kind, name, value) ==
    IF value = Keep THEN UNCHANGED <<store, held>>
    ELSE /\ store' = [store EXCEPT ![kind][name] = value]
         /\ held' = [held EXCEPT ![kind][name] = @ \cup ({value} \ {Nothing})]

(* What follows an effect: the log, the audit record or the answer.        *)
After(q, e) ==
    IF e.log THEN "log" ELSE IF e.audit THEN "audit"
    ELSE IF Streams(q) THEN "stream" ELSE "reply"

Takes(r, e, kind) ==
    /\ e.codes # <<>>
    /\ req' = [req EXCEPT ![r].pc = After(Request(r), e), ![r].used = kind,
                          ![r].codes = e.codes, ![r].result = e.result]
    /\ UNCHANGED meter

(* azure or vault has not found the key, and has yet to write it.          *)
Unwritten(kind, e) == kind \in ChecksFirst /\ e.put \notin {Keep, Nothing}

(* The handler loads the state and calls the key store.                    *)
Call(r) ==
    LET q == Request(r)
        x == CallOf(r, state.conf)
        kind == state.conf.keys
    IN  /\ req[r].pc = "handler"
        /\ ~(Paged(x) /\ validPattern(q.resource))
        /\ \E e \in Handler(x) :
            /\ \/ /\ ~Unwritten(kind, e)
                  /\ Takes(r, e, kind) \/ (e = Panic /\ Panics(r))
                  /\ Put(kind, q.resource.name, e.put)
               \/ /\ Unwritten(kind, e)
                  /\ req' = [req EXCEPT ![r].pc = "write", ![r].used = kind, ![r].effect = e]
                  /\ UNCHANGED <<store, held, meter>>
            /\ doomed' = IF (q.api = "deleteKey" /\ validName(q.resource)) \/ e.put = Nothing
                         THEN doomed \cup {<<kind, q.resource.name>>} ELSE doomed
        /\ UNCHANGED <<setup, confVars, durable, audit>>

(* The rest of azure's and vault's Create.  If another one was faster, the *)
(* K/V engine v2 refuses to write the key, v1 replaces the other key, and  *)
(* KeyVault keeps both as versions of which Get finds the older one, or    *)
(* either (GetFinds) if they were made within a second.                    *)
Write(r) ==
    LET kind == req[r].used
        name == Request(r).resource.name
    IN  /\ req[r].pc = "write"
        /\ \/ /\ Takes(r, req[r].effect, kind)
              /\ Put(kind, name, req[r].effect.put)
           \/ /\ kind = "vault" /\ store[kind][name] # Nothing
              /\ Takes(r, LogAndFail(502), kind)
              /\ UNCHANGED <<store, held>>
        /\ UNCHANGED <<setup, confVars, durable, doomed, audit>>

(* A listing that takes several requests to the key store.                 *)
CallPaged(r) ==
    LET x == CallOf(r, state.conf)
    IN  /\ req[r].pc = "handler"
        /\ Paged(x) /\ validPattern(Request(r).resource)
        /\ req' = [req EXCEPT ![r].pc = "page", ![r].used = state.conf.keys]
        /\ UNCHANGED <<setup, confVars, keyVars, audit, meter>>

(* The next request for a page.                                            *)
NextPage(r) ==
    LET x == CallOf(r, [state.conf EXCEPT !.keys = req[r].used])
        round == ListRound(x, req[r].page)
    IN  /\ req[r].pc = "page"
        /\ ~req[r].left
        /\ \/ /\ ~round.last
              /\ req' = [req EXCEPT ![r].page = round]
              /\ UNCHANGED meter
           \/ \E e \in ListEnd(x, round) : Takes(r, e, req[r].used)
        /\ UNCHANGED <<setup, confVars, keyVars, audit>>

PageCanceled(r) ==
    /\ req[r].pc = "page"
    /\ req[r].left
    /\ Takes(r, ListCanceled, req[r].used)
    /\ UNCHANGED <<setup, confVars, keyVars, audit>>

-----------------------------------------------------------------------------
Subscribed(api) == {r \in Reqs : req[r].pc = "stream" /\ Request(r).api = api}

(* s.state.Load().Log.ErrorContext, or WarnContext of ready: the state is  *)
(* loaded again.                                                           *)
LogError(r) ==
    /\ req[r].pc = "log"
    /\ \/ /\ state.nolevel
          /\ Panics(r)
       \/ /\ ~state.nolevel
          /\ req' = [req EXCEPT ![r].pc = "reply"]
          /\ meter' = IF ErrorOn(IF Request(r).api = "ready" THEN LevelWarn ELSE LevelError)
                      THEN [meter EXCEPT !.errorEvents = @ + Cardinality(Subscribed("logError"))]
                      ELSE meter
    /\ UNCHANGED <<setup, confVars, keyVars, audit>>

(* auditLogger.Log asks the handler whether it is enabled and looks for    *)
(* subscribers; then it loads the handler once more to handle the record.  *)
(* Calling a method of a torn interface value goes anywhere: it panics, or *)
(* it returns something.                                                   *)
AuditEnabled(r) ==
    LET answers == IF auditH = Torn THEN BOOLEAN ELSE {HandlerEnabled(auditH)}
        watched == Subscribed("logAudit") # {}
    IN  /\ req[r].pc = "audit"
        /\ \/ /\ ~AuditOn
              /\ req' = [req EXCEPT ![r].pc = "reply"]
              /\ UNCHANGED meter
           \/ /\ AuditOn
              /\ \E enabled \in answers :
                    req' = [req EXCEPT
                        ![r].pc = IF enabled \/ watched THEN "record" ELSE "reply",
                        ![r].hEnabled = enabled, ![r].oEnabled = watched,
                        ![r].audited = @ /\ auditH # Torn]
              /\ UNCHANGED meter
           \/ /\ AuditOn /\ auditH = Torn
              /\ Panics(r)
        /\ UNCHANGED <<setup, confVars, keyVars, audit>>

AuditRecord(r) == [of |-> r, by |-> auditH, id |-> req[r].id]

(* Mutant of AuditHandle: only subscribers are told who did it.            *)
AuditHandleSubscribers(r) ==
    /\ req[r].pc = "record"
    /\ req' = [req EXCEPT ![r].pc = "reply"]
    /\ audit' = IF req[r].oEnabled THEN Append(audit, AuditRecord(r)) ELSE audit
    /\ UNCHANGED <<setup, confVars, keyVars, meter>>

AuditHandle(r) ==
    /\ req[r].pc = "record"
    /\ \/ /\ req' = [req EXCEPT ![r].pc = "reply",
                                ![r].audited = @ /\ (req[r].hEnabled => auditH # Torn)]
          /\ audit' = IF req[r].hEnabled /\ auditH # Torn
                      THEN Append(audit, AuditRecord(r)) ELSE audit
          /\ meter' = IF req[r].oEnabled
                      THEN [meter EXCEPT !.auditEvents = @ + Cardinality(Subscribed("logAudit"))]
                      ELSE meter
       \/ /\ req[r].hEnabled /\ auditH = Torn
          /\ Panics(r)
          /\ UNCHANGED audit
    /\ UNCHANGED <<setup, confVars, keyVars>>

(* WriteHeader, the body, and the metrics of the last status code.         *)
Reply(r) ==
    LET codes == req[r].codes
        kept == req[r].used
        creates == Request(r).api \in {"createKey", "importKey"} /\ codes = <<200>>
    IN  /\ req[r].pc = "reply"
        /\ req' = [req EXCEPT ![r].pc = "done"]
        /\ meter' = updateMetrics(Leave(meter, r), r, codes[Len(codes)])
        /\ durable' = IF creates THEN durable \cup {<<kept, Request(r).resource.name>>} ELSE durable
        /\ UNCHANGED <<setup, confVars, store, held, doomed, audit>>

(* The client of a log API, or of a listing, leaves.                       *)
ClientLeaves(r) ==
    /\ req[r].pc \in {"stream", "page"}
    /\ ~req[r].left
    /\ req' = [req EXCEPT ![r].left = TRUE]
    /\ UNCHANGED <<setup, confVars, keyVars, audit, meter>>

Unsubscribe(r) ==
    /\ req[r].pc = "stream"
    /\ req[r].left
    /\ req' = [req EXCEPT ![r].pc = "done"]
    /\ UNCHANGED <<setup, confVars, keyVars, audit, meter>>

HandleRequest(r) ==
    \/ CheckMethod(r) \/ SetTimeout(r) \/ AuthenticateRequest(r)
    \/ Call(r) \/ Write(r) \/ CallPaged(r) \/ NextPage(r) \/ PageCanceled(r)
    \/ LogError(r) \/ AuditEnabled(r) \/ AuditHandle(r)
    \/ Reply(r) \/ Unsubscribe(r)

=============================================================================
