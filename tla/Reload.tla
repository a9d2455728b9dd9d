------------------------------- MODULE Reload -------------------------------
(***************************************************************************)
(* The Update methods of Server, and cmd/kes, which calls two of them: a   *)
(* goroutine reloads the configuration file when it gets SIGHUP, another   *)
(* one reloads the TLS configuration from the same file every 15 minutes.  *)
(* Meanwhile clients send requests (Requests.tla).                         *)
(***************************************************************************)
EXTENDS Requests

VARIABLES
    upc,        \* where the Update method, or the loop that calls it, is
    target,     \* the configuration it was given
    made,       \* the predefined keys it has dealt with
    missing,    \* the one that azure or vault has not found and has yet to write, or Empty
    disk,       \* the configuration file on disk: Files[disk]
    pending,    \* signals in the channel
    sent,       \* signals so far
    asked,      \* history: the file on disk when the latest signal came
    loaded,     \* history: the file the latest reload has read, 0 if none
    outcome,    \* history: how it ended
    tick,       \* the TLS configuration the ticker's goroutine has read, or NoTLS
    early       \* history: a signal came before the server had started

daemonVars == <<disk, pending, sent, asked, loaded, outcome, tick, early>>
vars == <<requestVars, upc, target, made, missing, daemonVars>>

SigCap == 10      \* capacity of the channel of signals
NoTLS == [ClientAuth |-> "none", cert |-> 0]

Method == setup.update.method
Daemon == Method = "SIGHUP"

Init ==
    /\ InitRequests
    /\ upc = "idle"
    /\ target = setup.conf
    /\ made = {} /\ missing = Empty
    /\ disk = 1
    /\ pending = 0 /\ sent = 0 /\ asked = 0 /\ loaded = 0 /\ outcome = "none"
    /\ tick = NoTLS
    /\ early = FALSE

-----------------------------------------------------------------------------
(* An error of the key store, which the in-memory store does not have.     *)
MayFail(conf) == setup.faults /\ conf.keys # "mem"

(* createPredefinedKeys, for some of the keys: one that exists is left     *)
(* alone.                                                                  *)
PredefinedKey(conf, n) ==
    EncodeKeyVersion(GenerateSecretKey(DetermineSecretKeyType(setup.build),
                                       Len(setup.requests) + n, conf.admin))

createPredefinedKeys(conf, names) ==
    LET new == {n \in names : store[conf.keys][n] = Nothing}
    IN  /\ store' = [store EXCEPT ![conf.keys] =
                        [n \in Names |-> IF n \in new THEN PredefinedKey(conf, n) ELSE @[n]]]
        /\ held' = [held EXCEPT ![conf.keys] =
                        [n \in Names |-> IF n \in new THEN @[n] \cup {PredefinedKey(conf, n)}
                                         ELSE @[n]]]

(* ListenAndStart: the main goroutine of cmd/kes starts the server after   *)
(* it has started the two others; if that fails the program ends.          *)
Start ==
    /\ up = "starting"
    /\ \/ /\ initPoliciesOK(state.conf.policies)
          /\ up' = "up"
          /\ createPredefinedKeys(state.conf, state.conf.predefined)
       \/ /\ ~initPoliciesOK(state.conf.policies)
             \/ (MayFail(state.conf) /\ state.conf.predefined # {})
          /\ up' = "dead"
          /\ UNCHANGED <<store, held>>   \* nobody looks at it any more
    /\ UNCHANGED <<setup, state, handler, tls, auditH, levels, inForce, durable, doomed,
                   req, audit, meter, upc, target, made, missing, daemonVars>>

(* Somebody replaces the configuration file, and sends a signal.           *)
EditFile ==
    /\ Daemon /\ disk < Len(Files)
    /\ disk' = disk + 1
    /\ UNCHANGED <<requestVars, upc, target, made, missing, pending, sent, asked, loaded, outcome, tick, early>>

(* The runtime drops a signal if the channel is full.                      *)
Signal ==
    /\ Daemon /\ up # "dead" /\ sent < setup.signals
    /\ sent' = sent + 1
    /\ pending' = IF pending < SigCap THEN pending + 1 ELSE pending
    /\ asked' = disk
    /\ early' = (early \/ up = "starting")
    /\ UNCHANGED <<requestVars, upc, target, made, missing, disk, loaded, outcome, tick>>

-----------------------------------------------------------------------------
(***************************************************************************)
(* The loop that reloads.  A panic of one goroutine ends the process.      *)
(***************************************************************************)
Dies ==
    /\ up' = "dead"
    /\ UNCHANGED <<setup, state, handler, tls, auditH, levels, inForce, keyVars, req, audit, meter>>

(* kesconf.ReadFile.                                                       *)
ReloadRead ==
    LET file == ReadFile(Files[disk])
    IN  /\ upc = "idle" /\ pending > 0 /\ up # "dead"
        /\ pending' = pending - 1
        /\ loaded' = disk
        /\ \/ /\ file.ok
              /\ upc' = "connect"
              /\ target' = [ConfigOf(Files[disk]) EXCEPT !.audit = state.conf.audit]
              /\ UNCHANGED <<requestVars, made, missing, outcome>>
           \/ /\ ~file.ok /\ ~file.panic
              /\ outcome' = "error"
              /\ UNCHANGED <<requestVars, upc, target, made, missing>>
           \/ /\ ~file.ok /\ file.panic
              /\ Dies
              /\ UNCHANGED <<upc, target, made, missing, outcome>>
        /\ UNCHANGED <<disk, sent, asked, tick, early>>

(* file.Config reads certificates and connects to the key store.           *)
ReloadConnect ==
    /\ upc = "connect" /\ up # "dead"
    /\ \E works \in (IF setup.faults THEN BOOLEAN ELSE {TRUE}) :
        IF TLSConfigOK(Files[loaded]) /\ Connects(Files[loaded], setup.build, works)
        THEN upc' = "begin" /\ UNCHANGED outcome
        ELSE upc' = "idle" /\ outcome' = "error"
    /\ UNCHANGED <<requestVars, target, made, missing, disk, pending, sent, asked, loaded, tick, early>>

(* A program that embeds the server calls one of the methods once.         *)
UpdateCall ==
    LET old == state.conf
        new == setup.update.conf
    IN  /\ ~Daemon /\ Method # "none" /\ upc = "idle"
        /\ upc' = "begin"
        /\ target' = CASE Method = "UpdateAdmin" -> [old EXCEPT !.admin = new.admin]
                       [] Method = "UpdatePolicies" -> [old EXCEPT !.policies = new.policies]
                       [] Method = "Update" ->
                            [new EXCEPT !.audit = IF @ = "keep" THEN old.audit ELSE @]
        /\ UNCHANGED <<requestVars, made, missing, daemonVars>>

-----------------------------------------------------------------------------
(* From here on the new configuration is one that may be in force.         *)
Announce(conf) ==
    /\ inForce' = inForce \cup {conf}
    /\ req' = [r \in Reqs |-> [req[r] EXCEPT !.seen = @ \cup {conf}]]

Rest == IF Daemon THEN "idle" ELSE "done"
Whole == Method \in {"SIGHUP", "Update"}

(* Server.mu is held from here to the end of the method.                   *)
Locked == upc \in {"predefine", "audit", "audit2", "tls", "state", "handler"}

UpdateBegin ==
    LET accepted == /\ verifyConfig(target) /\ initPoliciesOK(target.policies) /\ up = "up"
                    /\ Method = "UpdateAdmin" => target.admin # NoIdentity
    IN  /\ upc = "begin" /\ up # "dead"
        /\ \/ /\ accepted
              /\ upc' = IF Whole THEN "predefine" ELSE "state"
              /\ IF Whole THEN UNCHANGED <<inForce, req>> ELSE Announce(target)
              /\ UNCHANGED outcome
           \/ /\ ~accepted
              /\ upc' = Rest
              /\ outcome' = "error"
              /\ UNCHANGED <<inForce, req>>
        /\ UNCHANGED <<setup, up, state, handler, tls, auditH, levels, keyVars, audit, meter,
                       target, made, missing, disk, pending, sent, asked, loaded, tick, early>>

PredefineFails ==
    /\ made' = {} /\ missing' = Empty
    /\ upc' = Rest
    /\ outcome' = "error"
    /\ UNCHANGED <<inForce, req>>

(* One key after the other, while requests create and delete keys.         *)
Predefine ==
    LET kind == target.keys
    IN  /\ upc = "predefine" /\ up # "dead" /\ missing = Empty
        /\ \/ \E n \in target.predefined \ made :
                /\ IF kind \in ChecksFirst /\ store[kind][n] = Nothing
                   THEN missing' = n /\ UNCHANGED <<made, store, held>>
                   ELSE /\ createPredefinedKeys(target, {n})
                        /\ made' = made \cup {n}
                        /\ UNCHANGED missing
                /\ UNCHANGED <<upc, inForce, req, outcome, doomed>>
           \/ /\ made = target.predefined
              /\ made' = {}
              /\ upc' = "audit"
              /\ Announce(target)
              /\ UNCHANGED <<missing, store, held, outcome, doomed>>
           \/ \E n \in target.predefined \ made :
                /\ MayFail(target)
                /\ \E v \in FailedCreate(kind, store[kind][n], PredefinedKey(target, n)) :
                    /\ Put(kind, n, v)
                    /\ doomed' = IF v = Nothing THEN doomed \cup {<<kind, n>>} ELSE doomed
                /\ PredefineFails
        /\ UNCHANGED <<setup, up, state, handler, tls, auditH, levels, durable, audit, meter,
                       target, disk, pending, sent, asked, loaded, tick, early>>

(* The rest of azure's and vault's Create, see Write.                      *)
PredefineWrite ==
    LET kind == target.keys
        key == PredefinedKey(target, missing)
    IN  /\ upc = "predefine" /\ up # "dead" /\ missing # Empty
        /\ \/ /\ Put(kind, missing, key)
              /\ made' = made \cup {missing} /\ missing' = Empty
              /\ UNCHANGED <<upc, inForce, req, outcome>>
           \/ \E v \in {key, Keep} :
                /\ MayFail(target) \/ (v = Keep /\ kind = "vault" /\ store[kind][missing] # Nothing)
                /\ Put(kind, missing, v)
                /\ PredefineFails
        /\ UNCHANGED <<setup, up, state, handler, tls, auditH, levels, durable, doomed, audit, meter,
                       target, disk, pending, sent, asked, loaded, tick, early>>

(* Requests that are to be audited in any case: the handlers and levels    *)
(* that they may meet let the record pass.                                 *)
StillAudited(on) == req' = [r \in Reqs |-> [req[r] EXCEPT !.audited = @ /\ on]]

(* state.Audit.h = conf.AuditLog, where state.Audit is the auditLogger of  *)
(* the old state: no synchronization, two words.                           *)
UpdateAudit ==
    /\ upc \in {"audit", "audit2"} /\ up # "dead"
    /\ IF target.audit = auditH
       THEN upc' = "tls" /\ UNCHANGED <<auditH, req>>
       ELSE /\ auditH' = IF upc = "audit" THEN Torn ELSE target.audit
            /\ upc' = IF upc = "audit" THEN "audit2" ELSE "tls"
            /\ StillAudited(HandlerEnabled(target.audit))
    /\ UNCHANGED <<setup, up, state, handler, tls, levels, inForce, keyVars, audit, meter,
                   target, made, missing, daemonVars>>

StoreTLS ==
    /\ upc = "tls" /\ up # "dead"
    /\ tls' = target.tls
    /\ upc' = "state"
    /\ UNCHANGED <<setup, up, state, handler, auditH, levels, inForce, keyVars, req, audit, meter,
                   target, made, missing, daemonVars>>

(* An Update with another ErrorLog makes a logHandler without level.       *)
StoreState ==
    /\ upc = "state" /\ up # "dead"
    /\ state' = [conf |-> target, nolevel |-> state.nolevel \/ (Whole /\ target.errorLog)]
    /\ upc' = IF Whole THEN "handler" ELSE Rest
    /\ inForce' = IF Whole THEN inForce ELSE {target}
    /\ UNCHANGED <<setup, up, handler, tls, auditH, levels, keyVars, req, audit, meter,
                   target, made, missing, daemonVars>>

(* Mutant of StoreHandler: the mux with the new routes is not stored.      *)
StoreHandlerForgotten ==
    /\ upc = "handler" /\ up # "dead"
    /\ upc' = "levels"
    /\ inForce' = {state.conf}
    /\ UNCHANGED <<setup, up, state, handler, tls, auditH, levels, keyVars, req, audit, meter,
                   target, made, missing, daemonVars>>

(* The last store of Update, which then returns.                           *)
StoreHandler ==
    /\ upc = "handler" /\ up # "dead"
    /\ handler' = state.conf.skip
    /\ upc' = "levels"
    /\ inForce' = {state.conf}
    /\ UNCHANGED <<setup, up, state, tls, auditH, levels, keyVars, req, audit, meter,
                   target, made, missing, daemonVars>>

(* Mutant of SetLevels: signals that came during the reload are drained.   *)
SetLevelsDrains ==
    /\ upc = "levels" /\ up # "dead"
    /\ levels' = state.conf.levels
    /\ StillAudited(state.conf.levels.audit <= LevelInfo)
    /\ upc' = Rest
    /\ outcome' = "ok"
    /\ pending' = 0
    /\ UNCHANGED <<setup, up, state, handler, tls, auditH, inForce, keyVars, audit, meter,
                   target, made, missing, disk, sent, asked, loaded, tick, early>>

(* The caller applies the log levels of the configuration file and closes  *)
(* the old key store (Server.tla).                                         *)
SetLevels ==
    /\ upc = "levels" /\ up # "dead"
    /\ levels' = state.conf.levels
    /\ StillAudited(state.conf.levels.audit <= LevelInfo)
    /\ upc' = Rest
    /\ outcome' = "ok"
    /\ UNCHANGED <<setup, up, state, handler, tls, auditH, inForce, keyVars, audit, meter,
                   target, made, missing, disk, pending, sent, asked, loaded, tick, early>>

UpdateStep ==
    \/ ReloadRead \/ ReloadConnect \/ UpdateCall \/ UpdateBegin \/ Predefine \/ PredefineWrite
    \/ UpdateAudit \/ StoreTLS \/ StoreState \/ StoreHandler \/ SetLevels

-----------------------------------------------------------------------------
(* The ticker's goroutine: read the file, then UpdateTLS.                  *)
TickRead ==
    LET file == ReadFile(Files[disk])
    IN  /\ Daemon /\ up # "dead" /\ tick = NoTLS
        /\ \/ /\ file.ok /\ TLSConfigOK(Files[disk])
              /\ tick' = TLSConfig(Files[disk])
              /\ UNCHANGED requestVars
           \/ /\ ~file.ok /\ file.panic
              /\ Dies
              /\ UNCHANGED tick
        /\ UNCHANGED <<upc, target, made, missing, disk, pending, sent, asked, loaded, outcome, early>>

(* UpdateTLS waits for Server.mu and fails if the server has not started.  *)
TickUpdate ==
    /\ tick # NoTLS /\ up # "dead" /\ ~Locked
    /\ tls' = IF up = "up" THEN tick ELSE tls
    /\ tick' = NoTLS
    /\ UNCHANGED <<setup, up, state, handler, auditH, levels, inForce, keyVars, req, audit, meter,
                   upc, target, made, missing, disk, pending, sent, asked, loaded, outcome, early>>

RequestStep(r) ==
    /\ up = "up"
    /\ HandleRequest(r)
    /\ UNCHANGED <<upc, target, made, missing, daemonVars>>

Next ==
    \/ \E r \in Reqs :
        /\ up = "up"
        /\ Handshake(r) \/ Arrive(r) \/ ClientLeaves(r)
        /\ UNCHANGED <<upc, target, made, missing, daemonVars>>
    \/ \E r \in Reqs : RequestStep(r)
    \/ Start \/ EditFile \/ Signal
    \/ UpdateStep
    \/ TickRead \/ TickUpdate

(* Goroutines that can run are run, a backend answers or fails, and the    *)
(* ticker ticks.                                                           *)
MaxReqs == 3   \* bound: the most requests of a scenario
Fairness ==
    /\ \A r \in 1 .. MaxReqs : WF_vars(r \in Reqs /\ RequestStep(r))
    /\ WF_vars(Start)
    /\ WF_vars(UpdateStep)
    /\ WF_vars(TickRead)
    /\ WF_vars(TickUpdate)

Spec == Init /\ [][Next]_vars /\ Fairness

-----------------------------------------------------------------------------
Pcs == {"new", "connected", "routed", "handler", "write", "page", "log", "audit", "record", "stream",
        "reply", "done"}

TypeOK ==
    /\ up \in {"starting", "up", "dead"}
    /\ state.conf \in inForce /\ state.nolevel \in BOOLEAN
    /\ handler \subseteq APIs
    /\ auditH \in AuditHandlers \cup {Torn}
    /\ levels.error \in Int /\ levels.audit \in Int
    /\ DOMAIN store = UsedKinds /\ \A k \in UsedKinds : DOMAIN store[k] = Names
    /\ \A k \in UsedKinds, n \in Names : {store[k][n]} \ {Nothing} \subseteq held[k][n]
    /\ \A r \in Reqs :
        /\ req[r].pc \in Pcs
        /\ req[r].codes \in Seq({200, 400, 403, 404, 405, 406, 409, 500, 502, 504})
        /\ req[r].id \in Names \cup {NoIdentity} /\ req[r].used \in Kinds
    /\ \A f \in DOMAIN meter : meter[f] \in Nat
    /\ upc \in {"idle", "connect", "begin", "predefine", "audit", "audit2", "tls", "state",
                "handler", "levels", "done"}
    /\ missing \in Names \cup {Empty}
    /\ disk \in Nat /\ (Daemon => disk \in DOMAIN Files)
    /\ loaded \in 0 .. disk /\ asked \in 0 .. disk
    /\ sent \in 0 .. setup.signals /\ pending \in 0 .. sent /\ early \in BOOLEAN
    /\ outcome \in {"none", "ok", "error"}
    /\ durable \subseteq UsedKinds \X Names /\ doomed \subseteq UsedKinds \X Names

(* What a configuration says of a request, as auth.go and state.go put it: *)
(* "none of the policy's deny rules and at least one of the policy's allow *)
(* rules apply", unless it comes from the admin or its API needs no        *)
(* authentication.                                                         *)
Permitted(conf, q) ==
    LET leafs == {i \in DOMAIN q.certs : ~q.certs[i].ca}
        Has(id) == \E i \in leafs : leafs = {i} /\ q.certs[i].id = id
    IN  \/ q.api \in {"version", "selfDescribeIdentity"} \cup conf.skip
        \/ Has(conf.admin)
        \/ \E p \in DOMAIN conf.policies :
            /\ \E i \in DOMAIN conf.policies[p].ids : Has(conf.policies[p].ids[i])
            /\ \E n \in {Empty, q.resource.name} : <<q.api, n>> \in conf.policies[p].allow
            /\ \A n \in {Empty, q.resource.name} : <<q.api, n>> \notin conf.policies[p].deny

(* A configuration can be enforced: nobody has two policies, the admin has *)
(* none, clients without certificate get to the APIs that need none, keys  *)
(* leave the cache (KeyCache.tla), and there is a key store.               *)
Sound(conf) ==
    /\ \A p1, p2 \in DOMAIN conf.policies :
        \A i \in DOMAIN conf.policies[p1].ids, j \in DOMAIN conf.policies[p2].ids :
            conf.policies[p1].ids[i] = conf.policies[p2].ids[j] => p1 = p2 /\ i = j
    /\ Daemon =>
        /\ \A p \in DOMAIN conf.policies :
            \A i \in DOMAIN conf.policies[p].ids : conf.policies[p].ids[i] # conf.admin
        /\ conf.skip # {} => conf.tls.ClientAuth \notin RequiresCert
        /\ conf.cache.Expiry > 0 /\ conf.keys \in Kinds

(* Access control across a reconfiguration: a handler is called only for a *)
(* request that a configuration permits which was in force when the        *)
(* request arrived or came into force since, although route, policies and  *)
(* key store are loaded one by one; and the key store it uses is one of    *)
(* such a configuration.  So no request that arrives after Update returned *)
(* is served by the rules before.  And what is in force is sound.          *)
Authorized ==
    /\ up = "up" => \A c \in inForce : Sound(c)
    /\ \A r \in Reqs : req[r].granted =>
        /\ \E c \in req[r].seen : Permitted(c, Request(r))
        /\ req[r].pc \in {"write", "page", "log", "audit", "record", "reply"} =>
            \E c \in req[r].seen : c.keys = req[r].used

(* The keys that existed, for all its client knows, when a request         *)
(* arrived, in the key store it used, and that nobody has tried to delete  *)
(* nor lost in a failed Create.                                            *)
Certain(r) == {n \in Names : <<req[r].used, n>> \in req[r].known \ doomed}

Complete(r) ==
    /\ Request(r).api = "listKeys" /\ Answered(r)
    /\ req[r].result.listing.next = Empty
    /\ req[r].used = "gemalto" => ~ \E n \in Names : <<"gemalto", n>> \in doomed

(* gemalto cannot tell a key that is not there from one it may not access. *)
Refused(r) == req[r].used = "gemalto" /\ setup.faults

(* A key whose creation was answered with 200 is there for every request   *)
(* that comes later: it is found, it is not created again, and a listing   *)
(* that says it is at the end has it; unless someone deletes it.  What the *)
(* code does not promise is left out: fs and efs may lose the key to a     *)
(* failed Create of the same name, gemalto calls a key not found that it   *)
(* may not access, and its listing misses keys when others are deleted     *)
(* between two of its pages.                                               *)
Durable ==
    \A r \in Reqs : \A n \in Certain(r) :
        req[r].pc = "done" /\ req[r].granted =>
            /\ Request(r).resource = Resource(n, FALSE) =>
                /\ /\ Request(r).api \in {"describeKey", "encryptKey", "decryptKey", "hmacKey",
                                          "generateKey", "deleteKey"}
                   /\ ~Refused(r)
                   => req[r].codes # <<404>>
                /\ Request(r).api \in {"createKey", "importKey"} => ~Answered(r)
            /\ Complete(r) /\ n \in StartingWith(ListPrefix(CallOf(r, state.conf))) =>
                n \in req[r].result.listing.names

(* The secret keys that a name has stood for in a key store, as far as     *)
(* they can be used.                                                       *)
SecretOf(key) == <<key.bytes, key.cipher>>
Secrets(kind, n) ==
    {SecretOf(ParseKeyVersion(v).key) : v \in {w \in held[kind][n] : Cacheable(w)}}

(* What a request to decrypt was given: a ciphertext of which plaintext,   *)
(* context and secret key; the name it was encrypted under may have stood  *)
(* for several keys.                                                       *)
Source(r) ==
    LET body == Request(r).body
        from == req[body.of]
    IN  IF body.of > 0
        THEN [plaintext |-> from.result.plaintext, context |-> from.result.context,
              secrets |-> Secrets(from.used, Request(body.of).resource.name)]
        ELSE [plaintext |-> body.source.plaintext, context |-> body.source.context,
              secrets |-> {SecretOf(body.source.key)}]

Readable(c) == c.form = "raw" \/ c.known

(* A name that stands for one key: nobody has tried to delete it, so that  *)
(* it cannot be created again, and its store creates a key only if there   *)
(* is none; or it has happened to stand for one only.                      *)
OneKey(kind, n) ==
    \/ kind \notin ChecksFirst /\ <<kind, n>> \notin doomed
    \/ \A s, t \in Secrets(kind, n) : s = t

(* What was sealed under a key with a context comes back under the same    *)
(* key and context, in whatever format its ciphertext is, and nothing else *)
(* does: a request to decrypt that is answered gets the plaintext that was *)
(* encrypted, with the same context and under a name that has stood for    *)
(* the same secret key; and it is not refused if it is well-formed and the *)
(* name stands for that key only.  (The backend may still fail, and the    *)
(* build may not allow the cipher.)  On azure and vault two Creates at the *)
(* same time may both succeed, and the name then stands for two keys.      *)
RoundTrip ==
    \A r \in Reqs :
        LET body == Request(r).body
            name == Request(r).resource.name
            mine == Secrets(req[r].used, name)
            same == Source(r).context = body.context
        IN  req[r].pc = "done" /\ Request(r).api = "decryptKey" /\ req[r].granted =>
                /\ Answered(r) =>
                    /\ same /\ req[r].result.plaintext = Source(r).plaintext
                    /\ mine \cap Source(r).secrets # {}
                /\ /\ validName(Request(r).resource) /\ body.sent /\ body.valid
                   /\ req[r].codes = <<400>> /\ OneKey(req[r].used, name)
                   => ~(same /\ Readable(Ciphertext(r)) /\ mine = Source(r).secrets)

Arrived(r) == r \in Reqs /\ req[r].pc \notin {"new", "connected"}
Finished(r) == r \in Reqs /\ req[r].pc = "done"
Served(r) == Finished(r) \/ up = "dead"

Audits(r) == {i \in DOMAIN audit : audit[i].of = r}
Class(lo) == {r \in Reqs : /\ req[r].pc = "done" /\ req[r].granted /\ Counted(r) /\ ~req[r].panicked
                           /\ req[r].codes[1] \in lo .. (lo + 99)}
FailedListings == {r \in Class(500) : Len(req[r].codes) = 2}

(* The books are right whatever is reconfigured meanwhile.  A key that was *)
(* created or deleted with answer 200 has one audit record, with the       *)
(* identity that did it, if auditing was enabled all the time and it did   *)
(* not meet a handler that was being overwritten; nothing else has.  The   *)
(* gauge of active requests is exact, also after a panic.  Each request is *)
(* counted once, except for panics, and in the class its client was told.  *)
(* Not so a listing that failed: its client is told 502, as the error      *)
(* classes of metric.go say, but listKeys goes on and the second status    *)
(* may count, so of these the property says only that they are counted.    *)
Accounted ==
    /\ \A r \in Reqs :
        /\ Cardinality(Audits(r)) <= 1
        /\ \A i \in Audits(r) : /\ audit[i].id = req[r].id /\ req[r].granted
                                /\ Request(r).api \in {"createKey", "importKey", "deleteKey"}
                                /\ req[r].codes = <<200>>
        /\ Answered(r) /\ req[r].granted /\ req[r].audited =>
            (Request(r).api \in {"createKey", "importKey", "deleteKey"} => Audits(r) # {})
    /\ meter.active = Cardinality({r \in Reqs : req[r].granted /\ Counted(r) /\ req[r].pc # "done"})
    /\ meter.errored = Cardinality(Class(400))
    /\ meter.failed >= Cardinality(Class(500) \ FailedListings)
    /\ meter.succeeded >= Cardinality(Class(200))
    /\ meter.succeeded + meter.failed = Cardinality(Class(200)) + Cardinality(Class(500))
    /\ meter.latency = Cardinality({r \in Reqs : Finished(r) /\ req[r].granted /\ Counted(r)})

(* What goes on for as long as the client stays: a log API, and a listing  *)
(* of fortanix, which asks for the same page over and over if it is not    *)
(* empty.                                                                  *)
Waits(r) ==
    /\ ~req[r].left
    /\ \/ req[r].pc = "stream"
       \/ /\ req[r].pc = "page" /\ req[r].used = "fortanix"
          /\ StartPage({n \in Names : store["fortanix"][n] # Nothing},
                       ListPrefix(CallOf(r, state.conf))) # {}

(* Every request ends, or goes on forever because its client does not      *)
(* leave.  Of fortanix's listings it says no more than that they end once  *)
(* there is nothing to list or the client leaves: the timeout of a route   *)
(* (api.go, config.go) does not end them.                                  *)
Finishes ==
    \A r \in 1 .. MaxReqs :
        <>Arrived(r) => <>Served(r) \/ <>[](r \in Reqs /\ Waits(r))

(* The configuration of a file is in force as a whole.                     *)
InForce(y) ==
    LET conf == [ConfigOf(y) EXCEPT !.audit = state.conf.audit]
    IN  state.conf = conf /\ handler = conf.skip /\ levels = conf.levels

Acceptable(y) ==
    /\ ReadFile(y).ok /\ TLSConfigOK(y)
    /\ Connects(y, setup.build, TRUE) /\ initPoliciesOK(y.policies)

(* The latest reload has read a file at least as new as the one on disk    *)
(* when the latest signal came, and if nothing was wrong with it, it is    *)
(* what the server does now.                                               *)
Reloaded ==
    /\ upc = "idle" /\ asked \in 1 .. loaded
    /\ Acceptable(Files[loaded]) /\ ~setup.faults /\ ~early => InForce(Files[loaded])

TLSFollows ==
    LET last == Files[Len(Files)]
    IN  ReadFile(last).ok /\ TLSConfigOK(last) => tls = TLSConfig(last)

(* No reload is lost: whoever replaces the file and then sends SIGHUP gets *)
(* it loaded, however signals, requests and ticks interleave, unless the   *)
(* signal came before the server had started; and the TLS configuration    *)
(* ends up as the last file has it, although a tick may overwrite that of  *)
(* a reload with what it has read before.                                  *)
Reconfigures ==
    /\ (up = "up" /\ asked > 0) ~> (up = "dead" \/ Reloaded)
    /\ <>[](Daemon /\ up # "dead" /\ disk = Len(Files) => TLSFollows)
=============================================================================
