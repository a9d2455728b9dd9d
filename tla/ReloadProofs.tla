---------------------------- MODULE ReloadProofs ----------------------------
(***************************************************************************)
(* Proofs about Reload and Requests, for any set of scenarios: any number  *)
(* of requests, whatever they ask for, any configurations, files, signals  *)
(* and key store contents.                                                 *)
(***************************************************************************)
EXTENDS Reload, FiniteSetTheorems, TLAPS

Mutators == {"createKey", "importKey", "deleteKey"}
Codes == {200, 400, 403, 404, 405, 406, 409, 500, 502, 504}
Identities == Names \cup {NoIdentity}

(* What the checks of a configuration file make sure of.                   *)
Careful(conf) ==
    /\ \A p \in DOMAIN conf.policies :
        \A i \in DOMAIN conf.policies[p].ids : conf.policies[p].ids[i] # conf.admin
    /\ conf.skip # {} => conf.tls.ClientAuth \notin RequiresCert
    /\ conf.cache.Expiry > 0 /\ conf.keys \in Kinds

(* A configuration that an Update may be given.                            *)
Proposed(conf) ==
    /\ IsConf(conf) /\ conf.audit \in AuditHandlers /\ conf.keys \in UsedKinds
    /\ Daemon => Careful(conf)

(* One that it has accepted.                                               *)
Accepted(conf) == Proposed(conf) /\ conf.keys \in Kinds /\ initPoliciesOK(conf.policies)

(* The server's configuration: the routes are of a configuration in force, *)
(* and of the state's unless an Update is between its last two stores.     *)
ConfInv ==
    /\ setup \in Scenarios
    /\ up \in {"starting", "up", "dead"} /\ (Daemon \/ up = "up")
    /\ up = "starting" => inForce = {state.conf}
    /\ state.conf \in inForce /\ state.nolevel \in BOOLEAN
    /\ \A c \in inForce : Proposed(c) /\ c.keys \in Kinds /\ (up = "up" => Accepted(c))
    /\ \E c \in inForce : c.skip = handler
    /\ upc # "handler" => handler = state.conf.skip
    /\ auditH \in AuditHandlers \cup {Torn} /\ (auditH = Torn => upc = "audit2")
    /\ levels \in [error : Int, audit : Int]

(* Where an Update is past the checks, and where its configuration counts  *)
(* as one that may be in force.                                            *)
Checked == {"predefine", "audit", "audit2", "tls", "state", "handler"}
Announced == {"audit", "audit2", "tls", "state", "handler"}

UpdateInv ==
    /\ upc \in {"idle", "connect", "begin", "levels", "done"} \cup Checked
    /\ ~Whole => upc \in {"idle", "begin", "state", "done"}
    /\ Proposed(target)
    /\ upc \in Checked => up # "starting" /\ Accepted(target)
    /\ upc \in Announced => target \in inForce
    /\ ~Whole /\ upc \in {"begin", "state"} => target.skip = state.conf.skip
    /\ upc = "handler" => state.conf = target
    /\ upc = "connect" => Daemon

DiskInv ==
    /\ disk \in Nat /\ (Daemon => disk \in DOMAIN Files)
    /\ loaded \in 0 .. disk /\ asked \in 0 .. disk
    /\ sent \in 0 .. setup.signals /\ pending \in 0 .. sent /\ early \in BOOLEAN
    /\ outcome \in {"none", "ok", "error"} /\ (pending > 0 => Daemon)

StoreInv ==
    /\ DOMAIN store = UsedKinds /\ DOMAIN held = UsedKinds
    /\ \A k \in UsedKinds : DOMAIN store[k] = Names /\ DOMAIN held[k] = Names
    /\ \A k \in UsedKinds, n \in Names : {store[k][n]} \ {Nothing} \subseteq held[k][n]
    /\ durable \subseteq UsedKinds \X Names /\ doomed \subseteq UsedKinds \X Names

-----------------------------------------------------------------------------
(* What is true of every effect of a handler.                              *)
Answerable == {<<>>, <<502, 200>>} \cup {<<c>> : c \in Codes}
Plausible(x, e) ==
    /\ e.log \in BOOLEAN /\ e.audit \in BOOLEAN
    /\ e.codes \in Answerable /\ (e.codes = <<>> => e = Panic)
    /\ e.log => e.codes # <<200>>
    /\ e.audit <=> (e.codes = <<200>> /\ x.q.api \in Mutators)
    /\ e.audit \/ e.put # Keep => validName(x.q.resource)

(* The requests are records.                                               *)
Shape ==
    /\ req = [r \in Reqs |-> req[r]]
    /\ \A r \in Reqs : DOMAIN req[r] = DOMAIN Fresh

Early == {"new", "connected", "routed"}
Called == {"handler", "write", "page", "log", "audit", "record", "stream", "reply"}
Decided(r) == req[r].pc \in {"log", "audit", "record", "stream", "reply"}
                \/ (req[r].pc = "done" /\ req[r].granted /\ ~req[r].panicked)

(* How far a request is tells what is known about its answer.              *)
Progress(r) ==
    /\ req[r].pc \in Early \cup Called \cup {"done"}
    /\ req[r].granted \in BOOLEAN /\ req[r].panicked \in BOOLEAN /\ req[r].audited \in BOOLEAN
    /\ req[r].hEnabled \in BOOLEAN /\ req[r].oEnabled \in BOOLEAN
    /\ req[r].id \in Identities /\ req[r].used \in Kinds
    /\ req[r].codes \in {<<>>, <<502, 200>>} \cup {<<c>> : c \in Codes}
    /\ req[r].pc \in Early => ~req[r].granted /\ ~req[r].panicked
    /\ req[r].pc \in Called => req[r].granted /\ ~req[r].panicked
    /\ req[r].pc \in Early \cup {"handler", "write", "page"} \/ req[r].panicked => req[r].codes = <<>>
    /\ Decided(r) => req[r].codes # <<>> /\ req[r].used \in UsedKinds
    /\ req[r].pc = "page" => req[r].used \in UsedKinds /\ Request(r).api = "listKeys"
    /\ req[r].pc \in {"audit", "record"} => Request(r).api \in Mutators /\ req[r].codes = <<200>>
    /\ req[r].pc = "log" => req[r].codes # <<200>>
    /\ req[r].pc = "stream" => ~Counted(r) /\ Request(r).api \notin Mutators
    /\ req[r].granted /\ req[r].codes = <<200>> /\ Request(r).api \in Mutators =>
           validName(Request(r).resource)

(* What a Create that has yet to write its key is going to do.             *)
Writes(r) ==
    req[r].pc = "write" => /\ req[r].used \in UsedKinds /\ req[r].effect.put # Keep
                           /\ Plausible([q |-> Request(r)], req[r].effect)

Active(r) == req[r].pc \notin {"new", "connected", "done"}

(* What a request has met since it arrived.                                *)
Met(r) ==
    /\ Active(r) => /\ state.conf \in req[r].seen
                    /\ \E c \in req[r].seen : c.skip = req[r].skip
                    /\ upc \in Announced => target \in req[r].seen
    /\ req[r].granted => \E c \in req[r].seen : Permitted(c, Request(r))
    /\ req[r].pc \in {"write", "page", "log", "audit", "record", "reply"} =>
           \E c \in req[r].seen : c.keys = req[r].used

RequestInv == Shape /\ \A r \in Reqs : Progress(r) /\ Met(r) /\ Writes(r)

-----------------------------------------------------------------------------
(* What is known of a request with an audit record, and of one that is to  *)
(* have one.                                                               *)
Recorded(i, r) ==
    /\ req[r].pc \in {"reply", "done"} /\ req[r].granted /\ audit[i].id = req[r].id
    /\ Request(r).api \in Mutators /\ req[r].codes = <<200>>

Due(r) ==
    /\ req[r].pc \in {"routed", "handler", "write", "page", "log", "audit"} =>
           AuditOn /\ (auditH = Torn \/ HandlerEnabled(auditH))
    /\ req[r].pc = "record" => req[r].hEnabled
    /\ /\ req[r].pc \in {"reply", "done"} /\ req[r].granted
       /\ Request(r).api \in Mutators /\ req[r].codes = <<200>>
       => \E i \in DOMAIN audit : audit[i].of = r

AuditInv ==
    /\ audit \in Seq([of : Reqs, by : AuditHandlers, id : Identities])
    /\ \A i, j \in DOMAIN audit : audit[i].of = audit[j].of => i = j
    /\ \A i \in DOMAIN audit, r \in Reqs : audit[i].of = r => Recorded(i, r)
    /\ \A r \in Reqs : req[r].audited => Due(r)

Running == {r \in Reqs : req[r].granted /\ Counted(r) /\ req[r].pc # "done"}
Gone == {r \in Reqs : Finished(r) /\ req[r].granted /\ Counted(r)}

MeterInv ==
    /\ DOMAIN meter = {"active", "latency", "succeeded", "errored", "failed", "errorEvents",
                       "auditEvents"}
    /\ meter.errorEvents \in Nat /\ meter.auditEvents \in Nat
    /\ meter.active = Cardinality(Running)
    /\ meter.latency = Cardinality(Gone)
    /\ meter.succeeded = Cardinality(Class(200)) + Cardinality(FailedListings)
    /\ meter.errored = Cardinality(Class(400))
    /\ meter.failed = Cardinality(Class(500) \ FailedListings)

(* The predefined key that is yet to be written.                           *)
MissingInv ==
    /\ missing \in Names \cup {Empty}
    /\ missing # Empty => upc = "predefine" /\ target.keys \in ChecksFirst

IInv == ConfInv /\ UpdateInv /\ DiskInv /\ StoreInv /\ RequestInv /\ AuditInv /\ MeterInv
-----------------------------------------------------------------------------
(* The routes, API by API.                                                 *)
LEMMA RouteTables ==
    /\ DOMAIN ServerRoutes = {"version", "ready", "status", "metrics", "listAPIs"}
    /\ DOMAIN KeyRoutes = {"createKey", "importKey", "describeKey", "listKeys", "deleteKey",
                           "encryptKey", "generateKey", "decryptKey", "hmacKey"}
    /\ DOMAIN PolicyRoutes = {"describePolicy", "readPolicy", "listPolicies"}
    /\ DOMAIN IdentityRoutes = {"describeIdentity", "listIdentities", "selfDescribeIdentity"}
    /\ DOMAIN LogRoutes = {"logError", "logAudit"}
BY DEF ServerRoutes, KeyRoutes, PolicyRoutes, IdentityRoutes, LogRoutes

(* A route, as far as authentication and metrics are concerned.            *)
HasRoute(route, auth, counted) ==
    /\ DOMAIN route = {"Method", "Auth", "Counted", "Timeout"}
    /\ route.Auth = auth
    /\ route.Counted = counted

(* Two APIs do without authentication whatever the configuration says, and *)
(* the log APIs are not counted.                                           *)
LEMMA RouteFacts ==
    ASSUME NEW api \in APIs
    PROVE  /\ DOMAIN Routes[api] = {"Method", "Auth", "Counted", "Timeout"}
           /\ Routes[api].Counted \in BOOLEAN
           /\ Routes[api].Auth # "verifyIdentity" => api \in {"version", "selfDescribeIdentity"}
           /\ api \in DOMAIN LogRoutes => ~Routes[api].Counted
<1> USE RouteTables
<1>1. CASE api \in DOMAIN ServerRoutes
  <2>1. Routes[api] = ServerRoutes[api]
    BY <1>1 DEF Routes
  <2>2. /\ HasRoute(ServerRoutes["version"], "InsecureSkipVerify", FALSE)
        /\ HasRoute(ServerRoutes["ready"], "verifyIdentity", FALSE)
        /\ HasRoute(ServerRoutes["status"], "verifyIdentity", FALSE)
        /\ HasRoute(ServerRoutes["metrics"], "verifyIdentity", FALSE)
        /\ HasRoute(ServerRoutes["listAPIs"], "verifyIdentity", FALSE)
    BY DEF ServerRoutes, RouteOf, Verified, HasRoute
  <2> QED
    BY <1>1, <2>1, <2>2 DEF HasRoute
<1>2. CASE api \in DOMAIN KeyRoutes
  <2>1. Routes[api] = KeyRoutes[api]
    BY <1>2 DEF Routes
  <2>2. /\ HasRoute(KeyRoutes["createKey"], "verifyIdentity", TRUE)
        /\ HasRoute(KeyRoutes["importKey"], "verifyIdentity", TRUE)
        /\ HasRoute(KeyRoutes["describeKey"], "verifyIdentity", TRUE)
        /\ HasRoute(KeyRoutes["listKeys"], "verifyIdentity", TRUE)
        /\ HasRoute(KeyRoutes["deleteKey"], "verifyIdentity", TRUE)
        /\ HasRoute(KeyRoutes["encryptKey"], "verifyIdentity", TRUE)
        /\ HasRoute(KeyRoutes["generateKey"], "verifyIdentity", TRUE)
        /\ HasRoute(KeyRoutes["decryptKey"], "verifyIdentity", TRUE)
        /\ HasRoute(KeyRoutes["hmacKey"], "verifyIdentity", TRUE)
    BY DEF KeyRoutes, RouteOf, Verified, HasRoute
  <2>3. HasRoute(Routes[api], "verifyIdentity", TRUE)
    BY <1>2, <2>1, <2>2
  <2>4. api \notin DOMAIN LogRoutes
    BY <1>2
  <2> QED
    BY <2>3, <2>4 DEF HasRoute
<1>3. CASE api \in DOMAIN PolicyRoutes
  <2>1. Routes[api] = PolicyRoutes[api]
    BY <1>3 DEF Routes
  <2>2. /\ HasRoute(PolicyRoutes["describePolicy"], "verifyIdentity", TRUE)
        /\ HasRoute(PolicyRoutes["readPolicy"], "verifyIdentity", TRUE)
        /\ HasRoute(PolicyRoutes["listPolicies"], "verifyIdentity", TRUE)
    BY DEF PolicyRoutes, RouteOf, Verified, HasRoute
  <2> QED
    BY <1>3, <2>1, <2>2 DEF HasRoute
<1>4. CASE api \in DOMAIN IdentityRoutes
  <2>1. Routes[api] = IdentityRoutes[api]
    BY <1>4 DEF Routes
  <2>2. /\ HasRoute(IdentityRoutes["describeIdentity"], "verifyIdentity", TRUE)
        /\ HasRoute(IdentityRoutes["listIdentities"], "verifyIdentity", TRUE)
        /\ HasRoute(IdentityRoutes["selfDescribeIdentity"], "insecureIdentifyOnly", TRUE)
    BY DEF IdentityRoutes, RouteOf, Verified, HasRoute
  <2> QED
    BY <1>4, <2>1, <2>2 DEF HasRoute
<1>5. CASE api \in DOMAIN LogRoutes
  <2>1. Routes[api] = LogRoutes[api]
    BY <1>5 DEF Routes
  <2>2. /\ HasRoute(LogRoutes["logError"], "verifyIdentity", FALSE)
        /\ HasRoute(LogRoutes["logAudit"], "verifyIdentity", FALSE)
    BY DEF LogRoutes, RouteOf, Verified, HasRoute
  <2> QED
    BY <1>5, <2>1, <2>2 DEF HasRoute
<1> QED
  BY <1>1, <1>2, <1>3, <1>4, <1>5 DEF APIs

(* The identity of a request is that of its only leaf certificate.         *)
LEMMA Identified ==
    ASSUME NEW q, IsRequest(q)
    PROVE  LET leafs == {i \in DOMAIN q.certs : ~q.certs[i].ca}
           IN  \/ identifyRequest(q.certs) = NoIdentity
               \/ \E i \in leafs : leafs = {i} /\ identifyRequest(q.certs) = q.certs[i].id
<1> DEFINE leafs == {i \in DOMAIN q.certs : ~q.certs[i].ca}
<1>1. IsFiniteSet(leafs)
  <2>1. DOMAIN q.certs = 1 .. Len(q.certs) /\ Len(q.certs) \in Nat
    BY DEF IsRequest
  <2>2. IsFiniteSet(1 .. Len(q.certs))
    BY <2>1, FS_Interval
  <2> QED
    BY <2>1, <2>2, FS_Subset
<1> SUFFICES ASSUME identifyRequest(q.certs) # NoIdentity
             PROVE  \E i \in leafs : leafs = {i} /\ identifyRequest(q.certs) = q.certs[i].id
  OBVIOUS
<1>2. Cardinality(leafs) = 1 /\ identifyRequest(q.certs) = q.certs[CHOOSE i \in leafs : TRUE].id
  BY DEF identifyRequest
<1>3. PICK i : leafs = {i}
  BY <1>1, <1>2, FS_Singleton
<1>4. (CHOOSE j \in leafs : TRUE) = i
  BY <1>3
<1> QED
  BY <1>2, <1>3, <1>4

LEMMA IdentityType ==
    ASSUME NEW q, IsRequest(q), NEW route
    PROVE  identifyRequest(q.certs) \in Identities /\ Identity(route, q) \in Identities
<1>1. identifyRequest(q.certs) \in Identities
  <2> DEFINE Certs == [ca : BOOLEAN, id : Names, trusted : BOOLEAN]
  <2>1. q.certs \in Seq(Certs) /\ \A cert \in Certs : cert.id \in Names
    BY DEF IsRequest
  <2> HIDE DEF Certs
  <2>2. \A i \in DOMAIN q.certs : q.certs[i].id \in Names
    BY <2>1
  <2> QED
    BY <2>2, Identified DEF Identities
<1> QED
  BY <1>1 DEF Identity, Identities

(* Authenticate lets nothing pass that the configuration does not permit,  *)
(* or that the routes do not exempt.                                       *)
LEMMA AuthenticateFacts ==
    ASSUME NEW q, IsRequest(q), NEW conf, ArePolicies(conf.policies), NEW skip,
           Authenticate(initRoutes(skip)[q.api], conf, q) = 0
    PROVE  q.api \in skip \cup {"version", "selfDescribeIdentity"} \/ Permitted(conf, q)
<1> DEFINE route == initRoutes(skip)[q.api]
           id == identifyRequest(q.certs)
           leafs == {i \in DOMAIN q.certs : ~q.certs[i].ca}
           identities == identitySet(conf.policies)
<1> SUFFICES ASSUME q.api \notin skip, q.api \notin {"version", "selfDescribeIdentity"}
             PROVE  Permitted(conf, q)
  OBVIOUS
<1>1. q.api \in APIs /\ route.Auth = "verifyIdentity"
  BY RouteFacts DEF IsRequest, initRoutes
<1>2. verifyIdentity(conf, q) = 0
  BY <1>1 DEF Authenticate
<1>3. /\ id # NoIdentity
      /\ \/ id = conf.admin
         \/ id \in DOMAIN identities /\ PolicyVerify(conf.policies[identities[id]], q)
  BY <1>2 DEF verifyIdentity
<1>4. PICK l \in leafs : leafs = {l} /\ id = q.certs[l].id
  BY <1>3, Identified
<1> HIDE DEF leafs, id, identities
<1>5. CASE id = conf.admin
  BY <1>4, <1>5 DEF Permitted, leafs
<1>6. CASE id \in DOMAIN identities /\ PolicyVerify(conf.policies[identities[id]], q)
  <2>1. \E a \in Assigned(conf.policies) : IdentityAt(conf.policies, a) = id
    BY <1>6 DEF identities, identitySet
  <2>2. PICK a \in Assigned(conf.policies) : IdentityAt(conf.policies, a) = id /\ identities[id] = a[1]
    BY <1>6, <2>1 DEF identities, identitySet
  <2>3. a[1] \in DOMAIN conf.policies /\ a[2] \in DOMAIN conf.policies[a[1]].ids
    BY DEF Assigned
  <2>4. conf.policies[a[1]].ids[a[2]] = id
    BY <2>2 DEF IdentityAt
  <2>5. PolicyVerify(conf.policies[a[1]], q) /\ conf.policies[a[1]] \in Policy
    BY <1>6, <2>2, <2>3 DEF ArePolicies
  <2>6. \E n \in {Empty, q.resource.name} : <<q.api, n>> \in conf.policies[a[1]].allow
    BY <2>5 DEF PolicyVerify, Applies, Policy
  <2>7. \A n \in {Empty, q.resource.name} : <<q.api, n>> \notin conf.policies[a[1]].deny
    BY <2>5 DEF PolicyVerify, Applies, Policy
  <2> QED
    BY <1>4, <2>3, <2>4, <2>6, <2>7 DEF Permitted, leafs
<1> QED
  BY <1>3, <1>5, <1>6

(* No identity has two policies.                                           *)
LEMMA PoliciesExclusive ==
    ASSUME NEW policies, initPoliciesOK(policies)
    PROVE  \A p1, p2 \in DOMAIN policies :
               \A i \in DOMAIN policies[p1].ids, j \in DOMAIN policies[p2].ids :
                   policies[p1].ids[i] = policies[p2].ids[j] => p1 = p2 /\ i = j
<1> SUFFICES ASSUME NEW p1 \in DOMAIN policies, NEW p2 \in DOMAIN policies,
                    NEW i \in DOMAIN policies[p1].ids, NEW j \in DOMAIN policies[p2].ids,
                    policies[p1].ids[i] = policies[p2].ids[j]
             PROVE  p1 = p2 /\ i = j
  OBVIOUS
<1>1. <<p1, i>> \in Assigned(policies) /\ <<p2, j>> \in Assigned(policies)
  BY DEF Assigned
<1>2. <<p1, i>> = <<p2, j>>
  BY <1>1 DEF initPoliciesOK, IdentityAt
<1> QED
  BY <1>2
-----------------------------------------------------------------------------
LEMMA LevelType ==
    ASSUME NEW s, s.plus \in Int
    PROVE  parseLogLevel(s).level \in Int
<1> DEFINE base == [DEBUG |-> -4, INFO |-> LevelInfo, WARN |-> 4, ERROR |-> LevelError]
<1>1. /\ DOMAIN base = {"DEBUG", "INFO", "WARN", "ERROR"}
      /\ base["DEBUG"] = -4 /\ base["INFO"] = 0 /\ base["WARN"] = 4 /\ base["ERROR"] = 8
  BY DEF LevelInfo, LevelError
<1>2. parseLogLevel(s) =
        CASE s.name \in {"", "ON"} -> [ok |-> TRUE, level |-> LevelInfo]
          [] s.name = "OFF" -> [ok |-> TRUE, level |-> LevelError + 1]
          [] s.name \in DOMAIN base -> [ok |-> s.number, level |-> base[s.name] + s.plus]
          [] OTHER -> [ok |-> s.name = "number" /\ s.number, level |-> s.plus]
  BY DEF parseLogLevel
<1> HIDE DEF base
<1>3. s.name \in DOMAIN base => base[s.name] \in Int
  BY <1>1
<1> DEFINE number == s.name = "number" /\ s.number
<1> HIDE DEF number
<1>4. \/ parseLogLevel(s) = [ok |-> TRUE, level |-> LevelInfo]
      \/ parseLogLevel(s) = [ok |-> TRUE, level |-> LevelError + 1]
      \/ s.name \in DOMAIN base /\ parseLogLevel(s) = [ok |-> s.number, level |-> base[s.name] + s.plus]
      \/ parseLogLevel(s) = [ok |-> number, level |-> s.plus]
  BY <1>2 DEF number
<1> QED
  BY <1>3, <1>4 DEF LevelInfo, LevelError

(* A configuration file that is read without error names one key store and *)
(* gives a configuration that can be enforced.                             *)
LEMMA FileConf ==
    ASSUME NEW y, IsFile(y), ReadFile(y).ok, NEW a \in AuditHandlers
    PROVE  LET conf == [ConfigOf(y) EXCEPT !.audit = a]
           IN  /\ IsConf(conf) /\ conf.audit = a /\ conf.keys = ymlToKeyStore(y).kind
               /\ conf.keys \in Kinds /\ Careful(conf)
<1> DEFINE given == DOMAIN y.stores \ {"kes"}
           kind == CHOOSE k \in given : TRUE
           conf == [ConfigOf(y) EXCEPT !.audit = a]
<1>1. ExclusiveIdentities(y) /\ NotNegative(y) /\ ymlToKeyStore(y).ok
  BY DEF ReadFile, ReadFrom, ymlToServerConfig, Failed
<1>2. Cardinality(given) = 1 /\ ymlToKeyStore(y).kind = kind
  BY <1>1 DEF ymlToKeyStore, Failed, Crash
<1>3. kind \in given
  <2>1. given # {}
    BY <1>2, FS_EmptySet
  <2> QED
    BY <2>1
<1>4. kind \in Kinds
  BY <1>3 DEF IsFile
<1> HIDE DEF kind, given
<1>5. /\ DOMAIN conf = {"admin", "policies", "skip", "keys", "predefined", "audit", "errorLog",
                        "tls", "cache", "levels"}
      /\ conf.admin = y.admin /\ conf.policies = y.policies /\ conf.audit = a
      /\ conf.skip = {p \in DOMAIN y.paths : y.paths[p].skip}
      /\ conf.keys = ymlToKeyStore(y).kind /\ conf.tls = TLSConfig(y) /\ conf.errorLog = FALSE
      /\ conf.cache = configureCache(y.cache)
      /\ conf.levels = [error |-> parseLogLevel(y.log.error).level,
                        audit |-> parseLogLevel(y.log.audit).level]
      /\ conf.predefined = {y.keys[i] : i \in DOMAIN y.keys}
  BY DEF ConfigOf
<1> HIDE DEF conf
<1>6. conf.levels \in [error : Int, audit : Int]
  BY <1>5, LevelType DEF IsFile
<1>7. IsConf(conf)
  <2>1. conf.predefined \subseteq Names
    BY <1>5 DEF IsFile
  <2> QED
    BY <1>2, <1>4, <1>5, <1>6, <2>1 DEF IsConf, IsFile
<1>8. Careful(conf)
  <2>1. \A p \in DOMAIN y.policies :
            \A i \in DOMAIN y.policies[p].ids : y.policies[p].ids[i] # y.admin
    <3> SUFFICES ASSUME NEW p \in DOMAIN y.policies, NEW i \in DOMAIN y.policies[p].ids
                 PROVE  y.policies[p].ids[i] # y.admin
      OBVIOUS
    <3>1. <<p, i>> \in Assigned(y.policies) /\ IdentityAt(y.policies, <<p, i>>) = y.policies[p].ids[i]
      BY DEF Assigned, IdentityAt
    <3> QED
      BY <1>1, <3>1 DEF ExclusiveIdentities
  <2>2. conf.skip # {} => conf.tls.ClientAuth \notin RequiresCert
    <3> SUFFICES ASSUME conf.skip # {} PROVE clientAuth(y) \notin RequiresCert
      BY <1>5 DEF TLSConfig
    <3>1. \E p \in DOMAIN y.paths : y.paths[p].skip
      BY <1>5
    <3> QED
      BY <3>1 DEF clientAuth, RequiresCert
  <2>3. conf.cache.Expiry > 0
    <3>1. y.cache.any \in Int /\ y.cache.any >= 0
      BY <1>1 DEF IsFile, NotNegative
    <3> QED
      BY <1>5, <3>1 DEF configureCache, Minutes5, Seconds30
  <2> QED
    BY <1>2, <1>4, <1>5, <2>1, <2>2, <2>3 DEF Careful
<1> QED
  BY <1>2, <1>4, <1>5, <1>7, <1>8 DEF conf
-----------------------------------------------------------------------------
LEMMA CodesDiffer ==
    ASSUME NEW code \in Codes
    PROVE  <<code>> \in Answerable /\ <<code>> # <<>> /\ (<<code>> = <<200>> <=> code = 200)
BY DEF Answerable

LEMMA PlausibleFail ==
    ASSUME NEW x, NEW code \in Codes \ {200}
    PROVE  Plausible(x, Fail(code)) /\ Plausible(x, LogAndFail(code))
<1> DEFINE one == <<code>>
<1>1. one \in Answerable /\ one # <<>> /\ one # <<200>>
  BY CodesDiffer
<1> HIDE DEF one
<1>2. Fail(code) = Effect(one, FALSE, FALSE, NoResult, Keep)
  BY DEF Fail, one
<1>3. LogAndFail(code) = Effect(one, TRUE, FALSE, NoResult, Keep)
  BY DEF LogAndFail, one
<1> QED
  BY <1>1, <1>2, <1>3 DEF Plausible, Effect

LEMMA PlausibleReply ==
    ASSUME NEW x, x.q.api \notin Mutators, NEW result
    PROVE  Plausible(x, ReplyWith(result))
<1> DEFINE one == <<200>>
<1>1. one \in Answerable /\ one # <<>>
  BY CodesDiffer DEF Codes
<1> HIDE DEF one
<1>2. ReplyWith(result) = Effect(one, FALSE, FALSE, result, Keep)
  BY DEF ReplyWith, one
<1> QED
  BY <1>1, <1>2 DEF Plausible, Effect

LEMMA PlausiblePanic ==
    ASSUME NEW x
    PROVE  Plausible(x, Panic)
<1> DEFINE no == <<>>
<1>1. no \in Answerable /\ no # <<200>>
  BY DEF Answerable
<1> HIDE DEF no
<1>2. Panic = Effect(no, FALSE, FALSE, NoResult, Keep)
  BY DEF Panic, no
<1> QED
  BY <1>1, <1>2 DEF Plausible, Effect

LEMMA PlausibleAudited ==
    ASSUME NEW x, x.q.api \in Mutators, validName(x.q.resource), NEW put
    PROVE  Plausible(x, Audited(put))
<1> DEFINE one == <<200>>
<1>1. one \in Answerable /\ one # <<>>
  BY CodesDiffer DEF Codes
<1> HIDE DEF one
<1>2. Audited(put) = Effect(one, FALSE, TRUE, NoResult, put)
  BY DEF Audited, one
<1> QED
  BY <1>1, <1>2 DEF Plausible, Effect, one

(* Errors of a backend or of the system, also if the backend has done what *)
(* it was asked for.                                                       *)
LEMMA PlausibleErrors ==
    ASSUME NEW x, NEW e \in BackendErrors(x) \cup SystemErrors(x)
    PROVE  Plausible(x, e) /\ ~e.audit
<1>1. e \in {LogAndFail(502), Fail(500), LogAndFail(500)}
  BY DEF BackendErrors, SystemErrors
<1>2. ~e.audit
  BY <1>1 DEF LogAndFail, Fail, Effect
<1> QED
  BY <1>1, <1>2, PlausibleFail DEF Codes

LEMMA PlausibleLost ==
    ASSUME NEW x, validName(x.q.resource), NEW put, NEW e \in BackendErrors(x)
    PROVE  Plausible(x, [e EXCEPT !.put = put])
<1> DEFINE f == [e EXCEPT !.put = put]
<1>1. Plausible(x, e) /\ ~e.audit
  BY PlausibleErrors
<1>2. e \in {LogAndFail(502), Fail(500)}
  BY DEF BackendErrors
<1>3. f.codes = e.codes /\ f.log = e.log /\ f.audit = e.audit
  BY <1>2 DEF LogAndFail, Fail, Effect
<1>4. e.codes # <<>>
  BY <1>2, CodesDiffer DEF LogAndFail, Fail, Effect, Codes
<1> HIDE DEF f
<1> QED
  BY <1>1, <1>3, <1>4 DEF Plausible

LEMMA CreateEffects ==
    ASSUME NEW x, x.q.api \in Mutators, validName(x.q.resource), NEW key, NEW e \in KeysCreate(x, key)
    PROVE  Plausible(x, e)
<1>1. \/ e \in {LogAndFail(502), ErrKeyExists}
      \/ e = Audited(EncodeKeyVersion(key))
      \/ \E f \in BackendErrors(x) : \E v : e = [f EXCEPT !.put = v]
  BY DEF KeysCreate
<1>2. Plausible(x, LogAndFail(502)) /\ Plausible(x, ErrKeyExists)
  BY PlausibleFail DEF ErrKeyExists, Codes
<1>3. \A f \in BackendErrors(x) : \A v : Plausible(x, [f EXCEPT !.put = v])
  BY PlausibleLost
<1>4. Plausible(x, Audited(EncodeKeyVersion(key)))
  BY PlausibleAudited
<1> QED
  BY <1>1, <1>2, <1>3, <1>4

LEMMA DeleteEffects ==
    ASSUME NEW x, x.q.api \in Mutators, validName(x.q.resource), NEW e \in KeysDelete(x)
    PROVE  Plausible(x, e)
<1>1. \/ e \in {ErrNotFound} \cup BackendErrors(x)
      \/ e \in {Audited(Nothing), Audited(Keep)}
      \/ \E f \in BackendErrors(x) : e = [f EXCEPT !.put = Nothing]
  BY DEF KeysDelete
<1>2. Plausible(x, ErrNotFound)
  BY PlausibleFail DEF ErrNotFound, Codes
<1>3. \A f \in BackendErrors(x) : Plausible(x, f) /\ Plausible(x, [f EXCEPT !.put = Nothing])
  BY PlausibleErrors, PlausibleLost
<1>4. Plausible(x, Audited(Nothing)) /\ Plausible(x, Audited(Keep))
  BY PlausibleAudited
<1> QED
  BY <1>1, <1>2, <1>3, <1>4

LEMMA ListFailedEffects ==
    ASSUME NEW x, x.q.api \notin Mutators, NEW e \in ListErrors(x) \cup {ListCanceled}
    PROVE  Plausible(x, e)
<1> DEFINE two == <<502, 200>>
<1>0. two \in Answerable /\ two # <<>> /\ two # <<200>>
  BY DEF Answerable
<1>1. \/ e = Fail(500)
      \/ e = [LogAndFail(502) EXCEPT !.codes = two] \/ e = [LogAndFail(500) EXCEPT !.codes = two]
  <2>1. LogAndFail(502).log = TRUE /\ LogAndFail(500).log = TRUE /\ Fail(500).log = FALSE
    BY DEF LogAndFail, Fail, Effect
  <2>2. PICK f \in {LogAndFail(502), Fail(500)} : e = ListFailed(f)
    BY DEF ListErrors, ListCanceled, BackendErrors
  <2> QED
    BY <2>1, <2>2 DEF ListFailed
<1> HIDE DEF two
<1>2. CASE e = Fail(500)
  BY <1>2, PlausibleFail DEF Codes
<1>3. CASE e = [LogAndFail(502) EXCEPT !.codes = two] \/ e = [LogAndFail(500) EXCEPT !.codes = two]
  <2>1. e.log = TRUE /\ e.audit = FALSE /\ e.codes = two /\ e.put = Keep
    BY <1>3 DEF LogAndFail, Effect
  <2> QED
    BY <1>0, <2>1 DEF Plausible
<1> QED
  BY <1>1, <1>2, <1>3
(* The effects of the handlers that change no key.                         *)
Simple(x, e) ==
    \/ \E result : e = ReplyWith(result)
    \/ \E code \in Codes \ {200} : e \in {Fail(code), LogAndFail(code)}
    \/ e = Panic
    \/ e \in BackendErrors(x) \cup SystemErrors(x)

LEMMA PlausibleSimple ==
    ASSUME NEW x, x.q.api \notin Mutators, NEW e, Simple(x, e)
    PROVE  Plausible(x, e)
BY PlausibleReply, PlausibleFail, PlausiblePanic, PlausibleErrors DEF Simple

LEMMA SimpleFail ==
    ASSUME NEW x
    PROVE  /\ \A code \in Codes \ {200} : Simple(x, Fail(code)) /\ Simple(x, LogAndFail(code))
           /\ {200, 400, 403, 404, 406, 409, 500, 502, 504} \subseteq Codes
           /\ \A result : Simple(x, ReplyWith(result))
           /\ \A e \in BackendErrors(x) \cup SystemErrors(x) : Simple(x, e)
           /\ Simple(x, Panic)
BY DEF Simple, Codes

LEMMA StatusAnswers ==
    ASSUME NEW x, x.conf.keys \in Kinds
    PROVE  KeysStatus(x) \subseteq {"ok", "unreachable", "error"}
<1>1. Answers(x) \subseteq {"ok", "unreachable", "error"}
  BY DEF Answers
<1> QED
  BY <1>1 DEF KeysStatus, Kinds, MemStatus, fsStatus, efsStatus, awsStatus, gcpStatus, azureStatus,
              vaultStatus, entrustStatus, gemaltoStatus, fortanixStatus

LEMMA ServerEffects ==
    ASSUME NEW x, x.conf.keys \in Kinds,
           NEW e \in version(x) \cup ready(x) \cup status(x) \cup metrics(x) \cup listAPIs(x)
    PROVE  Simple(x, e)
<1>1. CASE e \in ready(x)
  <2>1. PICK s \in KeysStatus(x) : e = CASE s = "ok" -> ReplyWith(NoResult)
                                         [] s = "unreachable" -> LogAndFail(504)
                                         [] s = "error" -> LogAndFail(502)
    BY <1>1 DEF ready
  <2>2. s \in {"ok", "unreachable", "error"}
    BY StatusAnswers
  <2>3. e \in {ReplyWith(NoResult), LogAndFail(504), LogAndFail(502)}
    BY <2>1, <2>2
  <2> QED
    BY <2>3, SimpleFail
<1>2. CASE e \in status(x)
  <2>1. e \in SystemErrors(x) \/ \E result : e = ReplyWith(result)
    BY <1>2, Zenon DEF status
  <2> QED
    BY <2>1, SimpleFail
<1>3. CASE e \in version(x) \cup metrics(x) \cup listAPIs(x)
  BY <1>3, SimpleFail DEF version, metrics, listAPIs
<1> QED
  BY <1>1, <1>2, <1>3

(* What a handler finds that gets a key.                                   *)
NoUse(x) == {Fail(400), InvalidBody, ErrNotFound, Panic, LogAndFail(502)} \cup BackendErrors(x)

LEMMA NoUseSimple ==
    ASSUME NEW x, NEW e \in NoUse(x)
    PROVE  Simple(x, e)
<1>1. /\ Simple(x, Fail(400)) /\ Simple(x, InvalidBody) /\ Simple(x, ErrNotFound)
      /\ Simple(x, LogAndFail(502))
  <2>1. 400 \in Codes \ {200} /\ 404 \in Codes \ {200} /\ 502 \in Codes \ {200}
    BY DEF Codes
  <2>2. /\ Simple(x, Fail(400)) /\ Simple(x, LogAndFail(400))
        /\ Simple(x, Fail(404)) /\ Simple(x, LogAndFail(502))
    <3>1. \A code \in Codes \ {200} : Simple(x, Fail(code)) /\ Simple(x, LogAndFail(code))
      BY SimpleFail
    <3> QED
      BY <2>1, <3>1
  <2> QED
    BY <2>2 DEF InvalidBody, ErrNotFound
<1> QED
  BY <1>1, SimpleFail DEF NoUse

LEMMA EncryptedEffects ==
    ASSUME NEW x, NEW key, NEW plaintext, NEW e \in Encrypted(x, key, plaintext)
    PROVE  Simple(x, e)
<1>1. \/ e = LogAndFail(500) \/ e \in SystemErrors(x)
      \/ \E result : e = ReplyWith(result)
  BY DEF Encrypted
<1> QED
  BY <1>1, SimpleFail DEF Codes

LEMMA UseEffects ==
    ASSUME NEW x, NEW e \in describeKey(x) \cup encryptKey(x) \cup generateKey(x)
                             \cup decryptKey(x) \cup hmacKey(x)
    PROVE  Simple(x, e)
<1>1. CASE e \in describeKey(x)
  <2> DEFINE Describe(key) == {ReplyWith([kind |-> "key", cipher |-> key.cipher, by |-> key.by])}
  <2>1. CASE e \notin NoUse(x)
    <3>1. e \in KeysGet(x, Describe)
      BY <1>1, <2>1 DEF describeKey, NoUse
    <3> HIDE DEF Describe
    <3>2. PICK v \in GetFinds(x) : e \in Describe(ParseKeyVersion(v).key)
      BY <2>1, <3>1 DEF KeysGet, NoUse
    <3>3. \E result : e = ReplyWith(result)
      BY <3>2 DEF Describe
    <3> QED
      BY <3>3 DEF Simple
  <2>2. CASE e \in NoUse(x)
    BY <2>2, NoUseSimple
  <2> QED
    BY <2>1, <2>2
<1>2. CASE e \in encryptKey(x)
  <2>1. e \in NoUse(x) \/ \E key : e \in Encrypted(x, key, x.q.body.plaintext)
    BY <1>2 DEF encryptKey, KeysGet, NoUse
  <2> QED
    BY <2>1, NoUseSimple, EncryptedEffects
<1>3. CASE e \in generateKey(x)
  <2>1. \/ e \in NoUse(x) \/ e \in SystemErrors(x)
        \/ \E key : e \in Encrypted(x, key, x.random)
    BY <1>3 DEF generateKey, KeysGet, NoUse
  <2> QED
    BY <2>1, NoUseSimple, EncryptedEffects, SimpleFail
<1>4. CASE e \in decryptKey(x)
  <2>1. \/ e \in NoUse(x) \/ e \in {LogAndFail(500), ErrDecrypt}
        \/ \E result : e = ReplyWith(result)
    BY <1>4 DEF decryptKey, KeysGet, NoUse
  <2> QED
    BY <2>1, NoUseSimple, SimpleFail DEF ErrDecrypt, Codes
<1>5. CASE e \in hmacKey(x)
  <2> DEFINE Use(key) == IF HasHMACKey(key)
                         THEN {ReplyWith([kind |-> "sum", sum |-> Sum(key, x.q.body.plaintext)])}
                         ELSE {Fail(409)}
  <2>1. CASE e \notin NoUse(x)
    <3>1. e \in KeysGet(x, Use)
      BY <1>5, <2>1 DEF hmacKey, NoUse
    <3> HIDE DEF Use
    <3>2. PICK v \in GetFinds(x) : e \in Use(ParseKeyVersion(v).key)
      BY <2>1, <3>1 DEF KeysGet, NoUse
    <3>3. e = Fail(409) \/ \E result : e = ReplyWith(result)
      BY <3>2 DEF Use
    <3> QED
      BY <3>3, SimpleFail DEF Simple, Codes
  <2>2. CASE e \in NoUse(x)
    BY <2>2, NoUseSimple
  <2> QED
    BY <2>1, <2>2
<1> QED
  BY <1>1, <1>2, <1>3, <1>4, <1>5

LEMMA LookupEffects ==
    ASSUME NEW x, NEW e \in describePolicy(x) \cup readPolicy(x) \cup listPolicies(x)
                             \cup describeIdentity(x) \cup listIdentities(x)
                             \cup selfDescribeIdentity(x) \cup subscribe(x)
    PROVE  Simple(x, e)
<1>1. e = Fail(400) \/ e = ErrNotFound \/ \E result : e = ReplyWith(result)
  BY DEF describePolicy, readPolicy, listPolicies, describeIdentity, listIdentities,
         selfDescribeIdentity, subscribe, Listed
<1> QED
  BY <1>1, SimpleFail DEF ErrNotFound, Codes

LEMMA ListEffects ==
    ASSUME NEW x, x.q.api = "listKeys", x.conf.keys \in Kinds,
           ~(Paged(x) /\ validPattern(x.q.resource)), NEW e \in listKeys(x)
    PROVE  Plausible(x, e)
<1>1. e = Fail(400) \/ e \in ListErrors(x) \/ \E result : e = ReplyWith(result)
  <2>1. CASE ~validPattern(x.q.resource)
    BY <2>1 DEF listKeys
  <2>2. CASE validPattern(x.q.resource)
    <3>1. /\ x.conf.keys \in {"mem", "fs", "efs", "aws", "gcp", "azure", "vault", "entrust"}
      BY <2>2 DEF Paged, Kinds
    <3>2. e \in memList(x) \cup fsList(x) \cup efsList(x) \cup awsList(x) \cup gcpList(x)
                  \cup azureList(x) \cup vaultList(x) \cup entrustList(x)
      BY <2>2, <3>1 DEF listKeys
    <3> QED
      BY <3>2 DEF memList, fsList, efsList, awsList, gcpList, azureList, vaultList, entrustList,
                  ListAll, Listed
  <2> QED
    BY <2>1, <2>2
<1>2. x.q.api \notin Mutators
  BY DEF Mutators
<1> QED
  BY <1>1, <1>2, ListFailedEffects, PlausibleFail, PlausibleReply DEF Codes

(* Every effect of every handler is plausible.                             *)
LEMMA HandlerEffects ==
    ASSUME NEW x, x.q.api \in APIs, x.conf.keys \in Kinds,
           ~(Paged(x) /\ validPattern(x.q.resource)), NEW e \in Handler(x)
    PROVE  Plausible(x, e)
<1>1. CASE x.q.api \in DOMAIN ServerRoutes
  <2>1. e \in version(x) \cup ready(x) \cup status(x) \cup metrics(x) \cup listAPIs(x)
    BY <1>1, RouteTables DEF Handler
  <2>2. x.q.api \notin Mutators
    BY <1>1, RouteTables DEF Mutators
  <2> QED
    BY <2>1, <2>2, ServerEffects, PlausibleSimple
<1>2. CASE x.q.api \in {"createKey", "importKey"}
  <2>1. e \in createKey(x) \cup importKey(x)
    BY <1>2 DEF Handler
  <2>2. \/ e \in {Fail(400), InvalidBody, Fail(406)} \cup SystemErrors(x)
        \/ validName(x.q.resource) /\ \E key : e \in KeysCreate(x, key)
    BY <2>1 DEF createKey, importKey
  <2>3. x.q.api \in Mutators
    BY <1>2 DEF Mutators
  <2>4. CASE e \in {Fail(400), InvalidBody, Fail(406)} \cup SystemErrors(x)
    BY <2>4, PlausibleFail, PlausibleErrors DEF InvalidBody, Codes
  <2> QED
    BY <2>2, <2>3, <2>4, CreateEffects
<1>3. CASE x.q.api = "deleteKey"
  <2>1. e \in deleteKey(x) /\ x.q.api \in Mutators
    BY <1>3 DEF Handler, Mutators
  <2>2. e = Fail(400) \/ (validName(x.q.resource) /\ e \in KeysDelete(x))
    BY <2>1 DEF deleteKey
  <2> QED
    BY <2>1, <2>2, DeleteEffects, PlausibleFail DEF Codes
<1>4. CASE x.q.api = "listKeys"
  <2>1. e \in listKeys(x)
    BY <1>4 DEF Handler
  <2> QED
    BY <1>4, <2>1, ListEffects
<1>5. CASE x.q.api \in {"describeKey", "encryptKey", "generateKey", "decryptKey", "hmacKey"}
  <2>1. e \in describeKey(x) \cup encryptKey(x) \cup generateKey(x) \cup decryptKey(x) \cup hmacKey(x)
    BY <1>5 DEF Handler
  <2>2. x.q.api \notin Mutators
    BY <1>5 DEF Mutators
  <2> QED
    BY <2>1, <2>2, UseEffects, PlausibleSimple
<1>6. CASE x.q.api \in DOMAIN PolicyRoutes \cup DOMAIN IdentityRoutes \cup DOMAIN LogRoutes
  <2>1. e \in describePolicy(x) \cup readPolicy(x) \cup listPolicies(x)
                 \cup describeIdentity(x) \cup listIdentities(x)
                 \cup selfDescribeIdentity(x) \cup subscribe(x)
    BY <1>6, RouteTables DEF Handler
  <2>2. x.q.api \notin Mutators
    BY <1>6, RouteTables DEF Mutators
  <2> QED
    BY <2>1, <2>2, LookupEffects, PlausibleSimple
<1> QED
  BY <1>1, <1>2, <1>3, <1>4, <1>5, <1>6, RouteTables DEF APIs

(* And so is how a listing in pages ends.                                  *)
LEMMA PageEffects ==
    ASSUME NEW x, x.q.api = "listKeys", NEW round, NEW e \in ListEnd(x, round) \cup {ListCanceled}
    PROVE  Plausible(x, e)
<1>1. x.q.api \notin Mutators
  BY DEF Mutators
<1>2. e \in ListErrors(x) \cup {ListCanceled} \/ \E result : e = ReplyWith(result)
  BY DEF ListEnd, Listed
<1> QED
  BY <1>1, <1>2, ListFailedEffects, PlausibleReply
-----------------------------------------------------------------------------
LEMMA ReqFields ==
    DOMAIN Fresh = {"pc", "skip", "id", "used", "codes", "result", "page", "hEnabled", "oEnabled",
                    "effect", "left", "granted", "panicked", "seen", "known", "audited"}
BY DEF Fresh

(* What depends on the scenario only.                                      *)
LEMMA ScenarioFacts ==
    ASSUME setup \in Scenarios
    PROVE  /\ Len(setup.requests) \in Nat /\ IsFiniteSet(Reqs)
           /\ \A r \in Reqs : IsRequest(Request(r)) /\ Request(r).api \in APIs
                              /\ Counted(r) \in BOOLEAN
           /\ IsConf(setup.conf) /\ IsConf(setup.update.conf)
           /\ {setup.conf.keys, setup.update.conf.keys} \subseteq UsedKinds
           /\ \A i \in DOMAIN Files : IsFile(Files[i])
           /\ Method \in {"none", "SIGHUP", "Update", "UpdateAdmin", "UpdatePolicies"}
<1>1. Len(setup.requests) \in Nat
  BY ScenariosAssumption
<1>2. IsFiniteSet(Reqs)
  BY <1>1, FS_Interval DEF Reqs
<1>3. \A r \in Reqs : IsRequest(Request(r)) /\ Request(r).api \in APIs
  BY ScenariosAssumption DEF Reqs, Request, IsRequest
<1>4. \A r \in Reqs : Counted(r) \in BOOLEAN
  BY <1>3, RouteFacts DEF Counted
<1> QED
  BY <1>1, <1>2, <1>3, <1>4, ScenariosAssumption DEF UsedKinds, Files, Method

LEMMA SameScenario ==
    ASSUME setup' = setup
    PROVE  /\ Reqs' = Reqs /\ UsedKinds' = UsedKinds /\ Files' = Files
           /\ Method' = Method /\ (Daemon' <=> Daemon) /\ (Whole' <=> Whole)
           /\ \A r : Request(r)' = Request(r) /\ Counted(r)' = Counted(r)
           /\ \A c : Proposed(c)' <=> Proposed(c)
           /\ \A c : Accepted(c)' <=> Accepted(c)
<1>1. /\ Reqs' = Reqs /\ UsedKinds' = UsedKinds /\ Files' = Files /\ Method' = Method
      /\ \A r : Request(r)' = Request(r)
  BY DEF Reqs, UsedKinds, Files, Method, Request
<1>2. \A r : Counted(r)' = Counted(r)
  BY <1>1 DEF Counted
<1>3. (Daemon' <=> Daemon) /\ (Whole' <=> Whole)
  BY <1>1 DEF Daemon, Whole
<1>4. \A c : Proposed(c)' <=> Proposed(c)
  BY <1>1, <1>3 DEF Proposed
<1> QED
  BY <1>1, <1>2, <1>3, <1>4 DEF Accepted

(* A step of one request: the others, the configuration and the Update     *)
(* stay as they are.                                                       *)
Others(r) ==
    /\ \A q \in Reqs \ {r} : req'[q] = req[q]
    /\ UNCHANGED <<setup, confVars, upc, target, made, missing, daemonVars>>

LEMMA RequestFrame ==
    ASSUME IInv, NEW r \in Reqs, Others(r), Shape', Progress(r)', Met(r)',
           Writes(r)' \/ req'[r].pc # "write"
    PROVE  ConfInv' /\ UpdateInv' /\ DiskInv' /\ RequestInv'
<1> USE DEF IInv
<1>1. setup' = setup
  BY DEF Others
<1>2. /\ Reqs' = Reqs /\ UsedKinds' = UsedKinds /\ Files' = Files /\ (Daemon' <=> Daemon)
      /\ (Whole' <=> Whole)
      /\ \A q : Request(q)' = Request(q) /\ Counted(q)' = Counted(q)
      /\ \A c : (Proposed(c)' <=> Proposed(c)) /\ (Accepted(c)' <=> Accepted(c))
  BY <1>1, SameScenario
<1>3. UNCHANGED <<up, state, handler, tls, auditH, levels, inForce, upc, target>>
  BY DEF Others, confVars
<1>4. UNCHANGED <<disk, pending, sent, asked, loaded, outcome, tick>> /\ early' = early
  BY DEF Others, daemonVars
<1>5. ConfInv'
  BY <1>1, <1>2, <1>3 DEF ConfInv
<1>6. UpdateInv'
  BY <1>2, <1>3 DEF UpdateInv
<1>7. DiskInv'
  BY <1>1, <1>2, <1>4 DEF DiskInv
<1>8. \A q \in Reqs \ {r} : Progress(q)'
  BY <1>1, <1>2 DEF RequestInv, Others, Progress, Decided, validName
<1>9. \A q \in Reqs \ {r} : Met(q)'
  BY <1>2, <1>3 DEF RequestInv, Others, Met, Active
<1>10. \A q \in Reqs \ {r} : Writes(q)'
  BY <1>2 DEF RequestInv, Others, Writes
<1>11. Writes(r)'
  BY DEF Writes
<1> QED
  BY <1>2, <1>5, <1>6, <1>7, <1>8, <1>9, <1>10, <1>11 DEF RequestInv
-----------------------------------------------------------------------------
(* A step that counts nothing.                                             *)
MeterKept(r) ==
    /\ DOMAIN meter' = DOMAIN meter
    /\ meter'.errorEvents \in Nat /\ meter'.auditEvents \in Nat
    /\ meter'.active = meter.active /\ meter'.latency = meter.latency
    /\ meter'.succeeded = meter.succeeded /\ meter'.errored = meter.errored
    /\ meter'.failed = meter.failed
    /\ req'[r].granted = req[r].granted
    /\ req'[r].pc = "done" => ~req[r].granted \/ ~Counted(r)

LEMMA MeterKeptInv ==
    ASSUME IInv, NEW r \in Reqs, Others(r), req[r].pc # "done", MeterKept(r)
    PROVE  MeterInv'
<1> USE DEF IInv
<1>1. Reqs' = Reqs /\ \A q : Counted(q)' = Counted(q)
  BY SameScenario DEF Others
<1>2. \A q \in Reqs \ {r} : req'[q] = req[q]
  BY DEF Others
<1>3. Running' = Running
  BY <1>1, <1>2 DEF Running, MeterKept
<1>4. Gone' = Gone
  BY <1>1, <1>2 DEF Gone, Finished, MeterKept
<1>5. \A lo : Class(lo)' = Class(lo)
  BY <1>1, <1>2 DEF Class, MeterKept
<1>6. FailedListings' = FailedListings
  <2>1. r \notin Class(500) /\ Class(500)' = Class(500) /\ Class(500) \subseteq Reqs
    BY <1>5 DEF Class
  <2> QED
    BY <1>2, <2>1 DEF FailedListings
<1> QED
  BY <1>3, <1>4, <1>5, <1>6 DEF MeterInv, MeterKept

(* A step without audit record.                                            *)
AuditKept(r) ==
    /\ audit' = audit
    /\ req[r].pc = "reply" =>
           /\ req'[r].pc \in {"reply", "done"}
           /\ req'[r].granted = req[r].granted /\ req'[r].id = req[r].id
           /\ req'[r].codes = req[r].codes /\ req'[r].audited = req[r].audited
    /\ req[r].pc # "reply" /\ req'[r].audited =>
           /\ req'[r].pc \in {"routed", "handler", "write", "page", "log", "audit"} =>
                  AuditOn /\ (auditH = Torn \/ HandlerEnabled(auditH))
           /\ req'[r].pc = "record" => req'[r].hEnabled
           /\ req'[r].pc \in {"reply", "done"} /\ req'[r].granted =>
                  Request(r).api \notin Mutators \/ req'[r].codes # <<200>>

LEMMA AuditKeptInv ==
    ASSUME IInv, NEW r \in Reqs, Others(r), req[r].pc # "done", AuditKept(r)
    PROVE  AuditInv'
<1> USE DEF IInv
<1>1. Reqs' = Reqs /\ \A q : Request(q)' = Request(q)
  BY SameScenario DEF Others
<1>2. \A q \in Reqs \ {r} : req'[q] = req[q]
  BY DEF Others
<1>3. UNCHANGED <<auditH, levels, audit>> /\ (AuditOn' <=> AuditOn)
  BY DEF Others, confVars, AuditOn, AuditKept
<1>4. ASSUME NEW i \in DOMAIN audit, NEW q \in Reqs, audit[i].of = q
      PROVE  Recorded(i, q)'
  <2>1. Recorded(i, q)
    BY <1>4 DEF AuditInv
  <2>2. CASE q # r
    BY <1>1, <1>2, <1>3, <2>1, <2>2 DEF Recorded
  <2>3. CASE q = r
    BY <1>1, <1>3, <2>1, <2>3 DEF AuditKept, Recorded
  <2> QED
    BY <2>2, <2>3
<1>5. ASSUME NEW q \in Reqs, req'[q].audited
      PROVE  Due(q)'
  <2>1. CASE q # r
    BY <1>1, <1>2, <1>3, <1>5, <2>1 DEF AuditInv, Due
  <2>2. CASE q = r /\ req[r].pc = "reply"
    BY <1>1, <1>3, <1>5, <2>2 DEF AuditInv, AuditKept, Due
  <2>3. CASE q = r /\ req[r].pc # "reply"
    BY <1>1, <1>3, <1>5, <2>3 DEF AuditKept, Due
  <2> QED
    BY <2>1, <2>2, <2>3
<1>6. /\ audit' \in Seq([of : Reqs', by : AuditHandlers, id : Identities])
      /\ \A i, j \in DOMAIN audit' : audit'[i].of = audit'[j].of => i = j
  BY <1>1, <1>3 DEF AuditInv
<1> QED
  BY <1>1, <1>3, <1>4, <1>5, <1>6 DEF AuditInv

LEMMA StoreKeptInv ==
    ASSUME IInv, UNCHANGED <<setup, keyVars>>
    PROVE  StoreInv'
BY SameScenario DEF IInv, StoreInv, keyVars

(* A step of a request that is neither counted nor recorded.               *)
LEMMA QuietStep ==
    ASSUME IInv, NEW r \in Reqs, Others(r), UNCHANGED keyVars, req[r].pc # "done",
           Shape', Progress(r)', Met(r)', MeterKept(r), AuditKept(r), req'[r].pc # "write"
    PROVE  IInv'
<1>1. ConfInv' /\ UpdateInv' /\ DiskInv' /\ RequestInv'
  BY RequestFrame
<1>2. StoreInv'
  BY StoreKeptInv DEF Others
<1> QED
  BY <1>1, <1>2, MeterKeptInv, AuditKeptInv DEF IInv

(* Only the fields that a step assigns change.                             *)
LEMMA MeterUntouched ==
    ASSUME IInv, NEW r \in Reqs, meter' = meter, req'[r].granted = req[r].granted,
           req'[r].pc = "done" => ~req[r].granted \/ ~Counted(r)
    PROVE  MeterKept(r)
BY DEF IInv, MeterInv, MeterKept

Elsewhere == UNCHANGED <<upc, target, made, missing, daemonVars>>

LEMMA HandshakeIInv ==
    ASSUME IInv, NEW r \in Reqs, Handshake(r), Elsewhere
    PROVE  IInv'
<1> USE DEF IInv
<1>1. /\ req[r].pc = "new" /\ UNCHANGED <<setup, confVars, keyVars, audit, meter>>
      /\ \E to \in {"connected", "done"} : req' = [req EXCEPT ![r].pc = to]
  BY DEF Handshake
<1>2. PICK to \in {"connected", "done"} : req' = [req EXCEPT ![r].pc = to]
  BY <1>1
<1>3. /\ \A q \in Reqs \ {r} : req'[q] = req[q]
      /\ req'[r] = [req[r] EXCEPT !.pc = to] /\ Reqs' = Reqs
      /\ req' = [q \in Reqs |-> req'[q]]
  BY <1>1, <1>2, SameScenario DEF RequestInv, Shape
<1>4. Shape' /\ Others(r)
  BY <1>1, <1>3 DEF RequestInv, Shape, Others, Elsewhere
<1>5. /\ req'[r].pc = to /\ req'[r].granted = req[r].granted /\ req'[r].panicked = req[r].panicked
      /\ req'[r].codes = req[r].codes /\ req'[r].used = req[r].used /\ req'[r].id = req[r].id
      /\ req'[r].audited = req[r].audited /\ req'[r].hEnabled = req[r].hEnabled
      /\ req'[r].oEnabled = req[r].oEnabled /\ req'[r].seen = req[r].seen
  BY <1>3, ReqFields DEF RequestInv, Shape
<1>6. Progress(r)'
  BY <1>1, <1>5, SameScenario DEF RequestInv, Progress, Early, Called, Decided
<1>7. Met(r)'
  BY <1>1, <1>5 DEF RequestInv, Progress, Met, Active, Early
<1>8. MeterKept(r)
  BY <1>1, <1>5, MeterUntouched DEF RequestInv, Progress, Early
<1>9. AuditKept(r)
  BY <1>1, <1>5 DEF RequestInv, Progress, Early, AuditKept
<1> QED
  BY <1>1, <1>4, <1>5, <1>6, <1>7, <1>8, <1>9, QuietStep
(* A step that replaces the record of one request.                         *)
LEMMA Replaced ==
    ASSUME IInv, NEW r \in Reqs, NEW rec, DOMAIN rec = DOMAIN Fresh, req' = [req EXCEPT ![r] = rec],
           UNCHANGED <<setup, confVars>>, Elsewhere
    PROVE  Shape' /\ Others(r) /\ req'[r] = rec
<1>1. req = [q \in Reqs |-> req[q]] /\ \A q \in Reqs : DOMAIN req[q] = DOMAIN Fresh
  BY DEF IInv, RequestInv, Shape
<1>2. Reqs' = Reqs
  BY SameScenario
<1>3. req'[r] = rec /\ (\A q \in Reqs \ {r} : req'[q] = req[q]) /\ req' = [q \in Reqs |-> req'[q]]
  BY <1>1
<1> QED
  BY <1>1, <1>2, <1>3 DEF Shape, Others, Elsewhere

(* The fields that a step may leave alone.                                 *)
Same(r, fields) == \A f \in fields : req'[r][f] = req[r][f]

LEMMA ArriveIInv ==
    ASSUME IInv, NEW r \in Reqs, Arrive(r), Elsewhere
    PROVE  IInv'
<1> USE DEF IInv
<1> DEFINE rec == [req[r] EXCEPT !.pc = "routed", !.skip = handler, !.seen = inForce,
                                 !.known = durable \ doomed,
                                 !.audited = AuditOn /\ HandlerEnabled(auditH)]
<1>1. /\ req[r].pc = "connected" /\ UNCHANGED <<setup, confVars, keyVars, audit, meter>>
      /\ req' = [req EXCEPT ![r] = rec]
  BY DEF Arrive, RequestInv, Shape
<1>2. DOMAIN rec = DOMAIN Fresh
  BY DEF RequestInv, Shape
<1> HIDE DEF rec
<1>3. Shape' /\ Others(r) /\ req'[r] = rec
  BY <1>1, <1>2, Replaced
<1>4. /\ req'[r].pc = "routed" /\ req'[r].granted = req[r].granted
      /\ req'[r].panicked = req[r].panicked
      /\ req'[r].codes = req[r].codes /\ req'[r].used = req[r].used /\ req'[r].id = req[r].id
      /\ req'[r].hEnabled = req[r].hEnabled /\ req'[r].oEnabled = req[r].oEnabled
  BY <1>3, ReqFields DEF RequestInv, Shape, rec
<1>5. /\ req'[r].skip = handler /\ req'[r].seen = inForce
      /\ req'[r].audited = (AuditOn /\ HandlerEnabled(auditH))
  BY <1>3, ReqFields DEF RequestInv, Shape, rec
<1>6. Progress(r)'
  <2>1. req'[r].audited \in BOOLEAN
    BY <1>5, Zenon
  <2> QED
    BY <1>1, <1>4, <2>1, SameScenario DEF RequestInv, Progress, Early, Called, Decided
<1>7. Met(r)'
  BY <1>1, <1>4, <1>5
     DEF RequestInv, Progress, Met, Active, Early, ConfInv, UpdateInv, confVars, Elsewhere
<1>8. MeterKept(r)
  BY <1>1, <1>4, MeterUntouched
<1>9. AuditKept(r)
  BY <1>1, <1>4, <1>5 DEF RequestInv, Progress, Early, AuditKept
<1> QED
  BY <1>1, <1>3, <1>4, <1>6, <1>7, <1>8, <1>9, QuietStep

(* An answer before the handler is called.                                 *)
LEMMA RefuseIInv ==
    ASSUME IInv, NEW r \in Reqs, NEW code \in Codes, req[r].pc = "routed", Refuse(r, code),
           UNCHANGED <<setup, confVars, keyVars, audit, meter>>, Elsewhere
    PROVE  IInv'
<1> USE DEF IInv
<1> DEFINE one == <<code>>
           rec == [req[r] EXCEPT !.pc = "done", !.codes = one]
<1>1. req' = [req EXCEPT ![r] = rec]
  BY DEF Refuse, RequestInv, Shape
<1>2. one \in {<<c>> : c \in Codes}
  OBVIOUS
<1> HIDE DEF one
<1>3. DOMAIN rec = DOMAIN Fresh
  BY DEF RequestInv, Shape
<1> HIDE DEF rec
<1>4. Shape' /\ Others(r) /\ req'[r] = rec
  BY <1>1, <1>3, Replaced
<1>5. /\ req'[r].pc = "done" /\ req'[r].codes = one /\ req'[r].granted = req[r].granted
      /\ req'[r].panicked = req[r].panicked /\ req'[r].used = req[r].used /\ req'[r].id = req[r].id
      /\ req'[r].hEnabled = req[r].hEnabled /\ req'[r].oEnabled = req[r].oEnabled
      /\ req'[r].audited = req[r].audited
  BY <1>4, ReqFields DEF RequestInv, Shape, rec
<1>6. ~req[r].granted /\ ~req[r].panicked
  BY DEF RequestInv, Progress, Early
<1>7. Progress(r)'
  BY <1>2, <1>5, <1>6, SameScenario DEF RequestInv, Progress, Early, Called, Decided
<1>8. Met(r)'
  BY <1>5, <1>6 DEF RequestInv, Progress, Met, Active
<1>9. MeterKept(r)
  BY <1>5, <1>6, MeterUntouched
<1>10. AuditKept(r)
  BY <1>5, <1>6 DEF AuditKept
<1> QED
  BY <1>4, <1>5, <1>7, <1>8, <1>9, <1>10, QuietStep
-----------------------------------------------------------------------------
(* A request that ends leaves the running ones.                            *)
LEMMA LeaveSets ==
    ASSUME IInv, NEW r \in Reqs, Others(r), req[r].pc # "done", req'[r].pc = "done",
           req'[r].granted = req[r].granted
    PROVE  /\ meter.active \in Int /\ meter.latency \in Nat
           /\ IF req[r].granted /\ Counted(r)
              THEN Cardinality(Running') = meter.active - 1 /\ Cardinality(Gone') = meter.latency + 1
              ELSE Cardinality(Running') = meter.active /\ Cardinality(Gone') = meter.latency
<1> USE DEF IInv
<1>1. Reqs' = Reqs /\ \A q : Counted(q)' = Counted(q)
  BY SameScenario DEF Others
<1>2. \A q \in Reqs \ {r} : req'[q] = req[q]
  BY DEF Others
<1>3. meter.active = Cardinality(Running) /\ meter.latency = Cardinality(Gone)
  BY DEF MeterInv
<1>4. IsFiniteSet(Reqs) /\ Running \subseteq Reqs /\ Gone \subseteq Reqs
  BY ScenarioFacts DEF ConfInv, Running, Gone
<1>5. /\ IsFiniteSet(Running) /\ IsFiniteSet(Gone)
      /\ Cardinality(Running) \in Nat /\ Cardinality(Gone) \in Nat
  BY <1>4, FS_Subset, FS_CardinalityType
<1>6. CASE req[r].granted /\ Counted(r)
  <2>1. Running' = Running \ {r} /\ r \in Running
    BY <1>1, <1>2, <1>6 DEF Running
  <2>2. Gone' = Gone \cup {r} /\ r \notin Gone
    BY <1>1, <1>2, <1>6 DEF Gone, Finished
  <2>3. Cardinality(Running') = Cardinality(Running) - 1
    BY <1>5, <2>1, FS_RemoveElement
  <2>4. Cardinality(Gone') = Cardinality(Gone) + 1
    BY <1>5, <2>2, FS_AddElement
  <2> QED
    BY <1>3, <1>5, <1>6, <2>3, <2>4
<1>7. CASE ~(req[r].granted /\ Counted(r))
  <2>1. Running' = Running
    BY <1>1, <1>2, <1>7 DEF Running
  <2>2. Gone' = Gone
    BY <1>1, <1>2, <1>7 DEF Gone, Finished
  <2> QED
    BY <1>3, <1>5, <1>7, <2>1, <2>2
<1> QED
  BY <1>6, <1>7

LEMMA LeaveFields ==
    ASSUME IInv, NEW r \in Reqs
    PROVE  /\ DOMAIN Leave(meter, r) = DOMAIN meter
           /\ Leave(meter, r).succeeded = meter.succeeded
           /\ Leave(meter, r).errored = meter.errored
           /\ Leave(meter, r).failed = meter.failed
           /\ Leave(meter, r).errorEvents = meter.errorEvents
           /\ Leave(meter, r).auditEvents = meter.auditEvents
           /\ IF req[r].granted /\ Counted(r)
              THEN /\ Leave(meter, r).active = meter.active - 1
                   /\ Leave(meter, r).latency = meter.latency + 1
              ELSE /\ Leave(meter, r).active = meter.active
                   /\ Leave(meter, r).latency = meter.latency
<1>1. DOMAIN meter = {"active", "latency", "succeeded", "errored", "failed", "errorEvents",
                      "auditEvents"}
  BY DEF IInv, MeterInv
<1> QED
  BY <1>1 DEF Leave

(* A panic is in no class, but the request has left.                       *)
LEMMA PanicIInv ==
    ASSUME IInv, NEW r \in Reqs, req[r].pc \notin {"new", "connected", "reply", "done"}, Panics(r),
           UNCHANGED <<setup, confVars, audit>>, StoreInv', Elsewhere
    PROVE  IInv'
<1> USE DEF IInv
<1> DEFINE no == <<>>
           rec == [req[r] EXCEPT !.pc = "done", !.panicked = TRUE, !.codes = no]
<1>1. req' = [req EXCEPT ![r] = rec] /\ meter' = Leave(meter, r)
  BY DEF Panics, RequestInv, Shape
<1>2. no \in {<<>>} /\ no # <<200>>
  OBVIOUS
<1>3. DOMAIN rec = DOMAIN Fresh
  BY DEF RequestInv, Shape
<1> HIDE DEF rec, no
<1>4. Shape' /\ Others(r) /\ req'[r] = rec
  BY <1>1, <1>3, Replaced
<1>5. /\ req'[r].pc = "done" /\ req'[r].codes = no /\ req'[r].panicked = TRUE
      /\ req'[r].granted = req[r].granted /\ req'[r].used = req[r].used /\ req'[r].id = req[r].id
      /\ req'[r].hEnabled = req[r].hEnabled /\ req'[r].oEnabled = req[r].oEnabled
      /\ req'[r].audited = req[r].audited /\ req'[r].seen = req[r].seen
  BY <1>4, ReqFields DEF RequestInv, Shape, rec
<1>6. Progress(r)'
  <2>1. req'[r].codes = <<>> /\ req'[r].codes # <<200>>
    BY <1>2, <1>5
  <2>2. Request(r)' = Request(r) /\ Counted(r)' = Counted(r) /\ UsedKinds' = UsedKinds
    BY SameScenario
  <2>3. req'[r].panicked \in BOOLEAN /\ req'[r].panicked
    BY <1>5
  <2> QED
    BY <1>5, <2>1, <2>2, <2>3 DEF RequestInv, Progress, Early, Called, Decided
<1>7. Met(r)'
  BY <1>5, SameScenario DEF RequestInv, Met, Active
<1>8. AuditKept(r)
  BY <1>2, <1>5 DEF AuditKept
<1>9. MeterInv'
  <2>1. Reqs' = Reqs /\ \A q : Counted(q)' = Counted(q)
    BY SameScenario
  <2>2. \A q \in Reqs \ {r} : req'[q] = req[q]
    BY <1>4 DEF Others
  <2>3. \A lo : Class(lo)' = Class(lo)
    BY <1>5, <2>1, <2>2 DEF Class
  <2>4. FailedListings' = FailedListings
    <3>1. r \notin Class(500) /\ Class(500)' = Class(500) /\ Class(500) \subseteq Reqs
      BY <2>3 DEF Class
    <3> QED
      BY <2>2, <3>1 DEF FailedListings
  <2>5. Cardinality(Running') = meter'.active /\ Cardinality(Gone') = meter'.latency
    BY <1>1, <1>4, <1>5, LeaveSets, LeaveFields
  <2> QED
    BY <1>1, <2>3, <2>4, <2>5, LeaveFields DEF MeterInv
<1>10. AuditInv'
  BY <1>4, <1>8, AuditKeptInv
<1>11. ConfInv' /\ UpdateInv' /\ DiskInv' /\ RequestInv'
  BY <1>4, <1>5, <1>6, <1>7, RequestFrame
<1> QED
  BY <1>9, <1>10, <1>11

LEMMA CheckMethodIInv ==
    ASSUME IInv, NEW r \in Reqs, CheckMethod(r), Elsewhere
    PROVE  IInv'
BY RefuseIInv DEF CheckMethod, Codes
-----------------------------------------------------------------------------
LEMMA SetTimeoutIInv ==
    ASSUME IInv, NEW r \in Reqs, SetTimeout(r), Elsewhere
    PROVE  IInv'
BY RefuseIInv DEF SetTimeout, Codes

LEMMA AuthenticateCodes ==
    ASSUME NEW route, NEW conf, NEW q
    PROVE  Authenticate(route, conf, q) \in {0} \cup Codes
BY DEF Authenticate, verifyIdentity, Codes

(* The handler of a request is called: a configuration that it has met     *)
(* permits it, or its route, which one of them has given it, exempts it.   *)
LEMMA AuthenticateRequestIInv ==
    ASSUME IInv, NEW r \in Reqs, AuthenticateRequest(r), Elsewhere
    PROVE  IInv'
<1> USE DEF IInv
<1> DEFINE code == Authenticate(RouteFor(r), state.conf, Request(r))
<1>1. req[r].pc = "routed" /\ UNCHANGED <<setup, confVars, keyVars, audit>>
  BY DEF AuthenticateRequest
<1>2. StoreInv'
  BY <1>1, StoreKeptInv
<1>3. CASE code # 0 /\ state.nolevel /\ Panics(r)
  BY <1>1, <1>2, <1>3, PanicIInv
<1>4. CASE code # 0 /\ Refuse(r, code) /\ UNCHANGED meter
  BY <1>1, <1>4, RefuseIInv, AuthenticateCodes
<1>5. CASE /\ code = 0
           /\ req' = [req EXCEPT ![r].pc = "handler", ![r].granted = TRUE,
                                 ![r].id = Identity(RouteFor(r), Request(r))]
           /\ meter' = IF Counted(r) THEN [meter EXCEPT !.active = @ + 1] ELSE meter
  <2> DEFINE id == Identity(RouteFor(r), Request(r))
             rec == [req[r] EXCEPT !.pc = "handler", !.granted = TRUE, !.id = id]
  <2>1. req' = [req EXCEPT ![r] = rec] /\ DOMAIN rec = DOMAIN Fresh
    BY <1>5 DEF RequestInv, Shape
  <2>2. id \in Identities /\ IsRequest(Request(r))
    BY IdentityType, ScenarioFacts DEF ConfInv
  <2> HIDE DEF rec, id
  <2>3. Shape' /\ Others(r) /\ req'[r] = rec
    BY <1>1, <2>1, Replaced
  <2>4. /\ req'[r].pc = "handler" /\ req'[r].granted = TRUE /\ req'[r].id = id
        /\ req'[r].panicked = req[r].panicked /\ req'[r].codes = req[r].codes
        /\ req'[r].used = req[r].used /\ req'[r].hEnabled = req[r].hEnabled
        /\ req'[r].oEnabled = req[r].oEnabled /\ req'[r].audited = req[r].audited
        /\ req'[r].seen = req[r].seen /\ req'[r].skip = req[r].skip
    BY <2>3, ReqFields DEF RequestInv, Shape, rec
  <2>5. Progress(r)'
    <3>1. Request(r)' = Request(r) /\ Counted(r)' = Counted(r) /\ UsedKinds' = UsedKinds
      BY <1>1, SameScenario
    <3>2. req'[r].granted \in BOOLEAN /\ req'[r].granted
      BY <2>4
    <3>3. ~req[r].panicked /\ req[r].codes = <<>> /\ <<>> # <<200>>
      BY <1>1 DEF RequestInv, Progress, Early
    <3> QED
      BY <2>2, <2>4, <3>1, <3>2, <3>3 DEF RequestInv, Progress, Early, Called, Decided
  <2>6. \E c \in req[r].seen : Permitted(c, Request(r))
    <3>1. /\ state.conf \in req[r].seen
          /\ \E c \in req[r].seen : c.skip = req[r].skip
      BY <1>1 DEF RequestInv, Met, Active
    <3>2. ArePolicies(state.conf.policies)
      BY DEF ConfInv, Proposed, IsConf
    <3>3. \/ Request(r).api \in req[r].skip \cup {"version", "selfDescribeIdentity"}
          \/ Permitted(state.conf, Request(r))
      BY <1>5, <2>2, <3>2, AuthenticateFacts DEF RouteFor
    <3>4. ASSUME NEW c \in req[r].seen, c.skip = req[r].skip,
                 Request(r).api \in req[r].skip \cup {"version", "selfDescribeIdentity"}
          PROVE  Permitted(c, Request(r))
      BY <3>4 DEF Permitted
    <3> QED
      BY <3>1, <3>3, <3>4
  <2>7. Met(r)'
    BY <1>1, <2>4, <2>6, SameScenario DEF RequestInv, Met, Active, confVars, Elsewhere
  <2>8. MeterInv'
    <3>1. Reqs' = Reqs /\ \A q : Counted(q)' = Counted(q)
      BY <1>1, SameScenario
    <3>2. \A q \in Reqs \ {r} : req'[q] = req[q]
      BY <2>3 DEF Others
    <3>3. ~req[r].granted
      BY <1>1 DEF RequestInv, Progress, Early
    <3>4. \A lo : Class(lo)' = Class(lo)
      BY <1>1, <2>4, <3>1, <3>2 DEF Class
    <3>5. Gone' = Gone
      BY <1>1, <2>4, <3>1, <3>2 DEF Gone, Finished
    <3>6. FailedListings' = FailedListings
      <4>1. r \notin Class(500) /\ Class(500)' = Class(500) /\ Class(500) \subseteq Reqs
        BY <1>1, <3>4 DEF Class
      <4> QED
        BY <3>2, <4>1 DEF FailedListings
    <3>7. DOMAIN meter = {"active", "latency", "succeeded", "errored", "failed", "errorEvents",
                          "auditEvents"} /\ meter.active = Cardinality(Running)
      BY DEF MeterInv
    <3>8. IsFiniteSet(Running)
      BY ScenarioFacts, FS_Subset DEF ConfInv, Running
    <3>9. CASE Counted(r)
      <4>1. Running' = Running \cup {r} /\ r \notin Running
        BY <2>4, <3>1, <3>2, <3>3, <3>9 DEF Running
      <4>2. Cardinality(Running') = meter.active + 1
        BY <3>7, <3>8, <4>1, FS_AddElement
      <4>3. /\ DOMAIN meter' = DOMAIN meter
            /\ meter'.active = meter.active + 1 /\ meter'.latency = meter.latency
            /\ meter'.succeeded = meter.succeeded /\ meter'.errored = meter.errored
            /\ meter'.failed = meter.failed /\ meter'.errorEvents = meter.errorEvents
            /\ meter'.auditEvents = meter.auditEvents
        BY <1>5, <3>7, <3>9
      <4> QED
        BY <3>4, <3>5, <3>6, <4>2, <4>3 DEF MeterInv
    <3>10. CASE ~Counted(r)
      <4>1. Running' = Running
        BY <2>4, <3>1, <3>2, <3>3, <3>10 DEF Running
      <4> QED
        BY <1>5, <3>4, <3>5, <3>6, <3>10, <4>1 DEF MeterInv
    <3> QED
      BY <3>9, <3>10
  <2>9. AuditKept(r)
    BY <1>1, <2>4 DEF AuditInv, Due, AuditKept
  <2> QED
    BY <1>1, <1>2, <2>3, <2>4, <2>5, <2>7, <2>8, <2>9, RequestFrame, AuditKeptInv
<1> QED
  BY <1>3, <1>4, <1>5 DEF AuthenticateRequest
-----------------------------------------------------------------------------
(* The handler has done its work, one way or the other.                    *)
LEMMA TakesIInv ==
    ASSUME IInv, NEW r \in Reqs, req[r].pc \in {"handler", "write", "page"},
           NEW x, x.q = Request(r), NEW e, Plausible(x, e), NEW kind \in UsedKinds \cap Kinds,
           \E c \in req[r].seen : c.keys = kind, Takes(r, e, kind),
           UNCHANGED <<setup, confVars, audit>>, StoreInv', Elsewhere
    PROVE  IInv'
<1> USE DEF IInv
<1> DEFINE to == After(Request(r), e)
           rec == [req[r] EXCEPT !.pc = to, !.used = kind, !.codes = e.codes, !.result = e.result]
<1>1. req' = [req EXCEPT ![r] = rec] /\ DOMAIN rec = DOMAIN Fresh /\ meter' = meter /\ e.codes # <<>>
  BY DEF Takes, RequestInv, Shape
<1>2. /\ to \in {"log", "audit", "stream", "reply"}
      /\ to = "log" => e.codes # <<200>>
      /\ to = "audit" => e.codes = <<200>> /\ Request(r).api \in Mutators
      /\ to = "stream" => Request(r).api \in DOMAIN LogRoutes
      /\ to = "reply" => e.codes # <<200>> \/ Request(r).api \notin Mutators
      /\ e.codes = <<200>> /\ Request(r).api \in Mutators => validName(Request(r).resource)
      /\ e.codes \in {<<>>, <<502, 200>>} \cup {<<c>> : c \in Codes}
  BY DEF After, Streams, Plausible, Answerable
<1> HIDE DEF to, rec
<1>3. Shape' /\ Others(r) /\ req'[r] = rec
  BY <1>1, Replaced
<1>4. /\ req'[r].pc = to /\ req'[r].used = kind /\ req'[r].codes = e.codes
      /\ req'[r].granted = req[r].granted /\ req'[r].id = req[r].id
      /\ req'[r].panicked = req[r].panicked /\ req'[r].hEnabled = req[r].hEnabled
      /\ req'[r].oEnabled = req[r].oEnabled /\ req'[r].audited = req[r].audited
      /\ req'[r].seen = req[r].seen /\ req'[r].skip = req[r].skip
  BY <1>3, ReqFields DEF RequestInv, Shape, rec
<1>5. req[r].granted /\ ~req[r].panicked
  BY DEF RequestInv, Progress, Called
<1>6. Request(r)' = Request(r) /\ Counted(r)' = Counted(r) /\ UsedKinds' = UsedKinds
  BY SameScenario
<1>7. Request(r).api \in DOMAIN LogRoutes => ~Counted(r) /\ Request(r).api \notin Mutators
  BY ScenarioFacts, RouteFacts, RouteTables DEF ConfInv, Counted, Mutators
<1>8. Progress(r)'
  <2>1. /\ req'[r].pc \in Called /\ req'[r].pc \notin Early \cup {"handler", "write", "page", "record", "done"}
        /\ Decided(r)'
    BY <1>2, <1>4 DEF Called, Early, Decided
  <2>2. /\ req'[r].granted \in BOOLEAN /\ req'[r].panicked \in BOOLEAN /\ req'[r].audited \in BOOLEAN
        /\ req'[r].hEnabled \in BOOLEAN /\ req'[r].oEnabled \in BOOLEAN
        /\ req'[r].id \in Identities /\ req'[r].used \in Kinds
        /\ req'[r].granted /\ ~req'[r].panicked
    BY <1>4, <1>5 DEF RequestInv, Progress
  <2>3. req'[r].codes \in {<<>>, <<502, 200>>} \cup {<<c>> : c \in Codes} /\ req'[r].codes # <<>>
    BY <1>1, <1>2, <1>4
  <2> QED
    BY <1>2, <1>4, <1>6, <1>7, <2>1, <2>2, <2>3 DEF Progress
<1>9. Met(r)'
  BY <1>2, <1>4, <1>6 DEF RequestInv, Met, Active, confVars, Elsewhere
<1>10. MeterKept(r)
  BY <1>1, <1>2, <1>4, MeterUntouched
<1>11. AuditKept(r)
  BY <1>2, <1>4 DEF AuditInv, Due, AuditKept
<1> QED
  BY <1>2, <1>3, <1>4, <1>8, <1>9, <1>10, <1>11, RequestFrame, MeterKeptInv, AuditKeptInv

LEMMA CallFacts ==
    ASSUME NEW r, NEW conf
    PROVE  CallOf(r, conf).q = Request(r) /\ CallOf(r, conf).conf = conf
BY DEF CallOf

(* What a request uses is the key store of a configuration in force.       *)
LEMMA KindInForce ==
    ASSUME IInv
    PROVE  state.conf.keys \in UsedKinds \cap Kinds
BY DEF IInv, ConfInv, Proposed

LEMMA PutStoreInv ==
    ASSUME IInv, NEW kind \in UsedKinds, NEW name, NEW value, name \in Names \/ value = Keep,
           Put(kind, name, value), setup' = setup, durable' = durable,
           doomed' \subseteq UsedKinds \X Names
    PROVE  StoreInv'
<1> USE DEF IInv
<1>1. UsedKinds' = UsedKinds
  BY SameScenario
<1>2. CASE value = Keep
  BY <1>1, <1>2 DEF StoreInv, Put
<1>3. CASE value # Keep
  <2>1. /\ store' = [store EXCEPT ![kind][name] = value]
        /\ held' = [held EXCEPT ![kind][name] = @ \cup ({value} \ {Nothing})]
        /\ name \in Names
    BY <1>3 DEF Put
  <2>2. /\ DOMAIN store' = UsedKinds /\ DOMAIN held' = UsedKinds
        /\ \A k \in UsedKinds : DOMAIN store'[k] = Names /\ DOMAIN held'[k] = Names
    BY <2>1 DEF StoreInv
  <2>3. ASSUME NEW k \in UsedKinds, NEW n \in Names
        PROVE  {store'[k][n]} \ {Nothing} \subseteq held'[k][n]
    <3>1. CASE k = kind /\ n = name
      BY <2>1, <3>1 DEF StoreInv
    <3>2. CASE ~(k = kind /\ n = name)
      <4>1. store'[k][n] = store[k][n] /\ held'[k][n] = held[k][n]
        BY <2>1, <3>2 DEF StoreInv
      <4> QED
        BY <4>1 DEF StoreInv
    <3> QED
      BY <3>1, <3>2
  <2> QED
    BY <1>1, <2>2, <2>3 DEF StoreInv
<1> QED
  BY <1>2, <1>3

(* A Create of azure or vault has not found the key.                       *)
LEMMA UnwrittenIInv ==
    ASSUME IInv, NEW r \in Reqs, req[r].pc = "handler",
           NEW e, Plausible([q |-> Request(r)], e), e.put # Keep,
           NEW kind \in UsedKinds \cap Kinds, \E c \in req[r].seen : c.keys = kind,
           req' = [req EXCEPT ![r].pc = "write", ![r].used = kind, ![r].effect = e],
           UNCHANGED <<setup, confVars, audit, meter>>, StoreInv', Elsewhere
    PROVE  IInv'
<1> USE DEF IInv
<1> DEFINE rec == [req[r] EXCEPT !.pc = "write", !.used = kind, !.effect = e]
<1>1. req' = [req EXCEPT ![r] = rec] /\ DOMAIN rec = DOMAIN Fresh
  BY DEF RequestInv, Shape
<1> HIDE DEF rec
<1>2. Shape' /\ Others(r) /\ req'[r] = rec
  BY <1>1, Replaced
<1>3. /\ req'[r].pc = "write" /\ req'[r].used = kind /\ req'[r].effect = e
      /\ req'[r].codes = req[r].codes
      /\ req'[r].granted = req[r].granted /\ req'[r].id = req[r].id
      /\ req'[r].panicked = req[r].panicked /\ req'[r].hEnabled = req[r].hEnabled
      /\ req'[r].oEnabled = req[r].oEnabled /\ req'[r].audited = req[r].audited
      /\ req'[r].seen = req[r].seen /\ req'[r].skip = req[r].skip
  BY <1>2, ReqFields DEF RequestInv, Shape, rec
<1>4. Request(r)' = Request(r) /\ Counted(r)' = Counted(r) /\ UsedKinds' = UsedKinds
  BY SameScenario
<1>5. Progress(r)'
  <2>1. Progress(r) /\ req[r].granted /\ ~req[r].panicked /\ req[r].codes = <<>> /\ <<>> # <<200>>
    BY DEF RequestInv, Progress, Called
  <2>2. ~Decided(r)' /\ req'[r].pc \in Called /\ req'[r].pc \notin Early
    BY <1>3 DEF Decided, Called, Early
  <2> QED
    BY <1>3, <1>4, <2>1, <2>2 DEF Progress
<1>6. Met(r)'
  BY <1>3, <1>4 DEF RequestInv, Met, Active, confVars, Elsewhere
<1>7. MeterKept(r)
  BY <1>3, MeterUntouched
<1>8. AuditKept(r)
  BY <1>3 DEF AuditInv, Due, AuditKept
<1>9. Writes(r)'
  BY <1>3, <1>4 DEF Writes
<1> QED
  BY <1>2, <1>3, <1>5, <1>6, <1>7, <1>8, <1>9, RequestFrame, MeterKeptInv, AuditKeptInv

LEMMA CallIInv ==
    ASSUME IInv, NEW r \in Reqs, Call(r), Elsewhere
    PROVE  IInv'
<1> USE DEF IInv
<1> DEFINE x == CallOf(r, state.conf)
           kind == state.conf.keys
           name == Request(r).resource.name
<1>1. /\ req[r].pc = "handler" /\ ~(Paged(x) /\ validPattern(Request(r).resource))
      /\ UNCHANGED <<setup, confVars, durable, audit>>
  BY DEF Call
<1>2. PICK e \in Handler(x) :
          /\ \/ /\ ~Unwritten(kind, e)
                /\ Takes(r, e, kind) \/ (e = Panic /\ Panics(r))
                /\ Put(kind, name, e.put)
             \/ /\ Unwritten(kind, e)
                /\ req' = [req EXCEPT ![r].pc = "write", ![r].used = kind, ![r].effect = e]
                /\ UNCHANGED <<store, held, meter>>
          /\ doomed' = IF (Request(r).api = "deleteKey" /\ validName(Request(r).resource))
                            \/ e.put = Nothing
                       THEN doomed \cup {<<kind, name>>} ELSE doomed
  BY DEF Call
<1>3. x.q = Request(r) /\ x.conf = state.conf
  BY CallFacts
<1> HIDE DEF x
<1>4. kind \in UsedKinds \cap Kinds
  BY KindInForce
<1>5. Request(r).api \in APIs
  BY ScenarioFacts DEF ConfInv
<1>6. Plausible(x, e) /\ Plausible([q |-> Request(r)], e)
  <2>1. Plausible(x, e)
    BY <1>1, <1>3, <1>4, <1>5, HandlerEffects
  <2> QED
    BY <1>3, <2>1 DEF Plausible
<1>7. validName(Request(r).resource) => name \in Names
  BY DEF validName
<1>8. StoreInv'
  <2>1. name \in Names \/ e.put = Keep
    BY <1>3, <1>6, <1>7 DEF Plausible
  <2>2. doomed' \subseteq UsedKinds \X Names
    <3>1. Nothing # Keep
      BY DEF Nothing, Keep, Stored
    <3> QED
      BY <1>2, <1>4, <1>7, <2>1, <3>1 DEF StoreInv
  <2>3. CASE Put(kind, name, e.put)
    BY <1>1, <1>4, <2>1, <2>2, <2>3, PutStoreInv
  <2>4. CASE UNCHANGED <<store, held>>
    BY <1>1, <2>2, <2>4, SameScenario DEF StoreInv
  <2> QED
    BY <1>2, <2>3, <2>4
<1>9. \E c \in req[r].seen : c.keys = kind
  BY <1>1 DEF RequestInv, Met, Active
<1>10. CASE Takes(r, e, kind)
  BY <1>1, <1>3, <1>4, <1>6, <1>8, <1>9, <1>10, TakesIInv
<1>11. CASE Panics(r)
  BY <1>1, <1>8, <1>11, PanicIInv
<1>12. CASE /\ Unwritten(kind, e) /\ UNCHANGED meter
            /\ req' = [req EXCEPT ![r].pc = "write", ![r].used = kind, ![r].effect = e]
  <2>1. e.put # Keep
    BY <1>12 DEF Unwritten
  <2> QED
    BY <1>1, <1>4, <1>6, <1>8, <1>9, <1>12, <2>1, UnwrittenIInv
<1> QED
  BY <1>2, <1>10, <1>11, <1>12

(* It writes it, or is refused.                                            *)
LEMMA WriteIInv ==
    ASSUME IInv, NEW r \in Reqs, Write(r), Elsewhere
    PROVE  IInv'
<1> USE DEF IInv
<1> DEFINE kind == req[r].used
           name == Request(r).resource.name
           x == [q |-> Request(r)]
<1>1. /\ req[r].pc = "write" /\ UNCHANGED <<setup, confVars, durable, doomed, audit>>
      /\ \/ Takes(r, req[r].effect, kind) /\ Put(kind, name, req[r].effect.put)
         \/ Takes(r, LogAndFail(502), kind) /\ UNCHANGED <<store, held>>
  BY DEF Write
<1>2. /\ kind \in UsedKinds \cap Kinds /\ Plausible(x, req[r].effect) /\ req[r].effect.put # Keep
      /\ \E c \in req[r].seen : c.keys = kind
  BY <1>1 DEF RequestInv, Progress, Met, Writes
<1>3. name \in Names /\ x.q = Request(r)
  BY <1>2 DEF Plausible, validName
<1> HIDE DEF x
<1>4. CASE Takes(r, req[r].effect, kind) /\ Put(kind, name, req[r].effect.put)
  <2>1. StoreInv'
    BY <1>1, <1>2, <1>3, <1>4, PutStoreInv DEF StoreInv
  <2> QED
    BY <1>1, <1>2, <1>3, <1>4, <2>1, TakesIInv
<1>5. CASE Takes(r, LogAndFail(502), kind) /\ UNCHANGED <<store, held>>
  <2>1. StoreInv'
    BY <1>1, <1>5, StoreKeptInv DEF keyVars
  <2>2. Plausible(x, LogAndFail(502))
    BY PlausibleFail DEF Codes
  <2> QED
    BY <1>1, <1>2, <1>3, <1>5, <2>1, <2>2, TakesIInv
<1> QED
  BY <1>1, <1>4, <1>5

LEMMA CallPagedIInv ==
    ASSUME IInv, NEW r \in Reqs, CallPaged(r), Elsewhere
    PROVE  IInv'
<1> USE DEF IInv
<1> DEFINE kind == state.conf.keys
           rec == [req[r] EXCEPT !.pc = "page", !.used = kind]
<1>1. /\ req[r].pc = "handler" /\ UNCHANGED <<setup, confVars, keyVars, audit, meter>>
      /\ req' = [req EXCEPT ![r] = rec] /\ DOMAIN rec = DOMAIN Fresh
  BY DEF CallPaged, RequestInv, Shape
<1>2. kind \in UsedKinds \cap Kinds /\ Request(r).api = "listKeys"
  BY KindInForce, CallFacts DEF CallPaged, Paged
<1> HIDE DEF rec
<1>3. Shape' /\ Others(r) /\ req'[r] = rec
  BY <1>1, Replaced
<1>4. /\ req'[r].pc = "page" /\ req'[r].used = kind /\ req'[r].codes = req[r].codes
      /\ req'[r].granted = req[r].granted /\ req'[r].id = req[r].id
      /\ req'[r].panicked = req[r].panicked /\ req'[r].hEnabled = req[r].hEnabled
      /\ req'[r].oEnabled = req[r].oEnabled /\ req'[r].audited = req[r].audited
      /\ req'[r].seen = req[r].seen /\ req'[r].skip = req[r].skip
  BY <1>3, ReqFields DEF RequestInv, Shape, rec
<1>5. Request(r)' = Request(r) /\ Counted(r)' = Counted(r) /\ UsedKinds' = UsedKinds
  BY <1>1, SameScenario
<1>6. Progress(r)'
  BY <1>1, <1>2, <1>4, <1>5 DEF RequestInv, Progress, Early, Called, Decided
<1>7. Met(r)'
  BY <1>1, <1>4, <1>5 DEF RequestInv, Met, Active, confVars, Elsewhere
<1>8. MeterKept(r)
  BY <1>1, <1>4, MeterUntouched
<1>9. AuditKept(r)
  BY <1>1, <1>4 DEF AuditInv, Due, AuditKept
<1> QED
  BY <1>1, <1>3, <1>4, <1>6, <1>7, <1>8, <1>9, QuietStep
(* A listing in pages ends: it uses the key store that it has begun with.  *)
LEMMA PagedTakes ==
    ASSUME IInv, NEW r \in Reqs, req[r].pc = "page", UNCHANGED <<setup, confVars, keyVars, audit>>,
           NEW conf, NEW round, NEW e \in ListEnd(CallOf(r, conf), round) \cup {ListCanceled},
           Takes(r, e, req[r].used), Elsewhere
    PROVE  IInv'
<1> USE DEF IInv
<1> DEFINE x == CallOf(r, conf)
<1>1. x.q = Request(r)
  BY CallFacts
<1> HIDE DEF x
<1>2. Request(r).api = "listKeys"
  BY DEF RequestInv, Progress
<1>3. Plausible(x, e)
  BY <1>1, <1>2, PageEffects DEF x
<1>4. /\ req[r].used \in UsedKinds \cap Kinds
      /\ \E c \in req[r].seen : c.keys = req[r].used
  BY DEF RequestInv, Progress, Met
<1>5. StoreInv'
  BY StoreKeptInv
<1> QED
  BY <1>1, <1>3, <1>4, <1>5, TakesIInv

LEMMA NextPageIInv ==
    ASSUME IInv, NEW r \in Reqs, NextPage(r), Elsewhere
    PROVE  IInv'
<1> USE DEF IInv
<1> DEFINE x == CallOf(r, [state.conf EXCEPT !.keys = req[r].used])
           round == ListRound(x, req[r].page)
<1>1. req[r].pc = "page" /\ UNCHANGED <<setup, confVars, keyVars, audit>>
  BY DEF NextPage
<1>2. CASE req' = [req EXCEPT ![r].page = round] /\ UNCHANGED meter
  <2> HIDE DEF round
  <2> DEFINE rec == [req[r] EXCEPT !.page = round]
  <2>1. req' = [req EXCEPT ![r] = rec] /\ DOMAIN rec = DOMAIN Fresh
    BY <1>2 DEF RequestInv, Shape
  <2> HIDE DEF rec
  <2>2. Shape' /\ Others(r) /\ req'[r] = rec
    BY <1>1, <2>1, Replaced
  <2>3. /\ req'[r].pc = req[r].pc /\ req'[r].used = req[r].used /\ req'[r].codes = req[r].codes
        /\ req'[r].granted = req[r].granted /\ req'[r].id = req[r].id
        /\ req'[r].panicked = req[r].panicked /\ req'[r].hEnabled = req[r].hEnabled
        /\ req'[r].oEnabled = req[r].oEnabled /\ req'[r].audited = req[r].audited
        /\ req'[r].seen = req[r].seen /\ req'[r].skip = req[r].skip
    BY <2>2, ReqFields DEF RequestInv, Shape, rec
  <2>4. Request(r)' = Request(r) /\ Counted(r)' = Counted(r) /\ UsedKinds' = UsedKinds
    BY <1>1, SameScenario
  <2>5. Progress(r)'
    BY <2>3, <2>4 DEF RequestInv, Progress, Decided
  <2>6. Met(r)'
    BY <1>1, <2>3, <2>4 DEF RequestInv, Met, Active, confVars, Elsewhere
  <2>7. MeterKept(r)
    BY <1>1, <1>2, <2>3, MeterUntouched
  <2>8. AuditKept(r)
    BY <1>1, <2>3 DEF AuditInv, Due, AuditKept
  <2> QED
    BY <1>1, <2>2, <2>3, <2>5, <2>6, <2>7, <2>8, QuietStep
<1>3. CASE \E e \in ListEnd(x, round) : Takes(r, e, req[r].used)
  BY <1>1, <1>3, PagedTakes DEF x, round
<1> QED
  BY <1>2, <1>3 DEF NextPage

LEMMA PageCanceledIInv ==
    ASSUME IInv, NEW r \in Reqs, PageCanceled(r), Elsewhere
    PROVE  IInv'
BY PagedTakes DEF PageCanceled

(* A client that leaves, also one that was served until then.              *)
LEMMA ClientLeavesIInv ==
    ASSUME IInv, NEW r \in Reqs, ClientLeaves(r), Elsewhere
    PROVE  IInv'
<1> USE DEF IInv
<1> DEFINE rec == [req[r] EXCEPT !.left = TRUE]
<1>1. /\ req[r].pc \in {"stream", "page"} /\ UNCHANGED <<setup, confVars, keyVars, audit, meter>>
      /\ req' = [req EXCEPT ![r] = rec] /\ DOMAIN rec = DOMAIN Fresh
  BY DEF ClientLeaves, RequestInv, Shape
<1> HIDE DEF rec
<1>2. Shape' /\ Others(r) /\ req'[r] = rec
  BY <1>1, Replaced
<1>3. /\ req'[r].pc = req[r].pc /\ req'[r].used = req[r].used /\ req'[r].codes = req[r].codes
      /\ req'[r].granted = req[r].granted /\ req'[r].id = req[r].id
      /\ req'[r].panicked = req[r].panicked /\ req'[r].hEnabled = req[r].hEnabled
      /\ req'[r].oEnabled = req[r].oEnabled /\ req'[r].audited = req[r].audited
      /\ req'[r].seen = req[r].seen /\ req'[r].skip = req[r].skip
  BY <1>2, ReqFields DEF RequestInv, Shape, rec
<1>4. Request(r)' = Request(r) /\ Counted(r)' = Counted(r) /\ UsedKinds' = UsedKinds
  BY <1>1, SameScenario
<1>5. Progress(r)'
  BY <1>3, <1>4 DEF RequestInv, Progress, Decided
<1>6. Met(r)'
  BY <1>1, <1>3, <1>4 DEF RequestInv, Met, Active, confVars, Elsewhere
<1>7. MeterKept(r)
  BY <1>1, <1>3, MeterUntouched
<1>8. AuditKept(r)
  BY <1>1, <1>3 DEF AuditInv, Due, AuditKept
<1> QED
  BY <1>1, <1>2, <1>3, <1>5, <1>6, <1>7, <1>8, QuietStep

LEMMA UnsubscribeIInv ==
    ASSUME IInv, NEW r \in Reqs, Unsubscribe(r), Elsewhere
    PROVE  IInv'
<1> USE DEF IInv
<1> DEFINE rec == [req[r] EXCEPT !.pc = "done"]
<1>1. /\ req[r].pc = "stream" /\ UNCHANGED <<setup, confVars, keyVars, audit, meter>>
      /\ req' = [req EXCEPT ![r] = rec] /\ DOMAIN rec = DOMAIN Fresh
  BY DEF Unsubscribe, RequestInv, Shape
<1> HIDE DEF rec
<1>2. Shape' /\ Others(r) /\ req'[r] = rec
  BY <1>1, Replaced
<1>3. /\ req'[r].pc = "done" /\ req'[r].used = req[r].used /\ req'[r].codes = req[r].codes
      /\ req'[r].granted = req[r].granted /\ req'[r].id = req[r].id
      /\ req'[r].panicked = req[r].panicked /\ req'[r].hEnabled = req[r].hEnabled
      /\ req'[r].oEnabled = req[r].oEnabled /\ req'[r].audited = req[r].audited
      /\ req'[r].seen = req[r].seen /\ req'[r].skip = req[r].skip
  BY <1>2, ReqFields DEF RequestInv, Shape, rec
<1>4. Request(r)' = Request(r) /\ Counted(r)' = Counted(r) /\ UsedKinds' = UsedKinds
  BY <1>1, SameScenario
<1>5. Progress(r)'
  BY <1>1, <1>3, <1>4 DEF RequestInv, Progress, Decided, Early, Called
<1>6. Met(r)'
  BY <1>1, <1>3, <1>4 DEF RequestInv, Met, Active
<1>7. MeterKept(r)
  BY <1>1, <1>3, MeterUntouched DEF RequestInv, Progress
<1>8. AuditKept(r)
  BY <1>1, <1>3, ScenarioFacts DEF RequestInv, Progress, AuditKept
<1> QED
  BY <1>1, <1>2, <1>3, <1>5, <1>6, <1>7, <1>8, QuietStep
-----------------------------------------------------------------------------
(* Who is subscribed can be counted.                                       *)
LEMMA SubscribersCount ==
    ASSUME IInv, NEW api
    PROVE  Cardinality(Subscribed(api)) \in Nat
BY ScenarioFacts, FS_Subset, FS_CardinalityType DEF IInv, ConfInv, Subscribed

(* An event is counted once for each subscriber, apart from the requests.  *)
LEMMA EventsCounted ==
    ASSUME IInv, NEW r \in Reqs, NEW n \in Nat,
           \/ meter' = meter
           \/ meter' = [meter EXCEPT !.errorEvents = @ + n]
           \/ meter' = [meter EXCEPT !.auditEvents = @ + n],
           req'[r].granted = req[r].granted, req'[r].pc # "done"
    PROVE  MeterKept(r)
<1>1. DOMAIN meter = {"active", "latency", "succeeded", "errored", "failed", "errorEvents",
                      "auditEvents"} /\ meter.errorEvents \in Nat /\ meter.auditEvents \in Nat
  BY DEF IInv, MeterInv
<1>2. CASE meter' = meter
  BY <1>1, <1>2 DEF MeterKept
<1>3. CASE meter' = [meter EXCEPT !.errorEvents = @ + n]
  BY <1>1, <1>3 DEF MeterKept
<1>4. CASE meter' = [meter EXCEPT !.auditEvents = @ + n]
  BY <1>1, <1>4 DEF MeterKept
<1> QED
  BY <1>2, <1>3, <1>4

LEMMA LogErrorIInv ==
    ASSUME IInv, NEW r \in Reqs, LogError(r), Elsewhere
    PROVE  IInv'
<1> USE DEF IInv
<1>1. req[r].pc = "log" /\ UNCHANGED <<setup, confVars, keyVars, audit>>
  BY DEF LogError
<1>2. CASE Panics(r)
  BY <1>1, <1>2, StoreKeptInv, PanicIInv
<1>3. CASE /\ req' = [req EXCEPT ![r].pc = "reply"]
           /\ meter' = IF ErrorOn(IF Request(r).api = "ready" THEN LevelWarn ELSE LevelError)
                       THEN [meter EXCEPT !.errorEvents = @ + Cardinality(Subscribed("logError"))]
                       ELSE meter
  <2> DEFINE rec == [req[r] EXCEPT !.pc = "reply"]
             n == Cardinality(Subscribed("logError"))
  <2>1. /\ req' = [req EXCEPT ![r] = rec] /\ DOMAIN rec = DOMAIN Fresh
    BY <1>3 DEF RequestInv, Shape
  <2>2. n \in Nat
    BY SubscribersCount
  <2> HIDE DEF rec, n
  <2>3. Shape' /\ Others(r) /\ req'[r] = rec
    BY <1>1, <2>1, Replaced
  <2>4. /\ req'[r].pc = "reply" /\ req'[r].used = req[r].used /\ req'[r].codes = req[r].codes
        /\ req'[r].granted = req[r].granted /\ req'[r].id = req[r].id
        /\ req'[r].panicked = req[r].panicked /\ req'[r].hEnabled = req[r].hEnabled
        /\ req'[r].oEnabled = req[r].oEnabled /\ req'[r].audited = req[r].audited
        /\ req'[r].seen = req[r].seen /\ req'[r].skip = req[r].skip
    BY <2>3, ReqFields DEF RequestInv, Shape, rec
  <2>5. Request(r)' = Request(r) /\ Counted(r)' = Counted(r) /\ UsedKinds' = UsedKinds
    BY <1>1, SameScenario
  <2>6. Progress(r)'
    BY <1>1, <2>4, <2>5 DEF RequestInv, Progress, Decided, Early, Called
  <2>7. Met(r)'
    BY <1>1, <2>4, <2>5 DEF RequestInv, Met, Active, confVars, Elsewhere
  <2>8. meter' = meter \/ meter' = [meter EXCEPT !.errorEvents = @ + n]
    BY <1>3 DEF n
  <2>9. MeterKept(r)
    BY <2>2, <2>4, <2>8, EventsCounted
  <2>10. AuditKept(r)
    BY <1>1, <2>4 DEF RequestInv, Progress, AuditKept
  <2> QED
    BY <1>1, <2>3, <2>4, <2>6, <2>7, <2>9, <2>10, QuietStep
<1> QED
  BY <1>2, <1>3 DEF LogError

LEMMA AuditEnabledIInv ==
    ASSUME IInv, NEW r \in Reqs, AuditEnabled(r), Elsewhere
    PROVE  IInv'
<1> USE DEF IInv
<1>1. req[r].pc = "audit" /\ UNCHANGED <<setup, confVars, keyVars, audit>>
  BY DEF AuditEnabled
<1>2. CASE Panics(r)
  BY <1>1, <1>2, StoreKeptInv, PanicIInv
<1>3. CASE ~AuditOn /\ req' = [req EXCEPT ![r].pc = "reply"] /\ UNCHANGED meter
  <2> DEFINE rec == [req[r] EXCEPT !.pc = "reply"]
  <2>1. /\ req' = [req EXCEPT ![r] = rec] /\ DOMAIN rec = DOMAIN Fresh
    BY <1>3 DEF RequestInv, Shape
  <2> HIDE DEF rec
  <2>2. Shape' /\ Others(r) /\ req'[r] = rec
    BY <1>1, <2>1, Replaced
  <2>3. /\ req'[r].pc = "reply" /\ req'[r].used = req[r].used /\ req'[r].codes = req[r].codes
        /\ req'[r].granted = req[r].granted /\ req'[r].id = req[r].id
        /\ req'[r].panicked = req[r].panicked /\ req'[r].hEnabled = req[r].hEnabled
        /\ req'[r].oEnabled = req[r].oEnabled /\ req'[r].audited = req[r].audited
        /\ req'[r].seen = req[r].seen /\ req'[r].skip = req[r].skip
    BY <2>2, ReqFields DEF RequestInv, Shape, rec
  <2>4. Request(r)' = Request(r) /\ Counted(r)' = Counted(r) /\ UsedKinds' = UsedKinds
    BY <1>1, SameScenario
  <2>5. Progress(r)'
    BY <1>1, <2>3, <2>4 DEF RequestInv, Progress, Decided, Early, Called
  <2>6. Met(r)'
    BY <1>1, <2>3, <2>4 DEF RequestInv, Met, Active, confVars, Elsewhere
  <2>7. MeterKept(r)
    BY <1>3, <2>3, MeterUntouched
  <2>8. AuditKept(r)
    <3>1. ~req[r].audited
      BY <1>1, <1>3 DEF AuditInv, Due
    <3> QED
      BY <1>1, <2>3, <3>1 DEF AuditKept
  <2> QED
    BY <1>1, <2>2, <2>3, <2>5, <2>6, <2>7, <2>8, QuietStep
<1>4. ASSUME AuditOn, UNCHANGED meter,
             NEW enabled \in (IF auditH = Torn THEN BOOLEAN ELSE {HandlerEnabled(auditH)}),
             NEW watched \in BOOLEAN,
             req' = [req EXCEPT ![r].pc = IF enabled \/ watched THEN "record" ELSE "reply",
                                ![r].hEnabled = enabled, ![r].oEnabled = watched,
                                ![r].audited = @ /\ auditH # Torn]
      PROVE  IInv'
  <2> DEFINE to == IF enabled \/ watched THEN "record" ELSE "reply"
             still == req[r].audited /\ auditH # Torn
             rec == [req[r] EXCEPT !.pc = to, !.hEnabled = enabled, !.oEnabled = watched,
                                   !.audited = still]
  <2>1. /\ req' = [req EXCEPT ![r] = rec] /\ DOMAIN rec = DOMAIN Fresh
    BY <1>4 DEF RequestInv, Shape
  <2>2. /\ still \in BOOLEAN /\ enabled \in BOOLEAN /\ to \in {"record", "reply"}
        /\ still => req[r].audited /\ enabled = HandlerEnabled(auditH) /\ auditH # Torn
    BY <1>4 DEF HandlerEnabled
  <2>3. still => enabled /\ to = "record"
    BY <1>1, <2>2 DEF AuditInv, Due
  <2> HIDE DEF rec, to, still
  <2>4. Shape' /\ Others(r) /\ req'[r] = rec
    BY <1>1, <2>1, Replaced
  <2>5. /\ req'[r].pc = to /\ req'[r].used = req[r].used /\ req'[r].codes = req[r].codes
        /\ req'[r].granted = req[r].granted /\ req'[r].id = req[r].id
        /\ req'[r].panicked = req[r].panicked /\ req'[r].hEnabled = enabled
        /\ req'[r].oEnabled = watched /\ req'[r].audited = still
        /\ req'[r].seen = req[r].seen /\ req'[r].skip = req[r].skip
    BY <2>4, ReqFields DEF RequestInv, Shape, rec
  <2>6. Request(r)' = Request(r) /\ Counted(r)' = Counted(r) /\ UsedKinds' = UsedKinds
    BY <1>1, SameScenario
  <2>7. Progress(r)'
    BY <1>1, <2>2, <2>5, <2>6 DEF RequestInv, Progress, Decided, Early, Called
  <2>8. Met(r)'
    BY <1>1, <2>2, <2>5, <2>6 DEF RequestInv, Met, Active, confVars, Elsewhere
  <2>9. MeterKept(r)
    BY <1>4, <2>2, <2>5, MeterUntouched
  <2>10. AuditKept(r)
    BY <1>1, <2>2, <2>3, <2>5 DEF AuditKept
  <2> QED
    BY <1>1, <2>2, <2>4, <2>5, <2>7, <2>8, <2>9, <2>10, QuietStep
<1> QED
  BY <1>2, <1>3, <1>4 DEF AuditEnabled
(* The record of a request that had none.                                  *)
LEMMA AppendedInv ==
    ASSUME IInv, NEW r \in Reqs, Others(r), req[r].pc = "record", auditH # Torn,
           audit' = Append(audit, AuditRecord(r)), req'[r].pc = "reply",
           req'[r].granted = req[r].granted, req'[r].id = req[r].id, req'[r].codes = req[r].codes
    PROVE  AuditInv'
<1> USE DEF IInv
<1> DEFINE Records == [of : Reqs, by : AuditHandlers, id : Identities]
           rec == AuditRecord(r)
<1>1. Reqs' = Reqs /\ \A q : Request(q)' = Request(q)
  BY SameScenario DEF Others
<1>2. \A q \in Reqs \ {r} : req'[q] = req[q]
  BY DEF Others
<1>3. UNCHANGED <<auditH, levels>> /\ (AuditOn' <=> AuditOn)
  BY DEF Others, confVars, AuditOn
<1>4. rec \in Records /\ rec.of = r /\ rec.id = req[r].id
  <2>1. auditH \in AuditHandlers /\ req[r].id \in Identities
    BY DEF ConfInv, RequestInv, Progress
  <2> QED
    BY <2>1 DEF AuditRecord
<1>5. audit \in Seq(Records)
  BY DEF AuditInv
<1>6. \A i \in DOMAIN audit : audit[i].of # r
  BY DEF AuditInv, Recorded
<1> HIDE DEF Records, rec
<1>7. /\ audit' \in Seq(Records) /\ Len(audit) \in Nat /\ DOMAIN audit = 1 .. Len(audit)
      /\ DOMAIN audit' = 1 .. Len(audit) + 1
      /\ \A i \in DOMAIN audit : audit'[i] = audit[i]
      /\ audit'[Len(audit) + 1] = rec
  BY <1>4, <1>5 DEF rec
<1>8. \A i, j \in DOMAIN audit' : audit'[i].of = audit'[j].of => i = j
  <2> SUFFICES ASSUME NEW i \in DOMAIN audit', NEW j \in DOMAIN audit', audit'[i].of = audit'[j].of
               PROVE  i = j
    OBVIOUS
  <2>1. /\ i \in DOMAIN audit \/ i = Len(audit) + 1
        /\ j \in DOMAIN audit \/ j = Len(audit) + 1
    BY <1>7
  <2> QED
    BY <1>4, <1>6, <1>7, <2>1 DEF AuditInv
<1>9. ASSUME NEW i \in DOMAIN audit', NEW q \in Reqs, audit'[i].of = q
      PROVE  Recorded(i, q)'
  <2>1. CASE i \in DOMAIN audit
    <3>1. q # r /\ Recorded(i, q)
      BY <1>6, <1>7, <1>9, <2>1 DEF AuditInv
    <3> QED
      BY <1>1, <1>2, <1>7, <2>1, <3>1 DEF Recorded
  <2>2. CASE i = Len(audit) + 1
    <3>1. q = r
      BY <1>4, <1>7, <1>9, <2>2
    <3>2. req[r].granted /\ Request(r).api \in Mutators /\ req[r].codes = <<200>>
      BY DEF RequestInv, Progress, Called
    <3> QED
      BY <1>1, <1>4, <1>7, <2>2, <3>1, <3>2 DEF Recorded
  <2> QED
    BY <1>7, <2>1, <2>2
<1>10. ASSUME NEW q \in Reqs, req'[q].audited
       PROVE  Due(q)'
  <2>1. CASE q # r
    <3>1. Due(q)
      BY <1>2, <1>10, <2>1 DEF AuditInv
    <3>2. \A i \in DOMAIN audit : audit[i].of = q => i \in DOMAIN audit' /\ audit'[i].of = q
      BY <1>7
    <3> QED
      BY <1>1, <1>2, <1>3, <2>1, <3>1, <3>2 DEF Due
  <2>2. CASE q = r
    <3>1. Len(audit) + 1 \in DOMAIN audit' /\ audit'[Len(audit) + 1].of = r
      BY <1>4, <1>7
    <3> QED
      BY <2>2, <3>1 DEF Due
  <2> QED
    BY <2>1, <2>2
<1>11. audit' \in Seq([of : Reqs', by : AuditHandlers, id : Identities])
  BY <1>1, <1>7 DEF Records
<1> QED
  BY <1>1, <1>8, <1>9, <1>10, <1>11 DEF AuditInv

LEMMA AuditHandleIInv ==
    ASSUME IInv, NEW r \in Reqs, AuditHandle(r), Elsewhere
    PROVE  IInv'
<1> USE DEF IInv
<1>1. req[r].pc = "record" /\ UNCHANGED <<setup, confVars, keyVars>>
  BY DEF AuditHandle
<1>2. StoreInv'
  BY <1>1, StoreKeptInv
<1>3. CASE Panics(r) /\ UNCHANGED audit
  BY <1>1, <1>2, <1>3, PanicIInv
<1>4. CASE /\ req' = [req EXCEPT ![r].pc = "reply",
                                ![r].audited = @ /\ (req[r].hEnabled => auditH # Torn)]
           /\ audit' = IF req[r].hEnabled /\ auditH # Torn
                       THEN Append(audit, AuditRecord(r)) ELSE audit
           /\ meter' = IF req[r].oEnabled
                       THEN [meter EXCEPT !.auditEvents = @ + Cardinality(Subscribed("logAudit"))]
                       ELSE meter
  <2> DEFINE still == req[r].audited /\ (req[r].hEnabled => auditH # Torn)
             rec == [req[r] EXCEPT !.pc = "reply", !.audited = still]
             n == Cardinality(Subscribed("logAudit"))
  <2>1. /\ req' = [req EXCEPT ![r] = rec] /\ DOMAIN rec = DOMAIN Fresh
    BY <1>4 DEF RequestInv, Shape
  <2>2. n \in Nat /\ still \in BOOLEAN
    BY SubscribersCount
  <2>3. still => req[r].hEnabled /\ auditH # Torn
    BY <1>1 DEF AuditInv, Due
  <2> HIDE DEF rec, n, still
  <2>4. Shape' /\ Others(r) /\ req'[r] = rec
    BY <1>1, <2>1, Replaced
  <2>5. /\ req'[r].pc = "reply" /\ req'[r].used = req[r].used /\ req'[r].codes = req[r].codes
        /\ req'[r].granted = req[r].granted /\ req'[r].id = req[r].id
        /\ req'[r].panicked = req[r].panicked /\ req'[r].hEnabled = req[r].hEnabled
        /\ req'[r].oEnabled = req[r].oEnabled /\ req'[r].audited = still
        /\ req'[r].seen = req[r].seen /\ req'[r].skip = req[r].skip
    BY <2>4, ReqFields DEF RequestInv, Shape, rec
  <2>6. Request(r)' = Request(r) /\ Counted(r)' = Counted(r) /\ UsedKinds' = UsedKinds
    BY <1>1, SameScenario
  <2>7. Progress(r)'
    BY <1>1, <2>2, <2>5, <2>6 DEF RequestInv, Progress, Decided, Early, Called
  <2>8. Met(r)'
    BY <1>1, <2>5, <2>6 DEF RequestInv, Met, Active, confVars, Elsewhere
  <2>9. MeterInv'
    <3>1. meter' = meter \/ meter' = [meter EXCEPT !.auditEvents = @ + n]
      BY <1>4 DEF n
    <3>2. MeterKept(r)
      BY <2>2, <2>5, <3>1, EventsCounted
    <3> QED
      BY <1>1, <2>4, <3>2, MeterKeptInv
  <2>10. AuditInv'
    <3>1. CASE req[r].hEnabled /\ auditH # Torn
      BY <1>1, <1>4, <2>4, <2>5, <3>1, AppendedInv
    <3>2. CASE ~(req[r].hEnabled /\ auditH # Torn)
      <4>1. AuditKept(r)
        BY <1>1, <1>4, <2>3, <2>5, <3>2 DEF AuditKept
      <4> QED
        BY <1>1, <2>4, <4>1, AuditKeptInv
    <3> QED
      BY <3>1, <3>2
  <2> QED
    BY <1>2, <2>4, <2>5, <2>7, <2>8, <2>9, <2>10, RequestFrame
<1> QED
  BY <1>3, <1>4 DEF AuditHandle

LEMMA SameButOne ==
    ASSUME NEW A, NEW B, NEW r, A \ {r} = B
    PROVE  (r \notin A => A = B) /\ (r \in A => A = B \cup {r})
OBVIOUS

LEMMA CodeClasses ==
    ASSUME NEW c \in Codes
    PROVE  /\ c \in 200 .. (200 + 99) <=> c = 200
           /\ c \in 400 .. (400 + 99) <=> c \in {400, 403, 404, 405, 406, 409}
           /\ c \in 500 .. (500 + 99) <=> c \in {500, 502, 504}
BY DEF Codes

(* One class has one more.                                                 *)
LEMMA Classed ==
    ASSUME MeterInv, NEW m,
           DOMAIN m = {"active", "latency", "succeeded", "errored", "failed", "errorEvents",
                       "auditEvents"},
           m.succeeded = meter.succeeded, m.errored = meter.errored, m.failed = meter.failed,
           m.errorEvents = meter.errorEvents, m.auditEvents = meter.auditEvents,
           m.active = Cardinality(Running'), m.latency = Cardinality(Gone'),
           Cardinality(Class(200)) \in Nat, Cardinality(Class(400)) \in Nat,
           Cardinality(FailedListings) \in Nat, Cardinality(Class(500) \ FailedListings) \in Nat,
           FailedListings' = FailedListings,
           \/ /\ meter' = [m EXCEPT !.succeeded = @ + 1]
              /\ Cardinality(Class(200)') = Cardinality(Class(200)) + 1
              /\ Class(400)' = Class(400) /\ Class(500)' = Class(500)
           \/ /\ meter' = [m EXCEPT !.errored = @ + 1]
              /\ Cardinality(Class(400)') = Cardinality(Class(400)) + 1
              /\ Class(200)' = Class(200) /\ Class(500)' = Class(500)
           \/ /\ meter' = [m EXCEPT !.failed = @ + 1]
              /\ Cardinality((Class(500) \ FailedListings)')
                    = Cardinality(Class(500) \ FailedListings) + 1
              /\ Class(200)' = Class(200) /\ Class(400)' = Class(400)
    PROVE  MeterInv'
<1>1. /\ DOMAIN meter' = DOMAIN m /\ meter'.active = m.active /\ meter'.latency = m.latency
      /\ meter'.errorEvents = m.errorEvents /\ meter'.auditEvents = m.auditEvents
  OBVIOUS
<1>2. /\ meter.succeeded = Cardinality(Class(200)) + Cardinality(FailedListings)
      /\ meter.errored = Cardinality(Class(400))
      /\ meter.failed = Cardinality(Class(500) \ FailedListings)
      /\ meter.errorEvents \in Nat /\ meter.auditEvents \in Nat
  BY DEF MeterInv
<1>3. meter'.succeeded = Cardinality(Class(200)') + Cardinality(FailedListings')
  BY <1>2
<1>4. meter'.errored = Cardinality(Class(400)')
  BY <1>2
<1>5. meter'.failed = Cardinality((Class(500) \ FailedListings)')
  BY <1>2
<1> QED
  BY <1>1, <1>2, <1>3, <1>4, <1>5 DEF MeterInv

(* An answer is counted in the class of its last status code, which is     *)
(* that of the first one unless a listing has failed.                      *)
LEMMA CountedOnce ==
    ASSUME IInv, NEW r \in Reqs, Others(r), req[r].pc = "reply", req'[r].pc = "done",
           req'[r].granted = req[r].granted, req'[r].panicked = req[r].panicked,
           req'[r].codes = req[r].codes,
           meter' = updateMetrics(Leave(meter, r), r, req[r].codes[Len(req[r].codes)])
    PROVE  MeterInv'
<1> USE DEF IInv
<1> DEFINE m == Leave(meter, r)
           codes == req[r].codes
           code == codes[Len(codes)]
<1>1. Reqs' = Reqs /\ \A q : Counted(q)' = Counted(q)
  BY SameScenario DEF Others
<1>2. \A q \in Reqs \ {r} : req'[q] = req[q]
  BY DEF Others
<1>3. /\ DOMAIN m = {"active", "latency", "succeeded", "errored", "failed", "errorEvents",
                     "auditEvents"}
      /\ m.succeeded = meter.succeeded /\ m.errored = meter.errored /\ m.failed = meter.failed
      /\ m.errorEvents = meter.errorEvents /\ m.auditEvents = meter.auditEvents
      /\ m.active = Cardinality(Running') /\ m.latency = Cardinality(Gone')
  <2>1. /\ DOMAIN m = DOMAIN meter
        /\ m.succeeded = meter.succeeded /\ m.errored = meter.errored /\ m.failed = meter.failed
        /\ m.errorEvents = meter.errorEvents /\ m.auditEvents = meter.auditEvents
        /\ IF req[r].granted /\ Counted(r)
           THEN m.active = meter.active - 1 /\ m.latency = meter.latency + 1
           ELSE m.active = meter.active /\ m.latency = meter.latency
    BY LeaveFields
  <2>2. /\ IF req[r].granted /\ Counted(r)
           THEN Cardinality(Running') = meter.active - 1 /\ Cardinality(Gone') = meter.latency + 1
           ELSE Cardinality(Running') = meter.active /\ Cardinality(Gone') = meter.latency
    BY LeaveSets
  <2> HIDE DEF m
  <2>3. m.active = Cardinality(Running') /\ m.latency = Cardinality(Gone')
    BY <2>1, <2>2
  <2> QED
    BY <2>1, <2>3 DEF MeterInv
<1>4. req[r].granted /\ ~req[r].panicked /\ codes \in {<<502, 200>>} \cup {<<c>> : c \in Codes}
  BY DEF RequestInv, Progress, Called, Decided
<1> HIDE DEF m
<1>5. /\ IsFiniteSet(Class(200)) /\ IsFiniteSet(Class(400)) /\ IsFiniteSet(Class(500))
      /\ IsFiniteSet(FailedListings) /\ IsFiniteSet(Class(500) \ FailedListings)
      /\ r \notin Class(200) /\ r \notin Class(400) /\ r \notin Class(500)
      /\ r \notin FailedListings
  <2>1. IsFiniteSet(Reqs)
    BY ScenarioFacts DEF ConfInv
  <2>2. \A lo : Class(lo) \subseteq Reqs /\ r \notin Class(lo)
    BY DEF Class
  <2>3. FailedListings \subseteq Class(500)
    BY DEF FailedListings
  <2> QED
    BY <2>1, <2>2, <2>3, FS_Subset
<1>6. /\ Cardinality(Class(200)) \in Nat /\ Cardinality(Class(400)) \in Nat
      /\ Cardinality(FailedListings) \in Nat /\ Cardinality(Class(500) \ FailedListings) \in Nat
  BY <1>5, FS_CardinalityType
<1>7. \A lo : /\ Class(lo)' \ {r} = Class(lo)
              /\ r \in Class(lo)' <=> Counted(r) /\ codes[1] \in lo .. (lo + 99)
  <2> SUFFICES ASSUME NEW lo
               PROVE  /\ Class(lo)' \ {r} = Class(lo)
                      /\ r \in Class(lo)' <=> Counted(r) /\ codes[1] \in lo .. (lo + 99)
    OBVIOUS
  <2>1. ASSUME NEW q \in Reqs \ {r}
        PROVE  q \in Class(lo)' <=> q \in Class(lo)
    BY <1>1, <1>2, <2>1 DEF Class
  <2>2. Class(lo)' \subseteq Reqs /\ Class(lo) \subseteq Reqs /\ r \notin Class(lo)
    BY <1>1 DEF Class
  <2>3. r \in Class(lo)' <=> Counted(r) /\ codes[1] \in lo .. (lo + 99)
    BY <1>1, <1>4 DEF Class
  <2> QED
    BY <2>1, <2>2, <2>3
<1>8. /\ FailedListings' \ {r} = FailedListings
      /\ r \in FailedListings' <=> r \in Class(500)' /\ Len(codes) = 2
  <2>1. Class(500)' \ {r} = Class(500) /\ Class(500) \subseteq Reqs
    <3>1. Class(500) \subseteq Reqs
      BY DEF Class
    <3> QED
      BY <1>7, <3>1
  <2> QED
    BY <1>2, <2>1, SMTT(30) DEF FailedListings
<1>9. CASE ~Counted(r)
  <2>1. meter' = m
    BY <1>9 DEF updateMetrics, m
  <2>2. (\A lo : Class(lo)' = Class(lo)) /\ FailedListings' = FailedListings
    BY <1>7, <1>8, <1>9
  <2> QED
    BY <1>3, <2>1, <2>2 DEF MeterInv
<1>10. CASE Counted(r) /\ codes = <<502, 200>>
  <2>1. code = 200 /\ codes[1] = 502 /\ Len(codes) = 2
    BY <1>10
  <2>2. meter' = [m EXCEPT !.succeeded = @ + 1]
    BY <1>10, <2>1 DEF updateMetrics, m
  <2>3. Class(200)' = Class(200) /\ Class(400)' = Class(400) /\ r \in Class(500)'
    BY <1>7, <1>10, <2>1
  <2>4. FailedListings' = FailedListings \cup {r} /\ (Class(500) \ FailedListings)' = Class(500) \ FailedListings
    BY <1>7, <1>8, <2>1, <2>3
  <2>5. Cardinality(FailedListings') = Cardinality(FailedListings) + 1
    <3>1. Cardinality(FailedListings \cup {r}) = Cardinality(FailedListings) + 1
      BY <1>5, FS_AddElement
    <3> QED
      BY <2>4, <3>1
  <2> QED
    BY <1>3, <1>6, <2>2, <2>3, <2>4, <2>5 DEF MeterInv
<1>11. CASE Counted(r) /\ codes # <<502, 200>>
  <2>1. PICK c \in Codes : codes = <<c>>
    BY <1>4, <1>11
  <2>2. code = c /\ codes[1] = c /\ Len(codes) = 1
    BY <2>1
  <2>3. FailedListings' = FailedListings
    BY <1>5, <1>8, <2>2
  <2> HIDE DEF codes, code
  <2>4. \A lo : r \in Class(lo)' <=> c \in lo .. (lo + 99)
    <3> SUFFICES ASSUME NEW lo PROVE r \in Class(lo)' <=> c \in lo .. (lo + 99)
      OBVIOUS
    <3>1. r \in Class(lo)' <=> codes[1] \in lo .. (lo + 99)
      BY <1>7, <1>11
    <3> QED
      BY <2>2, <3>1
  <2>5. Class(200)' = IF c = 200 THEN Class(200) \cup {r} ELSE Class(200)
    <3>1. r \in Class(200)' <=> c \in 200 .. (200 + 99)
      BY <2>4
    <3>2. c \in 200 .. (200 + 99) <=> c = 200
      BY CodeClasses
    <3>3. Class(200)' \ {r} = Class(200)
      BY <1>7
    <3>4. CASE c = 200
      BY <3>1, <3>2, <3>3, <3>4, SameButOne
    <3>5. CASE ~(c = 200)
      <4>1. r \notin Class(200)'
        BY <3>1, <3>2, <3>5
      <4>2. Class(200)' = Class(200)
        BY <3>3, <4>1, SameButOne
      <4> QED
        BY <3>5, <4>2
    <3> QED
      BY <3>4, <3>5
  <2>6. Class(400)' = IF c \in {400, 403, 404, 405, 406, 409} THEN Class(400) \cup {r} ELSE Class(400)
    <3>1. r \in Class(400)' <=> c \in 400 .. (400 + 99)
      BY <2>4
    <3>2. c \in 400 .. (400 + 99) <=> c \in {400, 403, 404, 405, 406, 409}
      BY CodeClasses
    <3>3. Class(400)' \ {r} = Class(400)
      BY <1>7
    <3>4. CASE c \in {400, 403, 404, 405, 406, 409}
      BY <3>1, <3>2, <3>3, <3>4, SameButOne
    <3>5. CASE ~(c \in {400, 403, 404, 405, 406, 409})
      <4>1. r \notin Class(400)'
        BY <3>1, <3>2, <3>5
      <4>2. Class(400)' = Class(400)
        BY <3>3, <4>1, SameButOne
      <4> QED
        BY <3>5, <4>2
    <3> QED
      BY <3>4, <3>5
  <2>7. Class(500)' = IF c \in {500, 502, 504} THEN Class(500) \cup {r} ELSE Class(500)
    <3>1. r \in Class(500)' <=> c \in 500 .. (500 + 99)
      BY <2>4
    <3>2. c \in 500 .. (500 + 99) <=> c \in {500, 502, 504}
      BY CodeClasses
    <3>3. Class(500)' \ {r} = Class(500)
      BY <1>7
    <3>4. CASE c \in {500, 502, 504}
      BY <3>1, <3>2, <3>3, <3>4, SameButOne
    <3>5. CASE ~(c \in {500, 502, 504})
      <4>1. r \notin Class(500)'
        BY <3>1, <3>2, <3>5
      <4>2. Class(500)' = Class(500)
        BY <3>3, <4>1, SameButOne
      <4> QED
        BY <3>5, <4>2
    <3> QED
      BY <3>4, <3>5
  <2>8. CASE c = 200
    <3>1. meter' = [m EXCEPT !.succeeded = @ + 1]
      BY <1>11, <2>2, <2>8 DEF code, codes, updateMetrics, m
    <3>2. Class(200)' = Class(200) \cup {r} /\ Class(400)' = Class(400) /\ Class(500)' = Class(500)
      BY <2>5, <2>6, <2>7, <2>8
    <3>3. Cardinality(Class(200)') = Cardinality(Class(200)) + 1
      BY <1>5, <3>2, FS_AddElement
    <3> QED
      BY <1>3, <1>6, <2>3, <3>1, <3>2, <3>3, Classed, Zenon
  <2>9. CASE c \in {400, 403, 404, 405, 406, 409}
    <3>1. meter' = [m EXCEPT !.errored = @ + 1]
      BY <1>11, <2>2, <2>9 DEF code, codes, updateMetrics, m
    <3>2. Class(200)' = Class(200) /\ Class(400)' = Class(400) \cup {r} /\ Class(500)' = Class(500)
      BY <2>5, <2>6, <2>7, <2>9
    <3>3. Cardinality(Class(400)') = Cardinality(Class(400)) + 1
      BY <1>5, <3>2, FS_AddElement
    <3> QED
      BY <1>3, <1>6, <2>3, <3>1, <3>2, <3>3, Classed, Zenon
  <2>10. CASE c \in {500, 502, 504}
    <3>1. meter' = [m EXCEPT !.failed = @ + 1]
      BY <1>11, <2>2, <2>10 DEF code, codes, updateMetrics, m
    <3>2. Class(200)' = Class(200) /\ Class(400)' = Class(400) /\ Class(500)' = Class(500) \cup {r}
      BY <2>5, <2>6, <2>7, <2>10
    <3>3. (Class(500) \ FailedListings)' = (Class(500) \ FailedListings) \cup {r}
      BY <1>5, <2>3, <3>2
    <3>4. Cardinality((Class(500) \ FailedListings)') = Cardinality(Class(500) \ FailedListings) + 1
      <4> DEFINE S == Class(500) \ FailedListings
      <4>1. r \notin S /\ IsFiniteSet(S) /\ S' = S \cup {r}
        BY <1>5, <3>3
      <4> HIDE DEF S
      <4>2. Cardinality(S \cup {r}) = Cardinality(S) + 1
        BY <4>1, FS_AddElement
      <4>3. Cardinality(S') = Cardinality(S) + 1
        BY <4>1, <4>2
      <4> QED
        BY <4>3 DEF S
    <3> QED
      BY <1>3, <1>6, <2>3, <3>1, <3>2, <3>4, Classed, Zenon
  <2> QED
    BY <2>8, <2>9, <2>10 DEF Codes
<1> QED
  BY <1>9, <1>10, <1>11, ScenarioFacts DEF ConfInv

LEMMA ReplyIInv ==
    ASSUME IInv, NEW r \in Reqs, Reply(r), Elsewhere
    PROVE  IInv'
<1> USE DEF IInv
<1> DEFINE rec == [req[r] EXCEPT !.pc = "done"]
           creates == Request(r).api \in {"createKey", "importKey"} /\ req[r].codes = <<200>>
           at == <<req[r].used, Request(r).resource.name>>
<1>1. /\ req[r].pc = "reply" /\ UNCHANGED <<setup, confVars, store, held, doomed, audit>>
      /\ req' = [req EXCEPT ![r] = rec] /\ DOMAIN rec = DOMAIN Fresh
      /\ meter' = updateMetrics(Leave(meter, r), r, req[r].codes[Len(req[r].codes)])
      /\ durable' = IF creates THEN durable \cup {at} ELSE durable
  BY DEF Reply, RequestInv, Shape
<1> HIDE DEF rec
<1>2. Shape' /\ Others(r) /\ req'[r] = rec
  BY <1>1, Replaced
<1>3. /\ req'[r].pc = "done" /\ req'[r].used = req[r].used /\ req'[r].codes = req[r].codes
      /\ req'[r].granted = req[r].granted /\ req'[r].id = req[r].id
      /\ req'[r].panicked = req[r].panicked /\ req'[r].hEnabled = req[r].hEnabled
      /\ req'[r].oEnabled = req[r].oEnabled /\ req'[r].audited = req[r].audited
      /\ req'[r].seen = req[r].seen /\ req'[r].skip = req[r].skip
  BY <1>2, ReqFields DEF RequestInv, Shape, rec
<1>4. Request(r)' = Request(r) /\ Counted(r)' = Counted(r) /\ UsedKinds' = UsedKinds
  BY <1>1, SameScenario
<1>5. Progress(r)'
  BY <1>1, <1>3, <1>4 DEF RequestInv, Progress, Decided, Early, Called
<1>6. Met(r)'
  BY <1>1, <1>3, <1>4 DEF RequestInv, Met, Active
<1>7. MeterInv'
  BY <1>1, <1>2, <1>3, CountedOnce
<1>8. AuditInv'
  <2>1. AuditKept(r)
    BY <1>1, <1>3 DEF AuditKept
  <2> QED
    BY <1>1, <1>2, <2>1, AuditKeptInv
<1>9. StoreInv'
  <2>1. creates => at \in UsedKinds \X Names
    BY <1>1 DEF RequestInv, Progress, Called, Decided, Mutators, validName
  <2> QED
    BY <1>1, <1>4, <2>1 DEF StoreInv
<1> QED
  BY <1>2, <1>3, <1>5, <1>6, <1>7, <1>8, <1>9, RequestFrame
-----------------------------------------------------------------------------
(***************************************************************************)
(* The steps of the Update methods and of cmd/kes.  For a request they do  *)
(* two things only: it meets another configuration, and it need not be     *)
(* audited any more.                                                       *)
(***************************************************************************)
Follows(r) ==
    /\ DOMAIN req'[r] = DOMAIN Fresh
    /\ req'[r].pc = req[r].pc /\ req'[r].skip = req[r].skip /\ req'[r].id = req[r].id
    /\ req'[r].used = req[r].used /\ req'[r].codes = req[r].codes
    /\ req'[r].effect = req[r].effect
    /\ req'[r].hEnabled = req[r].hEnabled /\ req'[r].oEnabled = req[r].oEnabled
    /\ req'[r].granted = req[r].granted /\ req'[r].panicked = req[r].panicked
    /\ req[r].seen \subseteq req'[r].seen
    /\ req'[r].audited \in BOOLEAN /\ (req'[r].audited => req[r].audited)

(* Whatever is announced now, every request has met.                       *)
Meeting ==
    /\ state'.conf = state.conf \/ (upc \in Announced /\ state'.conf = target)
    /\ upc' \in Announced => \/ upc \in Announced /\ target' = target
                             \/ \A r \in Reqs : target' \in req'[r].seen

(* Who is still to be audited can be.                                      *)
AuditStays ==
    \A r \in Reqs :
        req'[r].audited /\ AuditOn /\ (auditH = Torn \/ HandlerEnabled(auditH)) =>
            AuditOn' /\ (auditH' = Torn \/ HandlerEnabled(auditH'))

LEMMA Behind ==
    ASSUME IInv, setup' = setup, req' = [r \in Reqs |-> req'[r]], \A r \in Reqs : Follows(r),
           UNCHANGED <<audit, meter>>, Meeting, AuditStays
    PROVE  RequestInv' /\ AuditInv' /\ MeterInv'
<1> USE DEF IInv
<1>1. /\ Reqs' = Reqs /\ UsedKinds' = UsedKinds
      /\ \A q : Request(q)' = Request(q) /\ Counted(q)' = Counted(q)
  BY SameScenario
<1>2. ASSUME NEW r \in Reqs
      PROVE  Progress(r)' /\ Met(r)' /\ Writes(r)'
  <2>1. Progress(r) /\ Met(r) /\ Writes(r)
    BY DEF RequestInv
  <2>2. Follows(r)
    OBVIOUS
  <2>3. Progress(r)'
    BY <1>1, <2>1, <2>2 DEF Progress, Decided, Follows
  <2>4. Met(r)'
    BY <1>1, <2>1, <2>2 DEF Met, Active, Follows, Meeting
  <2>5. Writes(r)'
    BY <1>1, <2>1, <2>2 DEF Writes, Follows
  <2> QED
    BY <2>3, <2>4, <2>5
<1>3. RequestInv'
  BY <1>1, <1>2 DEF RequestInv, Shape, Follows
<1>4. AuditInv'
  <2>1. ASSUME NEW i \in DOMAIN audit, NEW r \in Reqs, audit[i].of = r
        PROVE  Recorded(i, r)'
    <3>1. Recorded(i, r) /\ Follows(r)
      BY <2>1 DEF AuditInv
    <3> QED
      BY <1>1, <3>1 DEF Recorded, Follows
  <2>2. ASSUME NEW r \in Reqs, req'[r].audited
        PROVE  Due(r)'
    <3>1. Follows(r) /\ Due(r)
      BY <2>2 DEF AuditInv, Follows
    <3>2. AuditOn /\ (auditH = Torn \/ HandlerEnabled(auditH)) =>
              AuditOn' /\ (auditH' = Torn \/ HandlerEnabled(auditH'))
      BY <2>2 DEF AuditStays
    <3> QED
      BY <1>1, <3>1, <3>2 DEF Due, Follows
  <2>3. /\ audit' \in Seq([of : Reqs', by : AuditHandlers, id : Identities])
        /\ \A i, j \in DOMAIN audit' : audit'[i].of = audit'[j].of => i = j
    BY <1>1 DEF AuditInv
  <2> QED
    BY <1>1, <2>1, <2>2, <2>3 DEF AuditInv
<1>5. MeterInv'
  <2>1. \A r \in Reqs : /\ req'[r].pc = req[r].pc /\ req'[r].granted = req[r].granted
                        /\ req'[r].panicked = req[r].panicked /\ req'[r].codes = req[r].codes
    BY DEF Follows
  <2>2. Running' = Running
    BY <1>1, <2>1 DEF Running
  <2>3. Gone' = Gone
    BY <1>1, <2>1 DEF Gone, Finished
  <2>4. \A lo : Class(lo)' = Class(lo)
    BY <1>1, <2>1 DEF Class
  <2>5. FailedListings' = FailedListings
    <3>1. Class(500)' = Class(500) /\ Class(500) \subseteq Reqs
      BY <2>4 DEF Class
    <3> QED
      BY <2>1, <3>1 DEF FailedListings
  <2> QED
    BY <2>2, <2>3, <2>4, <2>5 DEF MeterInv
<1> QED
  BY <1>3, <1>4, <1>5

(* No request notices anything.                                            *)
LEMMA Unnoticed ==
    ASSUME IInv, UNCHANGED <<setup, req, audit, meter, auditH, levels>>, Meeting
    PROVE  RequestInv' /\ AuditInv' /\ MeterInv'
<1>1. req' = [r \in Reqs |-> req'[r]] /\ \A r \in Reqs : Follows(r)
  BY DEF IInv, RequestInv, Shape, Progress, Follows
<1>2. AuditStays
  BY DEF AuditStays, AuditOn
<1> QED
  BY <1>1, <1>2, Behind

LEMMA AnnounceFollows ==
    ASSUME IInv, NEW conf, Announce(conf)
    PROVE  /\ req' = [r \in Reqs |-> req'[r]] /\ \A r \in Reqs : Follows(r) /\ conf \in req'[r].seen
<1> USE DEF IInv
<1>1. req' = [r \in Reqs |-> req'[r]]
  BY DEF Announce
<1>2. ASSUME NEW r \in Reqs
      PROVE  Follows(r) /\ conf \in req'[r].seen
  <2> DEFINE met == req[r].seen \cup {conf}
  <2>1. req'[r] = [req[r] EXCEPT !.seen = met]
    BY DEF Announce
  <2>2. DOMAIN req[r] = DOMAIN Fresh /\ req[r].audited \in BOOLEAN
    BY DEF RequestInv, Shape, Progress
  <2>3. req[r].seen \subseteq met /\ conf \in met
    OBVIOUS
  <2> HIDE DEF met
  <2> QED
    BY <2>1, <2>2, <2>3, ReqFields DEF Follows
<1> QED
  BY <1>1, <1>2

LEMMA StillAuditedFollows ==
    ASSUME IInv, NEW on \in BOOLEAN, StillAudited(on)
    PROVE  /\ req' = [r \in Reqs |-> req'[r]]
           /\ \A r \in Reqs : Follows(r) /\ (req'[r].audited => on)
<1> USE DEF IInv
<1>1. req' = [r \in Reqs |-> req'[r]]
  BY DEF StillAudited
<1>2. ASSUME NEW r \in Reqs
      PROVE  Follows(r) /\ (req'[r].audited => on)
  <2> DEFINE still == req[r].audited /\ on
  <2>1. req'[r] = [req[r] EXCEPT !.audited = still]
    BY DEF StillAudited
  <2>2. DOMAIN req[r] = DOMAIN Fresh /\ req[r].audited \in BOOLEAN
    BY DEF RequestInv, Shape, Progress
  <2>3. still \in BOOLEAN /\ (still => req[r].audited) /\ (still => on)
    OBVIOUS
  <2> HIDE DEF still
  <2> QED
    BY <2>1, <2>2, <2>3, ReqFields DEF Follows
<1> QED
  BY <1>1, <1>2

(* Keys that were missing are there.                                       *)
LEMMA PredefinedInv ==
    ASSUME IInv, NEW conf, conf.keys \in UsedKinds, NEW names, createPredefinedKeys(conf, names),
           UNCHANGED <<setup, durable, doomed>>
    PROVE  StoreInv'
<1> USE DEF IInv
<1> DEFINE new == {n \in names : store[conf.keys][n] = Nothing}
           key(n) == PredefinedKey(conf, n)
           k == conf.keys
<1>1. /\ store' = [store EXCEPT ![k] = [n \in Names |-> IF n \in new THEN key(n) ELSE @[n]]]
      /\ held' = [held EXCEPT ![k] = [n \in Names |-> IF n \in new THEN @[n] \cup {key(n)} ELSE @[n]]]
  BY DEF createPredefinedKeys
<1> HIDE DEF new, key
<1>2. /\ DOMAIN store' = UsedKinds /\ DOMAIN held' = UsedKinds
      /\ store'[k] = [n \in Names |-> IF n \in new THEN key(n) ELSE store[k][n]]
      /\ held'[k] = [n \in Names |-> IF n \in new THEN held[k][n] \cup {key(n)} ELSE held[k][n]]
      /\ \A j \in UsedKinds \ {k} : store'[j] = store[j] /\ held'[j] = held[j]
  BY <1>1 DEF StoreInv
<1>3. \A j \in UsedKinds : DOMAIN store'[j] = Names /\ DOMAIN held'[j] = Names
  BY <1>2 DEF StoreInv
<1>4. ASSUME NEW j \in UsedKinds, NEW n \in Names
      PROVE  {store'[j][n]} \ {Nothing} \subseteq held'[j][n]
  <2>1. {store[j][n]} \ {Nothing} \subseteq held[j][n]
    BY DEF StoreInv
  <2>2. CASE j = k /\ n \in new
    <3>1. store'[j][n] = key(n) /\ held'[j][n] = held[j][n] \cup {key(n)}
      BY <1>2, <2>2
    <3> QED
      BY <3>1
  <2>3. CASE j # k \/ n \notin new
    BY <1>2, <2>1, <2>3
  <2> QED
    BY <2>2, <2>3
<1> QED
  BY <1>2, <1>3, <1>4, SameScenario DEF StoreInv
LEMMA StartIInv ==
    ASSUME IInv, Start
    PROVE  IInv'
<1> USE DEF IInv
<1>1. /\ up = "starting" /\ UNCHANGED <<setup, state, handler, tls, auditH, levels, inForce>>
      /\ UNCHANGED <<durable, doomed, req, audit, meter, upc, target>>
      /\ UNCHANGED <<disk, pending, sent, asked, loaded, outcome, early>>
  BY DEF Start, daemonVars
<1>2. /\ UsedKinds' = UsedKinds /\ Files' = Files /\ (Daemon' <=> Daemon) /\ (Whole' <=> Whole)
      /\ \A c : (Proposed(c)' <=> Proposed(c)) /\ (Accepted(c)' <=> Accepted(c))
  BY <1>1, SameScenario
<1>3. RequestInv' /\ AuditInv' /\ MeterInv'
  BY <1>1, Unnoticed DEF Meeting
<1>4. DiskInv'
  BY <1>1, <1>2 DEF DiskInv
<1>5. \/ up' = "dead" /\ UNCHANGED <<store, held>>
      \/ /\ up' = "up" /\ initPoliciesOK(state.conf.policies)
         /\ createPredefinedKeys(state.conf, state.conf.predefined)
  BY DEF Start
<1>6. StoreInv'
  BY <1>1, <1>2, <1>5, PredefinedInv, KindInForce DEF StoreInv
<1>7. inForce = {state.conf} /\ Daemon
  BY <1>1 DEF ConfInv
<1>8. ConfInv'
  <2>1. \A c \in inForce' : Proposed(c)' /\ c.keys \in Kinds /\ (up' = "up" => Accepted(c)')
    BY <1>1, <1>2, <1>5, <1>7 DEF ConfInv, Accepted
  <2> QED
    BY <1>1, <1>2, <1>5, <1>7, <2>1 DEF ConfInv
<1>9. UpdateInv'
  BY <1>1, <1>2, <1>5 DEF UpdateInv
<1> QED
  BY <1>3, <1>4, <1>6, <1>8, <1>9

(* Steps that do not touch the server.                                     *)
LEMMA Outside ==
    ASSUME IInv, UNCHANGED <<requestVars, upc, target>>, DiskInv'
    PROVE  IInv'
<1> USE DEF IInv
<1>1. /\ UNCHANGED <<setup, up, state, handler, tls, auditH, levels, inForce, keyVars>>
      /\ UNCHANGED <<req, audit, meter>>
  BY DEF requestVars, confVars
<1>2. /\ (Daemon' <=> Daemon) /\ (Whole' <=> Whole)
      /\ \A c : (Proposed(c)' <=> Proposed(c)) /\ (Accepted(c)' <=> Accepted(c))
  BY <1>1, SameScenario
<1>3. RequestInv' /\ AuditInv' /\ MeterInv'
  BY <1>1, Unnoticed DEF Meeting
<1>4. ConfInv'
  BY <1>1, <1>2 DEF ConfInv
<1>5. UpdateInv'
  BY <1>1, <1>2 DEF UpdateInv
<1> QED
  BY <1>1, <1>3, <1>4, <1>5, StoreKeptInv

LEMMA EditFileIInv ==
    ASSUME IInv, EditFile
    PROVE  IInv'
<1> USE DEF IInv
<1>1. /\ Daemon /\ disk < Len(Files) /\ disk' = disk + 1
      /\ UNCHANGED <<requestVars, upc, target, pending, sent, asked, loaded, outcome, early>>
  BY DEF EditFile
<1>2. setup' = setup
  BY <1>1 DEF requestVars
<1>3. Files' = Files /\ (Daemon' <=> Daemon)
  BY <1>2, SameScenario
<1>4. DOMAIN Files = 1 .. Len(Files) /\ Len(Files) \in Nat
  <2>1. setup \in Scenarios /\ setup.update.method = "SIGHUP"
    BY <1>1 DEF ConfInv, Daemon, Method
  <2> QED
    BY <2>1, ScenariosAssumption DEF Files
<1>5. DiskInv'
  BY <1>1, <1>2, <1>3, <1>4 DEF DiskInv
<1> QED
  BY <1>1, <1>5, Outside

LEMMA SignalIInv ==
    ASSUME IInv, Signal
    PROVE  IInv'
<1> USE DEF IInv
<1>1. /\ Daemon /\ sent < setup.signals /\ sent' = sent + 1
      /\ pending' = IF pending < SigCap THEN pending + 1 ELSE pending
      /\ asked' = disk /\ early' = (early \/ up = "starting")
      /\ UNCHANGED <<requestVars, upc, target, disk, loaded, outcome>>
  BY DEF Signal
<1>2. setup' = setup
  BY <1>1 DEF requestVars
<1>3. Files' = Files /\ (Daemon' <=> Daemon)
  BY <1>2, SameScenario
<1>4. setup.signals \in Nat
  BY ScenariosAssumption DEF ConfInv
<1>5. early' \in BOOLEAN
  BY <1>1, Zenon
<1>6. DiskInv'
  BY <1>1, <1>2, <1>3, <1>4, <1>5 DEF DiskInv, SigCap
<1> QED
  BY <1>1, <1>6, Outside

(* The server dies.                                                        *)
LEMMA DiesIInv ==
    ASSUME IInv, Daemon, Dies, UNCHANGED <<upc, target>>, DiskInv'
    PROVE  IInv'
<1> USE DEF IInv
<1>1. /\ up' = "dead" /\ UNCHANGED <<setup, state, handler, tls, auditH, levels, inForce, keyVars>>
      /\ UNCHANGED <<req, audit, meter>>
  BY DEF Dies
<1>2. /\ (Daemon' <=> Daemon) /\ (Whole' <=> Whole)
      /\ \A c : (Proposed(c)' <=> Proposed(c)) /\ (Accepted(c)' <=> Accepted(c))
  BY <1>1, SameScenario
<1>3. RequestInv' /\ AuditInv' /\ MeterInv'
  BY <1>1, Unnoticed DEF Meeting
<1>4. ConfInv'
  BY <1>1, <1>2 DEF ConfInv
<1>5. UpdateInv'
  BY <1>1, <1>2 DEF UpdateInv
<1> QED
  BY <1>1, <1>3, <1>4, <1>5, StoreKeptInv

(* Steps of an Update before it is announced and after it has returned.    *)
LEMMA Aside ==
    ASSUME IInv, UNCHANGED requestVars, upc \notin Announced, upc' \notin Announced,
           UpdateInv', DiskInv'
    PROVE  IInv'
<1> USE DEF IInv
<1>1. /\ UNCHANGED <<setup, up, state, handler, tls, auditH, levels, inForce, keyVars>>
      /\ UNCHANGED <<req, audit, meter>>
  BY DEF requestVars, confVars
<1>2. /\ (Daemon' <=> Daemon) /\ (Whole' <=> Whole)
      /\ \A c : (Proposed(c)' <=> Proposed(c)) /\ (Accepted(c)' <=> Accepted(c))
  BY <1>1, SameScenario
<1>3. RequestInv' /\ AuditInv' /\ MeterInv'
  BY <1>1, Unnoticed DEF Meeting
<1>4. ConfInv'
  BY <1>1, <1>2 DEF ConfInv, Announced
<1> QED
  BY <1>1, <1>3, <1>4, StoreKeptInv
LEMMA ReloadReadIInv ==
    ASSUME IInv, ReloadRead
    PROVE  IInv'
<1> USE DEF IInv
<1> DEFINE y == Files[disk]
<1>1. /\ upc = "idle" /\ pending > 0 /\ pending' = pending - 1 /\ loaded' = disk
      /\ UNCHANGED <<disk, sent, asked, tick>> /\ early' = early
  BY DEF ReloadRead
<1>2. Daemon /\ disk \in DOMAIN Files /\ IsFile(y) /\ Whole
  BY <1>1, ScenarioFacts DEF DiskInv, ConfInv, Daemon, Whole
<1>3. setup' = setup
  BY DEF ReloadRead, requestVars, Dies
<1>4. /\ Files' = Files /\ (Daemon' <=> Daemon) /\ (Whole' <=> Whole)
      /\ \A c : (Proposed(c)' <=> Proposed(c)) /\ (Accepted(c)' <=> Accepted(c))
  BY <1>3, SameScenario
<1>5. CASE /\ ReadFile(y).ok /\ upc' = "connect"
           /\ target' = [ConfigOf(y) EXCEPT !.audit = state.conf.audit]
           /\ UNCHANGED <<requestVars, made, outcome>>
  <2>1. DiskInv'
    BY <1>1, <1>2, <1>3, <1>4, <1>5 DEF DiskInv
  <2>2. state.conf.audit \in AuditHandlers
    BY DEF ConfInv, Proposed
  <2>3. /\ IsConf(target') /\ target'.audit = state.conf.audit
        /\ target'.keys = ymlToKeyStore(y).kind /\ Careful(target')
    BY <1>2, <1>5, <2>2, FileConf
  <2>4. ymlToKeyStore(y).kind \in UsedKinds
    BY <1>2, <1>5 DEF UsedKinds
  <2>5. Proposed(target')
    BY <2>2, <2>3, <2>4 DEF Proposed
  <2>6. UpdateInv'
    BY <1>1, <1>2, <1>4, <1>5, <2>5 DEF UpdateInv, Checked, Announced
  <2> QED
    BY <1>1, <1>5, <2>1, <2>6, Aside DEF Announced
<1>6. CASE outcome' = "error" /\ UNCHANGED <<requestVars, upc, target, made>>
  <2>1. DiskInv'
    BY <1>1, <1>2, <1>3, <1>4, <1>6 DEF DiskInv
  <2> QED
    BY <1>6, <2>1, Outside
<1>7. CASE Dies /\ UNCHANGED <<upc, target, made, outcome>>
  <2>1. DiskInv'
    BY <1>1, <1>2, <1>3, <1>4, <1>7 DEF DiskInv
  <2> QED
    BY <1>2, <1>7, <2>1, DiesIInv
<1> QED
  BY <1>5, <1>6, <1>7 DEF ReloadRead

LEMMA ReloadConnectIInv ==
    ASSUME IInv, ReloadConnect
    PROVE  IInv'
<1> USE DEF IInv
<1>1. /\ upc = "connect" /\ UNCHANGED <<requestVars, target, disk, pending, sent, asked, loaded>>
      /\ early' = early
      /\ \/ upc' = "begin" /\ UNCHANGED outcome
         \/ upc' = "idle" /\ outcome' = "error"
  BY DEF ReloadConnect
<1>2. setup' = setup /\ up' = up /\ state' = state /\ inForce' = inForce
  BY <1>1 DEF requestVars, confVars
<1>3. /\ Files' = Files /\ (Daemon' <=> Daemon) /\ (Whole' <=> Whole)
      /\ \A c : (Proposed(c)' <=> Proposed(c)) /\ (Accepted(c)' <=> Accepted(c))
  BY <1>2, SameScenario
<1>4. Whole
  BY <1>1 DEF UpdateInv, Daemon, Whole
<1>5. DiskInv'
  BY <1>1, <1>2, <1>3 DEF DiskInv
<1>6. UpdateInv'
  BY <1>1, <1>2, <1>3, <1>4 DEF UpdateInv, Checked, Announced
<1> QED
  BY <1>1, <1>5, <1>6, Aside DEF Announced

LEMMA UpdateCallIInv ==
    ASSUME IInv, UpdateCall
    PROVE  IInv'
<1> USE DEF IInv
<1> DEFINE old == state.conf
           new == setup.update.conf
<1>1. ~Daemon /\ Method # "none" /\ upc = "idle" /\ upc' = "begin"
  BY DEF UpdateCall
<1>2. UNCHANGED <<requestVars, disk, pending, sent, asked, loaded, outcome>> /\ early' = early
  BY DEF UpdateCall, daemonVars
<1>3. setup' = setup /\ up' = up /\ state' = state /\ inForce' = inForce
  BY <1>2 DEF requestVars, confVars
<1>4. /\ Files' = Files /\ (Daemon' <=> Daemon) /\ (Whole' <=> Whole)
      /\ \A c : (Proposed(c)' <=> Proposed(c)) /\ (Accepted(c)' <=> Accepted(c))
  BY <1>3, SameScenario
<1>5. DiskInv'
  BY <1>2, <1>3, <1>4 DEF DiskInv
<1>6. /\ Proposed(old) /\ IsConf(old) /\ old.audit \in AuditHandlers /\ old.keys \in UsedKinds
      /\ IsConf(new) /\ new.keys \in UsedKinds
  BY ScenarioFacts DEF ConfInv, Proposed
<1>7. Method \in {"Update", "UpdateAdmin", "UpdatePolicies"}
  BY <1>1, ScenarioFacts DEF ConfInv, Daemon
<1>8. CASE Method = "UpdateAdmin"
  <2>1. target' = [old EXCEPT !.admin = new.admin]
    BY <1>8 DEF UpdateCall
  <2> HIDE DEF old, new
  <2>2. /\ DOMAIN target' = DOMAIN old /\ target'.policies = old.policies /\ target'.skip = old.skip
        /\ target'.keys = old.keys /\ target'.audit = old.audit /\ target'.errorLog = old.errorLog
        /\ target'.levels = old.levels /\ target'.predefined = old.predefined
    BY <1>6, <2>1 DEF IsConf
  <2>3. Proposed(target')
    BY <1>1, <1>6, <2>2 DEF Proposed, IsConf
  <2>4. UpdateInv'
    BY <1>1, <1>3, <1>4, <2>2, <2>3 DEF UpdateInv, Checked, Announced, old
  <2> QED
    BY <1>1, <1>2, <1>5, <2>4, Aside DEF Announced
<1>9. CASE Method = "UpdatePolicies"
  <2>1. target' = [old EXCEPT !.policies = new.policies]
    BY <1>9 DEF UpdateCall
  <2> HIDE DEF old, new
  <2>2. /\ DOMAIN target' = DOMAIN old /\ target'.policies = new.policies /\ target'.skip = old.skip
        /\ target'.keys = old.keys /\ target'.audit = old.audit /\ target'.errorLog = old.errorLog
        /\ target'.levels = old.levels /\ target'.predefined = old.predefined
    BY <1>6, <2>1 DEF IsConf
  <2>3. Proposed(target')
    BY <1>1, <1>6, <2>2 DEF Proposed, IsConf
  <2>4. UpdateInv'
    BY <1>1, <1>3, <1>4, <2>2, <2>3 DEF UpdateInv, Checked, Announced, old
  <2> QED
    BY <1>1, <1>2, <1>5, <2>4, Aside DEF Announced
<1>10. CASE Method = "Update"
  <2> DEFINE a == IF new.audit = "keep" THEN old.audit ELSE new.audit
  <2>1. target' = [new EXCEPT !.audit = a]
    BY <1>10 DEF UpdateCall
  <2>2. a \in AuditHandlers
    BY <1>6 DEF IsConf
  <2> HIDE DEF old, new, a
  <2>3. /\ DOMAIN target' = DOMAIN new /\ target'.policies = new.policies /\ target'.skip = new.skip
        /\ target'.keys = new.keys /\ target'.audit = a /\ target'.errorLog = new.errorLog
        /\ target'.levels = new.levels /\ target'.predefined = new.predefined
    BY <1>6, <2>1 DEF IsConf
  <2>4. Proposed(target')
    BY <1>1, <1>6, <2>2, <2>3 DEF Proposed, IsConf
  <2>5. UpdateInv'
    BY <1>1, <1>3, <1>4, <1>10, <2>4 DEF UpdateInv, Checked, Announced, Whole
  <2> QED
    BY <1>1, <1>2, <1>5, <2>5, Aside DEF Announced
<1> QED
  BY <1>7, <1>8, <1>9, <1>10
(* An Update, or UpdateAdmin or UpdatePolicies, checks what it was given.  *)
LEMMA UpdateBeginIInv ==
    ASSUME IInv, UpdateBegin
    PROVE  IInv'
<1> USE DEF IInv
<1> DEFINE accepted == /\ verifyConfig(target) /\ initPoliciesOK(target.policies) /\ up = "up"
                       /\ Method = "UpdateAdmin" => target.admin # NoIdentity
<1>1. /\ upc = "begin"
      /\ UNCHANGED <<setup, up, state, handler, tls, auditH, levels, keyVars, audit, meter, target>>
      /\ UNCHANGED <<disk, pending, sent, asked, loaded>> /\ early' = early
  BY DEF UpdateBegin
<1>2. /\ Files' = Files /\ (Daemon' <=> Daemon) /\ (Whole' <=> Whole)
      /\ \A c : (Proposed(c)' <=> Proposed(c)) /\ (Accepted(c)' <=> Accepted(c))
  BY <1>1, SameScenario
<1>3. StoreInv'
  BY <1>1, StoreKeptInv
<1>4. accepted => Accepted(target)
  BY DEF UpdateInv, Accepted, Proposed, IsConf, verifyConfig
<1>5. outcome' = outcome \/ outcome' = "error"
  BY DEF UpdateBegin
<1>6. DiskInv'
  BY <1>1, <1>2, <1>5 DEF DiskInv
<1>7. CASE accepted /\ ~Whole /\ upc' = "state" /\ Announce(target)
  <2>1. req' = [r \in Reqs |-> req'[r]] /\ \A r \in Reqs : Follows(r) /\ target \in req'[r].seen
    BY <1>7, AnnounceFollows
  <2>2. Meeting /\ AuditStays
    BY <1>1, <2>1 DEF Meeting, AuditStays, AuditOn
  <2>3. RequestInv' /\ AuditInv' /\ MeterInv'
    BY <1>1, <2>1, <2>2, Behind
  <2>4. inForce' = inForce \cup {target}
    BY <1>7 DEF Announce
  <2>5. ConfInv'
    BY <1>1, <1>2, <1>4, <1>7, <2>4 DEF ConfInv, Accepted
  <2>6. UpdateInv'
    BY <1>1, <1>2, <1>4, <1>7, <2>4 DEF UpdateInv, Checked, Announced
  <2> QED
    BY <1>3, <1>6, <2>3, <2>5, <2>6
<1>8. CASE /\ UNCHANGED <<inForce, req>>
           /\ \/ accepted /\ Whole /\ upc' = "predefine"
              \/ upc' = Rest
  <2>1. upc' \in {"idle", "done", "predefine"} /\ (upc' = "predefine" => accepted /\ Whole)
    BY <1>8 DEF Rest
  <2>2. UpdateInv'
    BY <1>1, <1>2, <1>4, <1>8, <2>1 DEF UpdateInv, Checked, Announced
  <2>3. UNCHANGED requestVars
    BY <1>1, <1>8 DEF requestVars, confVars
  <2> QED
    BY <1>1, <1>6, <2>1, <2>2, <2>3, Aside DEF Announced
<1> QED
  BY <1>7, <1>8 DEF UpdateBegin

(* The key store changes while an Update creates the predefined keys, or   *)
(* as it fails.                                                            *)
LEMMA PredefinesIInv ==
    ASSUME IInv, upc = "predefine", StoreInv',
           UNCHANGED <<setup, up, state, handler, tls, auditH, levels, inForce, audit, meter, req>>,
           UNCHANGED <<target, disk, pending, sent, asked, loaded>>, early' = early,
           \/ UNCHANGED <<upc, outcome>>
           \/ upc' = Rest /\ outcome' = "error"
    PROVE  IInv'
<1> USE DEF IInv
<1>1. /\ UsedKinds' = UsedKinds /\ Files' = Files /\ (Daemon' <=> Daemon) /\ (Whole' <=> Whole)
      /\ \A c : (Proposed(c)' <=> Proposed(c)) /\ (Accepted(c)' <=> Accepted(c))
  BY SameScenario
<1>2. upc' \in {"predefine", "idle", "done"} /\ outcome' \in {outcome, "error"}
  BY DEF Rest
<1>3. RequestInv' /\ AuditInv' /\ MeterInv'
  BY <1>2, Unnoticed DEF Meeting, Announced
<1>4. ConfInv'
  BY <1>1, <1>2 DEF ConfInv
<1>5. UpdateInv'
  BY <1>1, <1>2 DEF UpdateInv, Checked, Announced, Rest
<1>6. DiskInv'
  BY <1>1, <1>2 DEF DiskInv
<1> QED
  BY <1>3, <1>4, <1>5, <1>6

LEMMA PredefineIInv ==
    ASSUME IInv, Predefine
    PROVE  IInv'
<1> USE DEF IInv
<1> DEFINE kind == target.keys
<1>1. /\ upc = "predefine"
      /\ UNCHANGED <<setup, up, state, handler, tls, auditH, levels, durable, audit, meter>>
      /\ UNCHANGED <<target, disk, pending, sent, asked, loaded>> /\ early' = early
  BY DEF Predefine
<1>2. /\ UsedKinds' = UsedKinds /\ Files' = Files /\ (Daemon' <=> Daemon) /\ (Whole' <=> Whole)
      /\ \A c : (Proposed(c)' <=> Proposed(c)) /\ (Accepted(c)' <=> Accepted(c))
  BY <1>1, SameScenario
<1>3. /\ Accepted(target) /\ kind \in UsedKinds /\ up # "starting" /\ Whole
      /\ target.predefined \subseteq Names
  BY <1>1 DEF UpdateInv, Checked, Accepted, Proposed, IsConf
<1>4. CASE /\ \/ UNCHANGED <<store, held>>
              \/ \E n \in target.predefined \ made : createPredefinedKeys(target, {n})
           /\ UNCHANGED <<upc, inForce, req, outcome, doomed>>
  <2>1. CASE UNCHANGED <<store, held>>
    <3>1. StoreInv'
      BY <1>1, <1>4, <2>1, StoreKeptInv DEF keyVars
    <3> QED
      BY <1>1, <1>4, <3>1, PredefinesIInv
  <2>2. CASE \E n \in target.predefined \ made : createPredefinedKeys(target, {n})
    <3>1. StoreInv'
      BY <1>1, <1>3, <1>4, <2>2, PredefinedInv
    <3> QED
      BY <1>1, <1>4, <3>1, PredefinesIInv
  <2> QED
    BY <1>4, <2>1, <2>2
<1>5. CASE upc' = "audit" /\ Announce(target) /\ UNCHANGED <<store, held, outcome, doomed>>
  <2>1. req' = [r \in Reqs |-> req'[r]] /\ \A r \in Reqs : Follows(r) /\ target \in req'[r].seen
    BY <1>5, AnnounceFollows
  <2>2. Meeting /\ AuditStays
    BY <1>1, <2>1 DEF Meeting, AuditStays, AuditOn
  <2>3. RequestInv' /\ AuditInv' /\ MeterInv'
    BY <1>1, <2>1, <2>2, Behind
  <2>4. inForce' = inForce \cup {target}
    BY <1>5 DEF Announce
  <2>5. ConfInv'
    BY <1>1, <1>2, <1>3, <1>5, <2>4 DEF ConfInv, Accepted
  <2>6. UpdateInv'
    BY <1>1, <1>2, <1>3, <1>5, <2>4 DEF UpdateInv, Checked, Announced
  <2>7. DiskInv'
    BY <1>1, <1>2, <1>5 DEF DiskInv
  <2>8. StoreInv'
    BY <1>1, <1>5, StoreKeptInv DEF keyVars
  <2> QED
    BY <2>3, <2>5, <2>6, <2>7, <2>8
<1>6. CASE /\ PredefineFails
           /\ \E n \in target.predefined : \E v : /\ Put(kind, n, v)
                                                   /\ doomed' \subseteq doomed \cup {<<kind, n>>}
  <2>1. PICK n \in target.predefined : \E v : Put(kind, n, v) /\ doomed' \subseteq doomed \cup {<<kind, n>>}
    BY <1>6
  <2>2. doomed' \subseteq UsedKinds \X Names
    BY <1>3, <2>1 DEF StoreInv
  <2>3. StoreInv'
    BY <1>1, <1>3, <2>1, <2>2, PutStoreInv
  <2>4. UNCHANGED <<inForce, req>> /\ upc' = Rest /\ outcome' = "error"
    BY <1>6 DEF PredefineFails
  <2> QED
    BY <1>1, <2>3, <2>4, PredefinesIInv
<1>7. \/ /\ \/ UNCHANGED <<store, held>>
            \/ \E n \in target.predefined \ made : createPredefinedKeys(target, {n})
         /\ UNCHANGED <<upc, inForce, req, outcome, doomed>>
      \/ upc' = "audit" /\ Announce(target) /\ UNCHANGED <<store, held, outcome, doomed>>
      \/ /\ PredefineFails
         /\ \E n \in target.predefined : \E v : /\ Put(kind, n, v)
                                                 /\ doomed' \subseteq doomed \cup {<<kind, n>>}
  BY DEF Predefine
<1> QED
  BY <1>4, <1>5, <1>6, <1>7

LEMMA PredefineWriteIInv ==
    ASSUME IInv, MissingInv, PredefineWrite
    PROVE  IInv'
<1> USE DEF IInv
<1>1. /\ upc = "predefine" /\ missing # Empty
      /\ UNCHANGED <<setup, up, state, handler, tls, auditH, levels, durable, doomed, audit, meter>>
      /\ UNCHANGED <<target, disk, pending, sent, asked, loaded>> /\ early' = early
      /\ \E v : Put(target.keys, missing, v)
      /\ UNCHANGED <<inForce, req>>
      /\ UNCHANGED <<upc, outcome>> \/ (upc' = Rest /\ outcome' = "error")
  BY DEF PredefineWrite, PredefineFails
<1>2. target.keys \in UsedKinds /\ missing \in Names
  BY <1>1 DEF UpdateInv, Proposed, MissingInv
<1>3. StoreInv'
  BY <1>1, <1>2, PutStoreInv DEF StoreInv
<1> QED
  BY <1>1, <1>3, PredefinesIInv

(* Only names are missing, only on azure and vault, and only as long as    *)
(* the predefined keys are made.                                           *)
LEMMA MissingStays ==
    ASSUME IInv, MissingInv, [Next]_vars
    PROVE  MissingInv'
<1>1. CASE UNCHANGED <<missing, upc, target>>
  BY <1>1 DEF MissingInv
<1>2. CASE upc # "predefine" /\ UNCHANGED missing
  BY <1>2 DEF MissingInv
<1>3. CASE missing' = Empty
  BY <1>3 DEF MissingInv
<1>4. CASE /\ upc = "predefine" /\ UNCHANGED <<upc, target>>
           /\ missing' \in target.predefined /\ target.keys \in ChecksFirst
  <2>1. target.predefined \subseteq Names
    BY DEF IInv, UpdateInv, Proposed, IsConf
  <2> QED
    BY <1>4, <2>1 DEF MissingInv
<1>5. CASE Predefine \/ PredefineWrite
  <2>1. \/ UNCHANGED <<missing, upc, target>> \/ missing' = Empty
        \/ /\ upc = "predefine" /\ UNCHANGED <<upc, target>>
           /\ missing' \in target.predefined /\ target.keys \in ChecksFirst
    BY <1>5 DEF Predefine, PredefineWrite, PredefineFails
  <2> QED
    BY <1>1, <1>3, <1>4, <2>1
<1>6. CASE UpdateStep /\ ~(Predefine \/ PredefineWrite)
  <2>1. upc # "predefine" /\ UNCHANGED missing
    BY <1>6 DEF UpdateStep, ReloadRead, ReloadConnect, UpdateCall, UpdateBegin, UpdateAudit,
                StoreTLS, StoreState, StoreHandler, SetLevels
  <2> QED
    BY <1>2, <2>1
<1>7. CASE Start \/ EditFile \/ Signal \/ TickRead \/ TickUpdate
  <2>1. UNCHANGED <<missing, upc, target>>
    BY <1>7 DEF Start, EditFile, Signal, TickRead, TickUpdate
  <2> QED
    BY <1>1, <2>1
<1> QED
  BY <1>1, <1>5, <1>6, <1>7 DEF Next, RequestStep, vars

LEMMA UpdateAuditIInv ==
    ASSUME IInv, UpdateAudit
    PROVE  IInv'
<1> USE DEF IInv
<1>1. /\ upc \in {"audit", "audit2"}
      /\ UNCHANGED <<setup, up, state, handler, tls, levels, inForce, keyVars, audit, meter, target>>
      /\ UNCHANGED <<disk, pending, sent, asked, loaded, outcome>> /\ early' = early
  BY DEF UpdateAudit, daemonVars
<1>2. /\ Files' = Files /\ (Daemon' <=> Daemon) /\ (Whole' <=> Whole)
      /\ \A c : (Proposed(c)' <=> Proposed(c)) /\ (Accepted(c)' <=> Accepted(c))
  BY <1>1, SameScenario
<1>3. StoreInv'
  BY <1>1, StoreKeptInv
<1>4. DiskInv'
  BY <1>1, <1>2 DEF DiskInv
<1>5. target.audit \in AuditHandlers /\ Torn \notin AuditHandlers
  BY DEF UpdateInv, Proposed, AuditHandlers, Torn
<1>6. /\ upc' \in {"audit2", "tls"} /\ (auditH' = Torn => upc' = "audit2")
      /\ auditH' \in AuditHandlers \cup {Torn}
  BY <1>1, <1>5 DEF UpdateAudit, ConfInv
<1>7. ConfInv'
  BY <1>1, <1>2, <1>6 DEF ConfInv
<1>8. UpdateInv'
  BY <1>1, <1>2, <1>6 DEF UpdateInv, Checked, Announced
<1>9. Meeting
  BY <1>1, <1>6 DEF Meeting, Announced
<1>10. RequestInv' /\ AuditInv' /\ MeterInv'
  <2>1. CASE UNCHANGED <<auditH, req>>
    BY <1>1, <1>9, <2>1, Unnoticed
  <2>2. CASE /\ auditH' = IF upc = "audit" THEN Torn ELSE target.audit
             /\ StillAudited(HandlerEnabled(target.audit))
    <3>1. HandlerEnabled(target.audit) \in BOOLEAN
      BY DEF HandlerEnabled
    <3>2. /\ req' = [r \in Reqs |-> req'[r]]
          /\ \A r \in Reqs : Follows(r) /\ (req'[r].audited => HandlerEnabled(target.audit))
      BY <2>2, <3>1, StillAuditedFollows
    <3>3. AuditStays
      BY <1>1, <2>2, <3>2 DEF AuditStays, AuditOn
    <3> QED
      BY <1>1, <1>9, <3>2, <3>3, Behind
  <2> QED
    BY <2>1, <2>2 DEF UpdateAudit
<1> QED
  BY <1>3, <1>4, <1>7, <1>8, <1>10

LEMMA StoreTLSIInv ==
    ASSUME IInv, StoreTLS
    PROVE  IInv'
<1> USE DEF IInv
<1>1. /\ upc = "tls" /\ upc' = "state"
      /\ UNCHANGED <<setup, up, state, handler, auditH, levels, inForce, keyVars, req, audit, meter>>
      /\ UNCHANGED <<target, disk, pending, sent, asked, loaded, outcome>> /\ early' = early
  BY DEF StoreTLS, daemonVars
<1>2. /\ Files' = Files /\ (Daemon' <=> Daemon) /\ (Whole' <=> Whole)
      /\ \A c : (Proposed(c)' <=> Proposed(c)) /\ (Accepted(c)' <=> Accepted(c))
  BY <1>1, SameScenario
<1>3. RequestInv' /\ AuditInv' /\ MeterInv'
  BY <1>1, Unnoticed DEF Meeting, Announced
<1>4. ConfInv'
  BY <1>1, <1>2 DEF ConfInv
<1>5. UpdateInv'
  BY <1>1, <1>2 DEF UpdateInv, Checked, Announced
<1>6. DiskInv'
  BY <1>1, <1>2 DEF DiskInv
<1> QED
  BY <1>1, <1>3, <1>4, <1>5, <1>6, StoreKeptInv

(* The state is that of the new configuration, the routes are not yet.     *)
LEMMA StoreStateIInv ==
    ASSUME IInv, StoreState
    PROVE  IInv'
<1> USE DEF IInv
<1>1. /\ upc = "state" /\ upc' = (IF Whole THEN "handler" ELSE Rest)
      /\ inForce' = IF Whole THEN inForce ELSE {target}
      /\ UNCHANGED <<setup, up, handler, tls, auditH, levels, keyVars, req, audit, meter>>
      /\ UNCHANGED <<target, disk, pending, sent, asked, loaded, outcome>> /\ early' = early
  BY DEF StoreState, daemonVars
<1>2. state'.conf = target /\ state'.nolevel \in BOOLEAN
  <2>1. state' = [conf |-> target, nolevel |-> state.nolevel \/ (Whole /\ target.errorLog)]
    BY DEF StoreState
  <2> QED
    BY <2>1
<1>3. /\ Files' = Files /\ (Daemon' <=> Daemon) /\ (Whole' <=> Whole)
      /\ \A c : (Proposed(c)' <=> Proposed(c)) /\ (Accepted(c)' <=> Accepted(c))
  BY <1>1, SameScenario
<1>4. /\ Accepted(target) /\ target \in inForce /\ up # "starting"
      /\ ~Whole => target.skip = state.conf.skip
  BY <1>1 DEF UpdateInv, Checked, Announced
<1>5. handler = state.conf.skip
  BY <1>1 DEF ConfInv
<1>6. Whole \/ upc' \in {"idle", "done"}
  BY <1>1 DEF Rest
<1>7. RequestInv' /\ AuditInv' /\ MeterInv'
  BY <1>1, <1>2, <1>6, Unnoticed DEF Meeting, Announced
<1>8. ConfInv'
  <2>1. \A c \in inForce' : Proposed(c)' /\ c.keys \in Kinds /\ (up' = "up" => Accepted(c)')
    BY <1>1, <1>3, <1>4 DEF ConfInv, Accepted
  <2>2. \E c \in inForce' : c.skip = handler
    BY <1>1, <1>4, <1>5 DEF ConfInv
  <2> QED
    BY <1>1, <1>2, <1>3, <1>4, <1>5, <1>6, <2>1, <2>2 DEF ConfInv
<1>9. UpdateInv'
  BY <1>1, <1>2, <1>3, <1>4, <1>6 DEF UpdateInv, Checked, Announced
<1>10. DiskInv'
  BY <1>1, <1>3 DEF DiskInv
<1> QED
  BY <1>1, <1>7, <1>8, <1>9, <1>10, StoreKeptInv

LEMMA StoreHandlerIInv ==
    ASSUME IInv, StoreHandler
    PROVE  IInv'
<1> USE DEF IInv
<1>1. /\ upc = "handler" /\ upc' = "levels" /\ handler' = state.conf.skip /\ inForce' = {state.conf}
      /\ UNCHANGED <<setup, up, state, tls, auditH, levels, keyVars, req, audit, meter>>
      /\ UNCHANGED <<target, disk, pending, sent, asked, loaded, outcome>> /\ early' = early
  BY DEF StoreHandler, daemonVars
<1>2. /\ Files' = Files /\ (Daemon' <=> Daemon) /\ (Whole' <=> Whole)
      /\ \A c : (Proposed(c)' <=> Proposed(c)) /\ (Accepted(c)' <=> Accepted(c))
  BY <1>1, SameScenario
<1>3. RequestInv' /\ AuditInv' /\ MeterInv'
  BY <1>1, Unnoticed DEF Meeting, Announced
<1>4. ConfInv'
  BY <1>1, <1>2 DEF ConfInv
<1>5. UpdateInv'
  BY <1>1, <1>2 DEF UpdateInv, Checked, Announced
<1>6. DiskInv'
  BY <1>1, <1>2 DEF DiskInv
<1> QED
  BY <1>1, <1>3, <1>4, <1>5, <1>6, StoreKeptInv

LEMMA SetLevelsIInv ==
    ASSUME IInv, SetLevels
    PROVE  IInv'
<1> USE DEF IInv
<1> DEFINE on == state.conf.levels.audit <= LevelInfo
<1>1. /\ upc = "levels" /\ levels' = state.conf.levels /\ StillAudited(on) /\ outcome' = "ok"
      /\ upc' = Rest
      /\ UNCHANGED <<setup, up, state, handler, tls, auditH, inForce, keyVars, audit, meter>>
      /\ UNCHANGED <<target, disk, pending, sent, asked, loaded>> /\ early' = early
  BY DEF SetLevels
<1>2. /\ Files' = Files /\ (Daemon' <=> Daemon) /\ (Whole' <=> Whole)
      /\ \A c : (Proposed(c)' <=> Proposed(c)) /\ (Accepted(c)' <=> Accepted(c))
  BY <1>1, SameScenario
<1>3. upc' \in {"idle", "done"}
  BY <1>1 DEF Rest
<1>4. levels' \in [error : Int, audit : Int] /\ on \in BOOLEAN
  BY <1>1 DEF ConfInv, Proposed, IsConf
<1>5. RequestInv' /\ AuditInv' /\ MeterInv'
  <2>1. /\ req' = [r \in Reqs |-> req'[r]]
        /\ \A r \in Reqs : Follows(r) /\ (req'[r].audited => on)
    BY <1>1, <1>4, StillAuditedFollows
  <2>2. AuditStays
    BY <1>1, <2>1 DEF AuditStays, AuditOn
  <2>3. Meeting
    BY <1>1, <1>3 DEF Meeting, Announced
  <2> QED
    BY <1>1, <2>1, <2>2, <2>3, Behind
<1>6. ConfInv'
  BY <1>1, <1>2, <1>3, <1>4 DEF ConfInv
<1>7. UpdateInv'
  BY <1>1, <1>2, <1>3 DEF UpdateInv, Checked, Announced
<1>8. DiskInv'
  BY <1>1, <1>2 DEF DiskInv
<1> QED
  BY <1>1, <1>5, <1>6, <1>7, <1>8, StoreKeptInv

LEMMA TickIInv ==
    ASSUME IInv, TickRead \/ TickUpdate
    PROVE  IInv'
<1> USE DEF IInv
<1>1. /\ UNCHANGED <<setup, upc, target, disk, pending, sent, asked, loaded, outcome>> /\ early' = early
  BY DEF TickRead, TickUpdate, requestVars, Dies
<1>2. /\ Files' = Files /\ (Daemon' <=> Daemon) /\ (Whole' <=> Whole)
      /\ \A c : (Proposed(c)' <=> Proposed(c)) /\ (Accepted(c)' <=> Accepted(c))
  BY <1>1, SameScenario
<1>3. DiskInv'
  BY <1>1, <1>2 DEF DiskInv
<1>4. CASE TickRead /\ UNCHANGED requestVars
  BY <1>1, <1>3, <1>4, Outside
<1>5. CASE TickRead /\ Dies
  BY <1>1, <1>3, <1>5, DiesIInv DEF TickRead
<1>6. CASE TickUpdate
  <2>1. UNCHANGED <<up, state, handler, auditH, levels, inForce, keyVars, req, audit, meter>>
    BY <1>6 DEF TickUpdate
  <2>2. RequestInv' /\ AuditInv' /\ MeterInv'
    BY <1>1, <2>1, Unnoticed DEF Meeting
  <2>3. ConfInv'
    BY <1>1, <1>2, <2>1 DEF ConfInv
  <2>4. UpdateInv'
    BY <1>1, <1>2, <2>1 DEF UpdateInv
  <2> QED
    BY <1>1, <1>3, <2>1, <2>2, <2>3, <2>4, StoreKeptInv
<1> QED
  BY <1>4, <1>5, <1>6 DEF TickRead
-----------------------------------------------------------------------------
LEMMA InitIInv ==
    ASSUME Init
    PROVE  IInv
<1> DEFINE conf == setup.conf
<1>1. /\ setup \in Scenarios /\ up = (IF Daemon THEN "starting" ELSE "up")
      /\ state = [conf |-> conf, nolevel |-> FALSE] /\ handler = conf.skip /\ auditH = conf.audit
      /\ levels = conf.levels /\ inForce = {conf} /\ upc = "idle" /\ target = conf
  BY DEF Init, InitRequests, Daemon, Method
<1>2. /\ IsConf(conf) /\ conf.keys \in Kinds /\ conf.audit \in AuditHandlers
      /\ conf.keys \in UsedKinds
  BY <1>1, ScenariosAssumption DEF UsedKinds
<1>3. Daemon => Careful(conf) /\ 1 \in DOMAIN Files
  <2> SUFFICES ASSUME Daemon PROVE Careful(conf) /\ 1 \in DOMAIN Files
    OBVIOUS
  <2>1. /\ Len(Files) \in Nat \ {0} /\ DOMAIN Files = 1 .. Len(Files) /\ ReadFile(Files[1]).ok
        /\ conf = [ConfigOf(Files[1]) EXCEPT !.audit = conf.audit]
    BY <1>1, ScenariosAssumption DEF Daemon, Method, Files
  <2>2. 1 \in DOMAIN Files /\ IsFile(Files[1])
    BY <1>1, <2>1, ScenarioFacts
  <2>3. Careful([ConfigOf(Files[1]) EXCEPT !.audit = conf.audit])
    BY <1>2, <2>1, <2>2, FileConf
  <2> QED
    BY <2>1, <2>2, <2>3
<1>4. ~Daemon => initPoliciesOK(conf.policies)
  BY <1>1, ScenariosAssumption DEF Daemon, Method
<1> HIDE DEF conf
<1>5. Proposed(conf) /\ (~Daemon => Accepted(conf))
  BY <1>2, <1>3, <1>4 DEF Proposed, Accepted
<1>6. Torn \notin AuditHandlers
  BY DEF Torn, AuditHandlers
<1>7. ConfInv
  BY <1>1, <1>2, <1>5, <1>6 DEF ConfInv, IsConf
<1>8. UpdateInv
  BY <1>1, <1>5 DEF UpdateInv, Checked, Announced
<1>9. DiskInv
  <2>1. setup.signals \in Nat
    BY <1>1, ScenariosAssumption
  <2>2. /\ disk = 1 /\ pending = 0 /\ sent = 0 /\ asked = 0 /\ loaded = 0
        /\ outcome = "none" /\ early \in BOOLEAN
    BY DEF Init
  <2>3. Daemon => disk \in DOMAIN Files
    BY <1>3, <2>2
  <2> QED
    BY <2>1, <2>2, <2>3 DEF DiskInv
<1>10. StoreInv
  <2>1. /\ store = [k \in UsedKinds |-> [n \in Names |->
                        IF k = setup.conf.keys THEN setup.stored[n] ELSE Nothing]]
        /\ held = [k \in UsedKinds |-> [n \in Names |-> {store[k][n]} \ {Nothing}]]
        /\ durable \subseteq UsedKinds \X Names /\ doomed = {}
    BY DEF Init, InitRequests
  <2> QED
    BY <2>1 DEF StoreInv
<1>11. req = [r \in Reqs |-> Fresh] /\ \A r \in Reqs : req[r] = Fresh
  BY DEF Init, InitRequests
<1>12. /\ Fresh.pc = "new" /\ Fresh.granted = FALSE /\ Fresh.panicked = FALSE /\ Fresh.audited = TRUE
       /\ Fresh.hEnabled = FALSE /\ Fresh.oEnabled = FALSE /\ Fresh.codes = <<>>
       /\ Fresh.id = NoIdentity /\ Fresh.used = "mem"
  BY DEF Fresh
<1>13. RequestInv
  <2>1. \A r \in Reqs : Progress(r)
    <3>1. <<>> # <<200>>
      OBVIOUS
    <3> QED
      BY <1>11, <1>12, <3>1 DEF Progress, Decided, Early, Called, Identities, Kinds
  <2>2. \A r \in Reqs : Met(r)
    BY <1>11, <1>12 DEF Met, Active
  <2>3. \A r \in Reqs : Writes(r)
    BY <1>11, <1>12 DEF Writes
  <2> QED
    BY <1>11, <2>1, <2>2, <2>3 DEF RequestInv, Shape
<1>14. AuditInv
  <2> DEFINE no == <<>>
             Records == [of : Reqs, by : AuditHandlers, id : Identities]
  <2>1. audit = no
    BY DEF Init, InitRequests
  <2> HIDE DEF Records
  <2>2. no \in Seq(Records) /\ DOMAIN no = {}
    OBVIOUS
  <2> HIDE DEF no
  <2>3. \A r \in Reqs : Due(r)
    BY <1>11, <1>12 DEF Due
  <2>4. audit \in Seq([of : Reqs, by : AuditHandlers, id : Identities]) /\ DOMAIN audit = {}
    BY <2>1, <2>2 DEF Records
  <2>5. /\ \A i, j \in DOMAIN audit : audit[i].of = audit[j].of => i = j
        /\ \A i \in DOMAIN audit, r \in Reqs : audit[i].of = r => Recorded(i, r)
    BY <2>4
  <2> QED
    BY <2>3, <2>4, <2>5 DEF AuditInv
<1>15. MeterInv
  <2>1. meter = [active |-> 0, latency |-> 0, succeeded |-> 0, errored |-> 0, failed |-> 0,
                 errorEvents |-> 0, auditEvents |-> 0]
    BY DEF Init, InitRequests
  <2>2. /\ Running = {} /\ Gone = {} /\ Class(200) = {} /\ Class(400) = {} /\ Class(500) = {}
    BY <1>11, <1>12 DEF Running, Gone, Finished, Class
  <2>3. FailedListings = {} /\ Class(500) \ FailedListings = {}
    BY <2>2 DEF FailedListings
  <2>4. Cardinality({}) = 0
    BY FS_EmptySet
  <2> QED
    BY <2>1, <2>2, <2>3, <2>4 DEF MeterInv
<1> QED
  BY <1>7, <1>8, <1>9, <1>10, <1>13, <1>14, <1>15 DEF IInv

LEMMA StutterIInv ==
    ASSUME IInv, UNCHANGED vars
    PROVE  IInv'
<1>1. UNCHANGED <<requestVars, upc, target, daemonVars>>
  BY DEF vars
<1>2. setup' = setup
  BY <1>1 DEF requestVars
<1>3. UNCHANGED <<disk, pending, sent, asked, loaded, outcome>> /\ early' = early
  BY <1>1 DEF daemonVars
<1>4. Files' = Files /\ (Daemon' <=> Daemon)
  BY <1>2, SameScenario
<1>5. DiskInv'
  BY <1>2, <1>3, <1>4 DEF IInv, DiskInv
<1> QED
  BY <1>1, <1>5, Outside

LEMMA NextIInv ==
    ASSUME IInv, MissingInv, [Next]_vars
    PROVE  IInv'
<1>1. ASSUME NEW r \in Reqs, Handshake(r) \/ Arrive(r) \/ ClientLeaves(r), Elsewhere
      PROVE  IInv'
  BY <1>1, HandshakeIInv, ArriveIInv, ClientLeavesIInv
<1>2. ASSUME NEW r \in Reqs, HandleRequest(r), Elsewhere
      PROVE  IInv'
  BY <1>2, CheckMethodIInv, SetTimeoutIInv, AuthenticateRequestIInv, CallIInv, WriteIInv, CallPagedIInv,
     NextPageIInv,
     PageCanceledIInv, LogErrorIInv, AuditEnabledIInv, AuditHandleIInv, ReplyIInv, UnsubscribeIInv
     DEF HandleRequest
<1>3. ASSUME UpdateStep
      PROVE  IInv'
  BY <1>3, ReloadReadIInv, ReloadConnectIInv, UpdateCallIInv, UpdateBeginIInv, PredefineIInv,
     PredefineWriteIInv,
     UpdateAuditIInv, StoreTLSIInv, StoreStateIInv, StoreHandlerIInv, SetLevelsIInv
     DEF UpdateStep
<1>4. ASSUME Start \/ EditFile \/ Signal \/ TickRead \/ TickUpdate
      PROVE  IInv'
  BY <1>4, StartIInv, EditFileIInv, SignalIInv, TickIInv
<1> QED
  BY <1>1, <1>2, <1>3, <1>4, StutterIInv DEF Next, RequestStep, Elsewhere

-----------------------------------------------------------------------------
(* The invariant is one, for every set of scenarios.                       *)
THEOREM Invariance == Spec => [](IInv /\ MissingInv)
<1>1. Init => IInv /\ MissingInv
  BY InitIInv DEF Init, MissingInv
<1>2. IInv /\ MissingInv /\ [Next]_vars => IInv' /\ MissingInv'
  BY NextIInv, MissingStays
<1> QED
  BY <1>1, <1>2, PTL DEF Spec

(* The state of server, requests, key stores and cmd/kes has its type.     *)
THEOREM TypeCorrect == Spec => []TypeOK
<1>1. IInv /\ MissingInv => TypeOK
  <2> SUFFICES ASSUME IInv, MissingInv PROVE TypeOK
    OBVIOUS
  <2> USE DEF IInv
  <2>1. handler \subseteq APIs
    BY DEF ConfInv, Proposed, IsConf
  <2>2. ASSUME NEW r \in Reqs
        PROVE  /\ req[r].pc \in Pcs
               /\ req[r].codes \in Seq({200, 400, 403, 404, 405, 406, 409, 500, 502, 504})
               /\ req[r].id \in Names \cup {NoIdentity} /\ req[r].used \in Kinds
    <3>1. Progress(r)
      BY DEF RequestInv
    <3>2. req[r].codes \in Seq(Codes)
      <4>1. req[r].codes \in {<<>>, <<502, 200>>} \cup {<<c>> : c \in Codes}
        BY <3>1 DEF Progress
      <4>2. CASE req[r].codes = <<>>
        BY <4>2
      <4>3. CASE req[r].codes = <<502, 200>>
        <5>1. 502 \in Codes /\ 200 \in Codes
          BY DEF Codes
        <5> QED
          BY <4>3, <5>1
      <4>4. CASE req[r].codes \in {<<c>> : c \in Codes}
        <5>1. PICK c \in Codes : req[r].codes = <<c>>
          BY <4>4
        <5> QED
          BY <5>1
      <4> QED
        BY <4>1, <4>2, <4>3, <4>4
    <3>3. req[r].pc \in Pcs
      BY <3>1 DEF Progress, Pcs, Early, Called
    <3> QED
      BY <3>1, <3>2, <3>3 DEF Progress, Codes, Identities
  <2>3. \A f \in DOMAIN meter : meter[f] \in Nat
    <3>1. IsFiniteSet(Reqs)
      BY ScenarioFacts DEF ConfInv
    <3>2. /\ Running \subseteq Reqs /\ Gone \subseteq Reqs /\ Class(200) \subseteq Reqs
          /\ Class(400) \subseteq Reqs /\ Class(500) \ FailedListings \subseteq Reqs
          /\ FailedListings \subseteq Reqs
      BY DEF Running, Gone, Class, FailedListings
    <3>3. /\ Cardinality(Running) \in Nat /\ Cardinality(Gone) \in Nat
          /\ Cardinality(Class(200)) \in Nat /\ Cardinality(Class(400)) \in Nat
          /\ Cardinality(Class(500) \ FailedListings) \in Nat
          /\ Cardinality(FailedListings) \in Nat
      BY <3>1, <3>2, FS_Subset, FS_CardinalityType
    <3>4. /\ meter["active"] \in Nat /\ meter["latency"] \in Nat /\ meter["succeeded"] \in Nat
          /\ meter["errored"] \in Nat /\ meter["failed"] \in Nat
          /\ meter["errorEvents"] \in Nat /\ meter["auditEvents"] \in Nat
      BY <3>3 DEF MeterInv
    <3> QED
      BY <3>4 DEF MeterInv
  <2>4. levels.error \in Int /\ levels.audit \in Int
    BY DEF ConfInv
  <2> QED
    BY <2>1, <2>2, <2>3, <2>4
       DEF TypeOK, ConfInv, UpdateInv, DiskInv, StoreInv, Checked, MissingInv
<1> QED
  BY <1>1, Invariance, PTL

(* Access control: however Updates, ticks, signals and requests            *)
(* interleave, a handler is called only for a request that a configuration *)
(* permits which was in force since it arrived; it uses the key store of   *)
(* such a one; and what is in force can be enforced.                       *)
THEOREM AccessControl == Spec => []Authorized
<1>1. IInv => Authorized
  <2> SUFFICES ASSUME IInv PROVE Authorized
    OBVIOUS
  <2> USE DEF IInv
  <2>1. ASSUME up = "up", NEW c \in inForce
        PROVE  Sound(c)
    <3>1. Accepted(c) /\ (Daemon => Careful(c))
      BY <2>1 DEF ConfInv, Proposed
    <3>2. \A p1, p2 \in DOMAIN c.policies :
              \A i \in DOMAIN c.policies[p1].ids, j \in DOMAIN c.policies[p2].ids :
                  c.policies[p1].ids[i] = c.policies[p2].ids[j] => p1 = p2 /\ i = j
      BY <3>1, PoliciesExclusive DEF Accepted
    <3> QED
      BY <3>1, <3>2 DEF Sound, Careful
  <2>2. \A r \in Reqs : Met(r)
    BY DEF RequestInv
  <2> QED
    BY <2>1, <2>2 DEF Authorized, Met
<1> QED
  BY <1>1, Invariance, PTL

(* The books: audit records, the gauge of active requests and the counters *)
(* of answers are right, also while the server is reconfigured and after   *)
(* panics.                                                                 *)
THEOREM Books == Spec => []Accounted
<1>1. IInv => Accounted
  <2> SUFFICES ASSUME IInv PROVE Accounted
    OBVIOUS
  <2> USE DEF IInv
  <2>1. ASSUME NEW r \in Reqs
        PROVE  Cardinality(Audits(r)) <= 1
    <3>1. CASE Audits(r) = {}
      BY <3>1, FS_EmptySet
    <3>2. CASE Audits(r) # {}
      <4>1. PICK i : i \in Audits(r)
        BY <3>2
      <4>2. Audits(r) = {i}
        BY <4>1 DEF Audits, AuditInv
      <4>3. Cardinality({i}) = 1
        BY FS_Singleton
      <4> QED
        BY <4>2, <4>3
    <3> QED
      BY <3>1, <3>2
  <2>2. ASSUME NEW r \in Reqs, NEW i \in Audits(r)
        PROVE  /\ audit[i].id = req[r].id /\ req[r].granted
               /\ Request(r).api \in {"createKey", "importKey", "deleteKey"}
               /\ req[r].codes = <<200>>
    BY DEF Audits, AuditInv, Recorded, Mutators
  <2>3. ASSUME NEW r \in Reqs, Answered(r), req[r].granted, req[r].audited,
               Request(r).api \in {"createKey", "importKey", "deleteKey"}
        PROVE  Audits(r) # {}
    <3>1. Due(r)
      BY <2>3 DEF AuditInv
    <3>2. \E i \in DOMAIN audit : audit[i].of = r
      BY <2>3, <3>1 DEF Due, Answered, Mutators
    <3> QED
      BY <3>2 DEF Audits
  <2> DEFINE ok == Class(200)
             bad == Class(500)
             odd == FailedListings
  <2>4. /\ Cardinality(ok) \in Nat /\ Cardinality(odd) \in Nat /\ Cardinality(bad \ odd) \in Nat
        /\ Cardinality(bad) = Cardinality(bad \ odd) + Cardinality(odd)
    <3>1. IsFiniteSet(Reqs) /\ ok \subseteq Reqs /\ bad \subseteq Reqs /\ odd \subseteq bad
      BY ScenarioFacts DEF ConfInv, Class, FailedListings
    <3> HIDE DEF ok, bad, odd
    <3>2. IsFiniteSet(ok) /\ IsFiniteSet(bad) /\ IsFiniteSet(odd) /\ IsFiniteSet(bad \ odd)
      BY <3>1, FS_Subset
    <3>3. bad = (bad \ odd) \cup odd /\ (bad \ odd) \cap odd = {}
      BY <3>1
    <3>4. Cardinality((bad \ odd) \cup odd) =
              Cardinality(bad \ odd) + Cardinality(odd) - Cardinality((bad \ odd) \cap odd)
      BY <3>2, FS_Union
    <3>5. /\ Cardinality(ok) \in Nat /\ Cardinality(odd) \in Nat
          /\ Cardinality(bad \ odd) \in Nat
      BY <3>2, FS_CardinalityType
    <3>6. Cardinality((bad \ odd) \cap odd) = 0
      BY <3>3, FS_EmptySet
    <3>7. Cardinality(bad) = Cardinality((bad \ odd) \cup odd)
      BY <3>3
    <3> QED
      BY <3>4, <3>5, <3>6, <3>7
  <2>5. /\ meter.succeeded = Cardinality(ok) + Cardinality(odd)
        /\ meter.failed = Cardinality(bad \ odd)
    BY DEF MeterInv
  <2>6. /\ meter.failed >= Cardinality(Class(500) \ FailedListings)
        /\ meter.succeeded >= Cardinality(Class(200))
        /\ meter.succeeded + meter.failed = Cardinality(Class(200)) + Cardinality(Class(500))
    <3> HIDE DEF ok, bad, odd
    <3>1. /\ meter.failed >= Cardinality(bad \ odd) /\ meter.succeeded >= Cardinality(ok)
          /\ meter.succeeded + meter.failed = Cardinality(ok) + Cardinality(bad)
      BY <2>4, <2>5
    <3> QED
      BY <3>1 DEF ok, bad, odd
  <2> QED
    BY <2>1, <2>2, <2>3, <2>6 DEF Accounted, MeterInv, Running, Gone
<1> QED
  BY <1>1, Invariance, PTL
=============================================================================
