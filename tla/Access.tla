------------------------------- MODULE Access -------------------------------
(***************************************************************************)
(* auth.go, state.go and internal/api: which request may call which API.   *)
(*                                                                         *)
(* A request names an API, a method, the certificates the client sent, and *)
(* a resource: a name, the empty string, or a pattern.                     *)
(***************************************************************************)
EXTENDS Listing, Sequences

NoIdentity == Empty    \* identities, like names, are ranks in their order

(* Resources: "" is Resource(Empty, FALSE), "*" is Resource(Empty, TRUE),  *)
(* "n*" is Resource(n, TRUE), and Invalid holds a character that neither   *)
(* names nor patterns have, or is too long.                                *)
Resource(n, star) == [name |-> n, star |-> star]
Invalid == Resource(-1, FALSE)

validName(s) == s.name \in Names /\ ~s.star
validPattern(s) == s.name >= 0

-----------------------------------------------------------------------------
(* The routes of initRoutes.  Counted handlers are wrapped in the metrics  *)
(* Count and Latency; a route without Timeout never times out.             *)
RouteOf(method, auth, counted, timeout) ==
    [Method |-> method, Auth |-> auth, Counted |-> counted, Timeout |-> timeout]
Verified(method, counted) == RouteOf(method, "verifyIdentity", counted, TRUE)

ServerRoutes ==
    [version |-> RouteOf("GET", "InsecureSkipVerify", FALSE, TRUE),
     ready |-> Verified("GET", FALSE), status |-> Verified("GET", FALSE),
     metrics |-> Verified("GET", FALSE), listAPIs |-> Verified("GET", FALSE)]

KeyRoutes ==
    [createKey |-> Verified("PUT", TRUE), importKey |-> Verified("PUT", TRUE),
     describeKey |-> Verified("GET", TRUE), listKeys |-> Verified("GET", TRUE),
     deleteKey |-> Verified("DELETE", TRUE), encryptKey |-> Verified("PUT", TRUE),
     generateKey |-> Verified("PUT", TRUE), decryptKey |-> Verified("PUT", TRUE),
     hmacKey |-> Verified("PUT", TRUE)]

PolicyRoutes ==
    [describePolicy |-> Verified("GET", TRUE), readPolicy |-> Verified("GET", TRUE),
     listPolicies |-> Verified("GET", TRUE)]

IdentityRoutes ==
    [describeIdentity |-> Verified("GET", TRUE), listIdentities |-> Verified("GET", TRUE),
     selfDescribeIdentity |-> RouteOf("GET", "insecureIdentifyOnly", TRUE, TRUE)]

LogRoutes ==
    [logError |-> RouteOf("GET", "verifyIdentity", FALSE, FALSE),
     logAudit |-> RouteOf("GET", "verifyIdentity", FALSE, FALSE)]

APIs == UNION {DOMAIN ServerRoutes, DOMAIN KeyRoutes, DOMAIN PolicyRoutes,
               DOMAIN IdentityRoutes, DOMAIN LogRoutes}
Routes ==
    [api \in APIs |->
        CASE api \in DOMAIN ServerRoutes -> ServerRoutes[api]
          [] api \in DOMAIN KeyRoutes -> KeyRoutes[api]
          [] api \in DOMAIN PolicyRoutes -> PolicyRoutes[api]
          [] api \in DOMAIN IdentityRoutes -> IdentityRoutes[api]
          [] api \in DOMAIN LogRoutes -> LogRoutes[api]]

(* initRoutes with the APIs whose configuration has InsecureSkipAuth.      *)
initRoutes(skip) ==
    [api \in APIs |-> IF api \in skip THEN [Routes[api] EXCEPT !.Auth = "insecureIdentifyOnly"]
                      ELSE Routes[api]]

(* initPolicies fails if a name or an identity is invalid or if an         *)
(* identity is assigned twice; a policy lists its identities.              *)
Assigned(policies) == UNION {{p} \X DOMAIN policies[p].ids : p \in DOMAIN policies}
IdentityAt(policies, at) == policies[at[1]].ids[at[2]]

initPoliciesOK(policies) ==
    /\ DOMAIN policies \subseteq Names
    /\ \A a \in Assigned(policies) : IdentityAt(policies, a) \in Names
    /\ \A a, b \in Assigned(policies) : IdentityAt(policies, a) = IdentityAt(policies, b) => a = b

identitySet(policies) ==
    [id \in {IdentityAt(policies, a) : a \in Assigned(policies)} |->
        (CHOOSE a \in Assigned(policies) : IdentityAt(policies, a) = id)[1]]

-----------------------------------------------------------------------------
(* Route.ServeHTTP: the method check, POST counting as PUT.                *)
MethodAllowed(route, method) ==
    method = route.Method \/ (method = "POST" /\ route.Method = "PUT")

(* identifyRequest: the identity of the only certificate that is not a     *)
(* CA's.  Without TLS, which the listener enforces, there is none.         *)
identifyRequest(certs) ==
    LET leafs == {i \in DOMAIN certs : ~certs[i].ca}
    IN  IF Cardinality(leafs) = 1 THEN certs[CHOOSE i \in leafs : TRUE].id ELSE NoIdentity

(* kes.Policy.Verify: no deny rule and at least one allow rule applies.  A *)
(* rule names an API and one of its names, or all with Empty.              *)
Applies(rule, q) == rule[1] = q.api /\ rule[2] \in {Empty, q.resource.name}

PolicyVerify(policy, q) ==
    /\ ~ \E rule \in policy.deny : Applies(rule, q)
    /\ \E rule \in policy.allow : Applies(rule, q)

(* verifyIdentity.Authenticate: the status code of its error, or 0.        *)
verifyIdentity(conf, q) ==
    LET id == identifyRequest(q.certs)
        identities == identitySet(conf.policies)
        permitted == id \in DOMAIN identities /\ PolicyVerify(conf.policies[identities[id]], q)
    IN  IF id = NoIdentity THEN 400
        ELSE IF id = conf.admin \/ permitted THEN 0 ELSE 403

(* insecureIdentifyOnly and InsecureSkipVerify never fail.                 *)
Authenticate(route, conf, q) ==
    IF route.Auth = "verifyIdentity" THEN verifyIdentity(conf, q) ELSE 0

Identity(route, q) ==
    IF route.Auth = "InsecureSkipVerify" THEN NoIdentity ELSE identifyRequest(q.certs)
=============================================================================
