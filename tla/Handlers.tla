------------------------------ MODULE Handlers ------------------------------
(***************************************************************************)
(* The API handlers of server.go, from the serverState that a handler      *)
(* loads to what it answers.                                               *)
(*                                                                         *)
(* A handler is an operator of a call x:                                   *)
(*   q       the request                   conf    the configuration of    *)
(*   id      its identity                          the loaded state        *)
(*   random  what it draws at random       keys    its key store           *)
(*   cipher  the ciphertext in its body    held    the values the store    *)
(*   build   the build: FIPS, CPU                  has held for each name  *)
(*   faults  whether backends may fail                                     *)
(* and is the set of effects the handler may have:                         *)
(*   codes   the status codes it passes to WriteHeader, <<>> if it panics  *)
(*   log     whether it loads the state once more to log an error first    *)
(*   audit   whether it loads the state once more to write an audit record *)
(*   result  the body of its answer                                        *)
(*   put     what the key store holds for the name from then on            *)
(***************************************************************************)
EXTENDS Access, Crypto

NoKey == KeyVersion(0, "AES256", NoHMAC, NoIdentity)
Nothing == Stored("none", "", NoKey)   \* the store has no such key
Keep == Stored("keep", "", NoKey)      \* the call does not change the store
NoResult == [kind |-> "none"]

Effect(codes, log, audit, result, put) ==
    [codes |-> codes, log |-> log, audit |-> audit, result |-> result, put |-> put]

(* Response.Reply, Response.ReplyWith, Response.Fail, and a panic.         *)
ReplyWith(result) == Effect(<<200>>, FALSE, FALSE, result, Keep)
Fail(code) == Effect(<<code>>, FALSE, FALSE, NoResult, Keep)
LogAndFail(code) == Effect(<<code>>, TRUE, FALSE, NoResult, Keep)
Panic == Effect(<<>>, FALSE, FALSE, NoResult, Keep)
Audited(put) == Effect(<<200>>, FALSE, TRUE, NoResult, put)

(* The errors of the kms-go client library, by their status codes.         *)
ErrKeyExists == Fail(400)
ErrDecrypt == Fail(400)
ErrNotFound == Fail(404)

(* An error of a backend, which the in-memory store does not have.  None   *)
(* is an API error: fortanix, which makes one of what the service sends,   *)
(* puts its text into another error.                                       *)
BackendErrors(x) ==
    IF ~x.faults \/ x.conf.keys = "mem" THEN {} ELSE {LogAndFail(502)}

(* The random source or the binary's build information cannot be read.     *)
SystemErrors(x) == IF x.faults THEN {LogAndFail(500)} ELSE {}

-----------------------------------------------------------------------------
(* keyCache.Create, Delete and Get.  A backend may change the key and      *)
(* still return an error.  A cached key may be one that has been deleted   *)
(* since (KeyCache.tla).                                                   *)

(* What a Create that fails puts: nothing, or the key nevertheless.  In a  *)
(* directory it removes the file, also one that has been there before.     *)
FailedCreate(kind, old, new) ==
    {Keep} \cup (IF old = Nothing THEN {new}
                 ELSE IF kind \in {"fs", "efs"} THEN {Nothing} ELSE {})

(* KeyVault, and Vault with its K/V engine v1, cannot create a key only if *)
(* there is none: the code looks for it first, then writes it (Write).     *)
ChecksFirst == {"azure", "vault"}

KeysCreate(x, key) ==
    LET old == x.keys[x.q.resource.name]
        new == EncodeKeyVersion(key)
        failed == {[e EXCEPT !.put = v] :
                    e \in BackendErrors(x), v \in FailedCreate(x.conf.keys, old, new)}
    IN  IF ~CanEncode(key) THEN {LogAndFail(502)}
        ELSE {IF old = Nothing THEN Audited(new) ELSE ErrKeyExists} \cup failed

(* gemalto's 404 stands for a key that is not there and for one that must  *)
(* not be accessed; its Delete takes both for success, as azure and vault  *)
(* do with a key that is not there.                                        *)
Denied(x) == x.faults /\ x.conf.keys = "gemalto"

KeysDelete(x) ==
    LET errors == BackendErrors(x)
        absent == IF x.conf.keys \in {"azure", "gemalto", "vault"} THEN Audited(Keep)
                  ELSE ErrNotFound
    IN  IF x.keys[x.q.resource.name] = Nothing THEN {absent} \cup errors
        ELSE {Audited(Nothing)} \cup (IF Denied(x) THEN {absent} ELSE {})
                \cup errors \cup {[e EXCEPT !.put = Nothing] : e \in errors}

Cacheable(v) == ~ParsePanics(v) /\ ParseKeyVersion(v).ok

(* What Get may find: what the store holds, or a key of the cache.         *)
GetFinds(x) ==
    LET name == x.q.resource.name
    IN  {v \in x.held[name] : v = x.keys[name] \/ Cacheable(v)}

KeysGet(x, Use(_)) ==
    LET Read(v) == LET parsed == ParseKeyVersion(v)
                   IN  IF ParsePanics(v) THEN {Panic}
                       ELSE IF parsed.ok THEN Use(parsed.key) ELSE {LogAndFail(502)}
    IN  (IF x.keys[x.q.resource.name] = Nothing \/ Denied(x) THEN {ErrNotFound} ELSE {})
            \cup (UNION {Read(v) : v \in GetFinds(x)})
            \cup BackendErrors(x)

(* The Status of the backends.  An answer, whatever it is, tells that the  *)
(* service is reachable; entrust and vault look at it.                     *)
Answers(x) == IF x.faults THEN {"ok", "unreachable", "error"} ELSE {"ok"}

MemStatus(x) == {"ok"}
fsStatus(x) == Answers(x) \ {"error"}
efsStatus(x) == fsStatus(x)
awsStatus(x) == Answers(x)
gcpStatus(x) == Answers(x)
azureStatus(x) == Answers(x)
vaultStatus(x) == Answers(x)
entrustStatus(x) == Answers(x)
gemaltoStatus(x) == Answers(x)
fortanixStatus(x) == Answers(x)

(* keyCache.Status.                                                        *)
KeysStatus(x) ==
    CASE x.conf.keys = "mem" -> MemStatus(x)
      [] x.conf.keys = "fs" -> fsStatus(x)
      [] x.conf.keys = "efs" -> efsStatus(x)
      [] x.conf.keys = "aws" -> awsStatus(x)
      [] x.conf.keys = "gcp" -> gcpStatus(x)
      [] x.conf.keys = "azure" -> azureStatus(x)
      [] x.conf.keys = "vault" -> vaultStatus(x)
      [] x.conf.keys = "entrust" -> entrustStatus(x)
      [] x.conf.keys = "gemalto" -> gemaltoStatus(x)
      [] x.conf.keys = "fortanix" -> fortanixStatus(x)

-----------------------------------------------------------------------------
version(x) == {ReplyWith(NoResult)} \cup SystemErrors(x)

ready(x) ==
    {CASE s = "ok" -> ReplyWith(NoResult)
       [] s = "unreachable" -> LogAndFail(504)
       [] s = "error" -> LogAndFail(502) : s \in KeysStatus(x)}

status(x) ==
    {ReplyWith([kind |-> "status", unreachable |-> s # "ok"]) : s \in KeysStatus(x)}
        \cup SystemErrors(x)

metrics(x) == {ReplyWith(NoResult)}

listAPIs(x) == {ReplyWith([kind |-> "apis", routes |-> initRoutes(x.conf.skip)])}

createKey(x) ==
    LET cipher == DetermineSecretKeyType(x.build)
    IN  IF ~validName(x.q.resource) THEN {Fail(400)}
        ELSE KeysCreate(x, GenerateSecretKey(cipher, x.random, x.id)) \cup SystemErrors(x)

(* api.ReadBody fails if there is no body, or not the expected one.        *)
BadBody(x) == ~x.q.body.sent \/ ~x.q.body.valid
InvalidBody == LogAndFail(400)

(* The algorithm names of importKey; the client chooses key and cipher.    *)
Importable(x) ==
    /\ ParseSecretKeyType(x.q.body.algorithm) # "invalid"
    /\ x.build.fips => ParseSecretKeyType(x.q.body.algorithm) = "AES256"
    /\ x.q.body.size = 32

importKey(x) ==
    LET key == KeyVersion(x.q.body.bytes, ParseSecretKeyType(x.q.body.algorithm), x.random, x.id)
    IN  IF ~validName(x.q.resource) THEN {Fail(400)}
        ELSE IF BadBody(x) THEN {InvalidBody}
        ELSE IF ~Importable(x) THEN {Fail(406)}
        ELSE KeysCreate(x, key) \cup SystemErrors(x)

describeKey(x) ==
    LET Describe(key) == {ReplyWith([kind |-> "key", cipher |-> key.cipher, by |-> key.by])}
    IN  IF ~validName(x.q.resource) THEN {Fail(400)} ELSE KeysGet(x, Describe)

deleteKey(x) == IF ~validName(x.q.resource) THEN {Fail(400)} ELSE KeysDelete(x)

-----------------------------------------------------------------------------
(* listKeys.  "*" lists all keys; the star of "name*" stays part of the    *)
(* prefix.  gemalto and fortanix ask for one page after the other, see     *)
(* ListRound.  After an error of the key store the handler goes on.        *)
ListPrefix(x) ==
    IF x.q.resource.star THEN Starred(x.q.resource.name) ELSE x.q.resource.name

Listed(listing) == ReplyWith([kind |-> "names", listing |-> listing])
ListFailed(e) == IF e.log THEN [e EXCEPT !.codes = <<502, 200>>] ELSE e

Stocked(x) == {n \in Names : x.keys[n] # Nothing}

Paged(x) == x.q.api = "listKeys" /\ x.conf.keys \in {"gemalto", "fortanix"}

(* The List methods that return all at once: from all names they found.    *)
ListErrors(x) == {ListFailed(e) : e \in BackendErrors(x)}
ListAll(x) == {Listed(List(Stocked(x), ListPrefix(x), -1))} \cup ListErrors(x)

memList(x) == {Listed(MemList(Stocked(x), ListPrefix(x), -1))}
fsList(x) == ListAll(x)
efsList(x) == fsList(x)
awsList(x) == ListAll(x)
gcpList(x) == ListAll(x)
azureList(x) == ListAll(x)
vaultList(x) == ListAll(x)
entrustList(x) == {Listed(EntrustList(Stocked(x), ListPrefix(x), -1))} \cup ListErrors(x)

listKeys(x) ==
    IF ~validPattern(x.q.resource) THEN {Fail(400)}
    ELSE CASE x.conf.keys = "mem" -> memList(x)
           [] x.conf.keys = "fs" -> fsList(x)
           [] x.conf.keys = "efs" -> efsList(x)
           [] x.conf.keys = "aws" -> awsList(x)
           [] x.conf.keys = "gcp" -> gcpList(x)
           [] x.conf.keys = "azure" -> azureList(x)
           [] x.conf.keys = "vault" -> vaultList(x)
           [] x.conf.keys = "entrust" -> entrustList(x)

ListRound(x, so) ==
    IF x.conf.keys = "gemalto" THEN GemaltoRound(Stocked(x), so)
    ELSE FortanixRound(Stocked(x), ListPrefix(x), so)

(* How a paged listing ends: after the last round, with an error of the    *)
(* backend, or because the client left and the context is done.            *)
ListEnd(x, round) ==
    (IF round.last THEN {Listed(List(round.names, ListPrefix(x), -1))} ELSE {})
        \cup ListErrors(x)
ListCanceled == ListFailed(LogAndFail(502))

-----------------------------------------------------------------------------
(* What a client learns when it encrypts: which ciphertext stands for its  *)
(* plaintext and its context.                                              *)
Encrypted(x, key, plaintext) ==
    IF ~Usable(x.build, key) THEN {LogAndFail(500)}
    ELSE {ReplyWith([kind |-> "ciphertext", plaintext |-> plaintext, context |-> x.q.body.context,
                     ciphertext |-> Encrypt(key, x.random, x.q.body.context, plaintext)])}
         \cup SystemErrors(x)

encryptKey(x) ==
    LET Use(key) == Encrypted(x, key, x.q.body.plaintext)
    IN  IF ~validName(x.q.resource) THEN {Fail(400)}
        ELSE IF BadBody(x) THEN {InvalidBody}
        ELSE KeysGet(x, Use)

(* The body is optional; the data key is random.                           *)
generateKey(x) ==
    LET Use(key) == Encrypted(x, key, x.random) \cup SystemErrors(x)
    IN  IF ~validName(x.q.resource) THEN {Fail(400)}
        ELSE IF x.q.body.sent /\ BadBody(x) THEN {InvalidBody}
        ELSE KeysGet(x, Use)

decryptKey(x) ==
    LET Use(key) ==
            IF ~Usable(x.build, key) THEN {LogAndFail(500)}
            ELSE IF Decrypts(key, x.cipher, x.q.body.context)
                 THEN {ReplyWith([kind |-> "plaintext", plaintext |-> Decrypt(x.cipher)])}
                 ELSE {ErrDecrypt}
    IN  IF ~validName(x.q.resource) THEN {Fail(400)}
        ELSE IF BadBody(x) THEN {InvalidBody}
        ELSE KeysGet(x, Use)

hmacKey(x) ==
    LET Use(key) == IF HasHMACKey(key)
                    THEN {ReplyWith([kind |-> "sum", sum |-> Sum(key, x.q.body.plaintext)])}
                    ELSE {Fail(409)}
    IN  IF ~validName(x.q.resource) THEN {Fail(400)}
        ELSE IF BadBody(x) THEN {InvalidBody}
        ELSE KeysGet(x, Use)

-----------------------------------------------------------------------------
describePolicy(x) ==
    IF ~validName(x.q.resource) THEN {Fail(400)}
    ELSE IF x.q.resource.name \notin DOMAIN x.conf.policies THEN {ErrNotFound}
    ELSE {ReplyWith([kind |-> "policy", by |-> x.conf.admin])}

PolicyResult(x, p) ==
    [kind |-> "rules", name |-> p, allow |-> x.conf.policies[p].allow,
     deny |-> x.conf.policies[p].deny, by |-> x.conf.admin]

readPolicy(x) ==
    IF ~validName(x.q.resource) THEN {Fail(400)}
    ELSE IF x.q.resource.name \notin DOMAIN x.conf.policies THEN {ErrNotFound}
    ELSE {ReplyWith(PolicyResult(x, x.q.resource.name))}

(* Policies and identities are listed without limit; here the star is cut. *)
listPolicies(x) ==
    IF ~validPattern(x.q.resource) THEN {Fail(400)}
    ELSE {Listed(Listing(DOMAIN x.conf.policies \cap StartingWith(x.q.resource.name), Empty))}

describeIdentity(x) ==
    LET identities == identitySet(x.conf.policies)
        id == x.q.resource.name
    IN  IF ~validName(x.q.resource) THEN {Fail(400)}
        ELSE IF id = x.conf.admin THEN {ReplyWith([kind |-> "admin"])}
        ELSE IF id \notin DOMAIN identities THEN {ErrNotFound}
        ELSE {ReplyWith([kind |-> "identity", policy |-> identities[id], by |-> x.conf.admin])}

listIdentities(x) ==
    LET ids == DOMAIN identitySet(x.conf.policies) \cup {x.conf.admin}
    IN  IF ~validPattern(x.q.resource) THEN {Fail(400)}
        ELSE {Listed(Listing(ids \cap StartingWith(x.q.resource.name), Empty))}

(* The identity that is looked up is the resource, which is empty.         *)
selfDescribeIdentity(x) ==
    LET identities == identitySet(x.conf.policies)
    IN  IF x.id = x.conf.admin THEN {ReplyWith([kind |-> "admin"])}
        ELSE IF x.q.resource.name \notin DOMAIN identities THEN {ErrNotFound}
        ELSE {ReplyWith(PolicyResult(x, identities[x.q.resource.name]))}

(* The log APIs answer at once and stay.                                   *)
subscribe(x) == {ReplyWith(NoResult)}
Streams(q) == q.api \in DOMAIN LogRoutes

-----------------------------------------------------------------------------
Handler(x) ==
    CASE x.q.api = "version" -> version(x)
      [] x.q.api = "ready" -> ready(x)
      [] x.q.api = "status" -> status(x)
      [] x.q.api = "metrics" -> metrics(x)
      [] x.q.api = "listAPIs" -> listAPIs(x)
      [] x.q.api = "createKey" -> createKey(x)
      [] x.q.api = "importKey" -> importKey(x)
      [] x.q.api = "describeKey" -> describeKey(x)
      [] x.q.api = "listKeys" -> listKeys(x)
      [] x.q.api = "deleteKey" -> deleteKey(x)
      [] x.q.api = "encryptKey" -> encryptKey(x)
      [] x.q.api = "generateKey" -> generateKey(x)
      [] x.q.api = "decryptKey" -> decryptKey(x)
      [] x.q.api = "hmacKey" -> hmacKey(x)
      [] x.q.api = "describePolicy" -> describePolicy(x)
      [] x.q.api = "readPolicy" -> readPolicy(x)
      [] x.q.api = "listPolicies" -> listPolicies(x)
      [] x.q.api = "describeIdentity" -> describeIdentity(x)
      [] x.q.api = "listIdentities" -> listIdentities(x)
      [] x.q.api = "selfDescribeIdentity" -> selfDescribeIdentity(x)
      [] x.q.api \in {"logError", "logAudit"} -> subscribe(x)
=============================================================================
