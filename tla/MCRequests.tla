----------------------------- MODULE MCRequests -----------------------------
(* Scenarios for Reload: names 1 .. 4 stand for "a", "ab", "b" and "c",  *)
(* identity 1 is the admin and identities 2 and 3 have policies.           *)
EXTENDS Reload

MCLastWith == <<2, 2, 3, 4>>

Cert(i, ca) == [ca |-> ca, id |-> i, trusted |-> i # 3]
Admin == <<Cert(1, FALSE)>>
User(i) == <<Cert(i, FALSE), Cert(1, TRUE)>>
Two == <<Cert(1, FALSE), Cert(2, FALSE)>>
Anonymous == <<>>

KeyAPIs == DOMAIN KeyRoutes
AllOf(apis) == apis \X {Empty}

(* Identity 2 may use all keys but not delete b; 3 may describe a only.    *)
Policies ==
    [p \in {1, 2} |->
        IF p = 1 THEN [ids |-> <<2>>, allow |-> AllOf(KeyAPIs), deny |-> {<<"deleteKey", 3>>}]
        ELSE [ids |-> <<3>>, allow |-> {<<"describeKey", 1>>}, deny |-> {}]]

Conf(kind) ==
    [admin |-> 1, policies |-> Policies, skip |-> {}, keys |-> kind, predefined |-> {},
     audit |-> "h1", errorLog |-> FALSE, levels |-> [error |-> LevelInfo, audit |-> LevelInfo],
     tls |-> [ClientAuth |-> "RequestClientCert", cert |-> 1],
     cache |-> [Expiry |-> Minutes5, ExpiryUnused |-> 0, ExpiryOffline |-> 0]]

(* What an earlier version of the server stored and encrypted.             *)
OldKey == KeyVersion(50, "AES256", NoHMAC, 1)
NewKey == KeyVersion(60, "ChaCha20", 60, 1)
OldStored == Stored("json", "", OldKey)
NewStored == EncodeKeyVersion(NewKey)
Sealed(key, context) == Seal(key, 101, 102, context, 70)
Old(form, known) == Fields(form, known, Sealed(OldKey, 0), 101, 102)

Body ==
    [sent |-> TRUE, valid |-> TRUE, of |-> 0, ciphertext |-> Old("msgp", TRUE), context |-> 0,
     plaintext |-> 80, algorithm |-> "AES256", size |-> 32, bytes |-> 50,
     source |-> [plaintext |-> 70, context |-> 0, key |-> OldKey]]
NoBody == [Body EXCEPT !.sent = FALSE]
BadBodyOf == [Body EXCEPT !.valid = FALSE]

Name(n) == Resource(n, FALSE)
Asks(api, certs, resource, body) ==
    [api |-> api, method |-> Routes[api].Method, certs |-> certs, resource |-> resource,
     body |-> body]
Key(api, n) == Asks(api, User(2), Name(n), Body)
DecryptOf(i, n) == Asks("decryptKey", User(2), Name(n), [Body EXCEPT !.of = i])

NoUpdate(conf) == [method |-> "none", conf |-> conf]
Scenario(conf, stored, faults, requests, update) ==
    [conf |-> conf, stored |-> stored, build |-> [fips |-> FALSE, aes |-> TRUE],
     faults |-> faults, requests |-> requests, update |-> update,
     files |-> <<>>, signals |-> 1]
Quiet(conf, stored, faults, requests) == Scenario(conf, stored, faults, requests, NoUpdate(conf))

(* a holds a key of an earlier version, b one of this version.             *)
Stock == <<OldStored, Nothing, NewStored, Nothing>>
None == <<Nothing, Nothing, Nothing, Nothing>>
Full == <<OldStored, NewStored, NewStored, NewStored>>
Stranded == <<Stored("empty", "", NoKey), Nothing, Stored("json", "DES", OldKey), Nothing>>

Resources == {Name(1), Name(2), Name(3), Name(Empty), Resource(Empty, TRUE), Resource(1, TRUE), Invalid}

(* Each API alone, by each client, with each resource and body.            *)
Single ==
    {Quiet(Conf("aws"), Stock, TRUE, <<Asks(api, certs, res, Body)>>) :
        api \in APIs, certs \in {Admin, User(2), User(3), Two, Anonymous},
        res \in {Name(1), Name(2), Name(Empty)}}
    \cup {Quiet(Conf("aws"), Stock, FALSE, <<Asks(api, Admin, res, b)>>) :
            api \in APIs, res \in Resources, b \in {Body, NoBody, BadBodyOf}}

(* Listings of every store, failing or not.                                *)
Lists ==
    {Quiet(Conf(kind), st, f, <<Asks("listKeys", Admin, res, NoBody)>>) :
        kind \in Kinds, st \in {Stock, None, Full}, f \in BOOLEAN, res \in Resources \ {Invalid}}

Checks ==
    {Quiet(Conf(kind), None, TRUE, <<Asks(api, Admin, Name(Empty), NoBody)>>) :
        kind \in Kinds, api \in {"ready", "status"}}

(* Methods, algorithms, formats, and files that are not keys.              *)
Formats ==
    {Quiet(Conf("mem"), Stock, FALSE,
        <<[Asks("decryptKey", User(2), Name(1), [Body EXCEPT !.ciphertext = c, !.context = x])
            EXCEPT !.method = m]>>) :
        c \in {Old(form, known) : form \in {"msgp", "json"}, known \in BOOLEAN}
              \cup {Raw(Sealed(OldKey, 0), 101, 102)},
        x \in {0, 1}, m \in {"PUT", "POST", "GET"}}
Imports ==
    {[Quiet(Conf("mem"), None, FALSE,
        <<Asks("importKey", User(2), Name(1), [Body EXCEPT !.algorithm = a, !.size = n]),
          Asks("decryptKey", User(2), Name(1), Body),
          Asks("hmacKey", User(2), Name(1), Body)>>) EXCEPT !.build = [fips |-> f, aes |-> f]] :
        a \in {"AES256-GCM_SHA256", "XCHACHA20-POLY1305", "DES"}, n \in {16, 32}, f \in BOOLEAN}
NoKeys ==
    {Quiet(Conf("fs"), Stranded, FALSE, <<Key(api, n), Key("hmacKey", 3)>>) :
        api \in KeyAPIs, n \in {1, 3}}
Fips ==
    {[Quiet(Conf("mem"), Stock, FALSE, <<Key(api, 3)>>) EXCEPT !.build.fips = TRUE] :
        api \in {"encryptKey", "generateKey", "decryptKey"}}

(* Three clients at the same key.                                          *)
Three ==
    {Quiet(Conf("aws"), None, b = "deleteKey", <<Key("createKey", 1), Key(b, 1), Key(c, 1)>>) :
        <<b, c>> \in {"createKey"} \X {"importKey", "listKeys"}
                    \cup {"deleteKey"} \X {"describeKey", "hmacKey"}}
Trips ==
    {Quiet(Conf(kind), Stock, FALSE, <<Key(a, n), Key(b, n), DecryptOf(1, m)>>) :
        kind \in {"mem"}, a \in {"encryptKey", "generateKey"}, b \in {"deleteKey", "createKey"},
        n \in {1, 3}, m \in {1, 3}}
    \cup {Quiet(Conf("mem"), Full, FALSE,      \* ab and b stand for the same key
            <<Key("encryptKey", 2), Key("deleteKey", n), DecryptOf(1, 3)>>) : n \in {2, 3}}

(* Creates that race, and creates that fail, of a key that is there or     *)
(* not; deletions of keys that are not there or must not be accessed.      *)
Races ==
    {Quiet(Conf(kind), None, FALSE, <<Key("createKey", 1), Key("createKey", 1), Key(b, 1)>>) :
        kind \in {"azure", "vault"}, b \in {"describeKey", "deleteKey"}}
    \cup {Scenario(Conf("vault"), None, FALSE,
            <<Key("createKey", 1), Key("encryptKey", 1), DecryptOf(2, 1)>>,
            [method |-> "Update", conf |-> [Conf("vault") EXCEPT !.predefined = {1}]])}
    \cup {Quiet(Conf(kind), st, TRUE, <<Key("createKey", 1), Key(b, 1)>>) :
            kind \in {"fs", "vault"}, st \in {Stock, None}, b \in {"createKey", "describeKey"}}
    \cup {Quiet(Conf(kind), Stock, TRUE, <<Key("deleteKey", n), Key("describeKey", 1)>>) :
            kind \in {"azure", "gemalto", "fortanix"}, n \in {1, 2}}
    \cup {Scenario(Conf("aws"), Stock, f, <<Key("createKey", 2)>>,
              [method |-> "Update", conf |-> [Conf(kind) EXCEPT !.predefined = {1, 2}]]) :
            kind \in {"vault", "azure"}, f \in BOOLEAN}
    \cup {Scenario(Conf(kind), Stock, kind = "fs", <<Key("createKey", 2), Key("describeKey", 1)>>,
              [method |-> "Update", conf |-> [Conf(kind) EXCEPT !.predefined = {1, 2}]]) :
            kind \in {"vault", "fs"}}

(* Listings in pages while keys come and go; a client leaves.              *)
Pages ==
    {Quiet(Conf(kind), Full, FALSE,
        <<Asks("listKeys", Admin, res, NoBody), Asks(b, Admin, Name(2), Body)>>) :
        kind \in {"gemalto", "fortanix", "entrust"}, res \in {Name(Empty), Name(1), Name(3)},
        b \in {"deleteKey", "createKey"}}

(* Subscribers of the logs while errors and audit records are written.     *)
Watched ==
    {Quiet(Conf("aws"), None, TRUE,
        <<Asks(log, Admin, Name(Empty), NoBody), Key("createKey", 1), Key("describeKey", 2)>>) :
        log \in {"logError", "logAudit"}}

(* Reconfigurations while two requests run.                                *)
NewPolicies == [p \in {1, 2} |-> [Policies[3 - p] EXCEPT !.ids = Policies[p].ids]]
TwicePolicies == [p \in {1, 2} |-> [Policies[p] EXCEPT !.ids = <<2>>]]
NewConfs ==
    {[Conf("aws") EXCEPT !.skip = KeyAPIs], [Conf("mem") EXCEPT !.predefined = {1}],
     [Conf("aws") EXCEPT !.predefined = {1, 3}],
     [Conf("aws") EXCEPT !.policies = NewPolicies], [Conf("aws") EXCEPT !.policies = TwicePolicies],
     [Conf("aws") EXCEPT !.audit = "h2"], [Conf("aws") EXCEPT !.audit = "off"],
     [Conf("aws") EXCEPT !.audit = "keep", !.levels.audit = 4],
     [Conf("aws") EXCEPT !.audit = "keep", !.errorLog = TRUE]}
OldConfs == {Conf("aws"), [Conf("aws") EXCEPT !.skip = KeyAPIs],
             [Conf("aws") EXCEPT !.audit = "off", !.levels.audit = 4]}
Reloads ==
    {Scenario(c[1], Stock, c[3], <<Key("createKey", 2), Asks("deleteKey", User(3), Name(3), NoBody)>>,
              [method |-> "Update", conf |-> c[2]]) :
        c \in {Conf("aws")} \X NewConfs \X {FALSE}
            \cup {Conf("aws")} \X {n \in NewConfs : n.predefined # {} \/ n.errorLog} \X {TRUE}
            \cup OldConfs \X {Conf("aws")} \X {FALSE}}
Changes ==
    {Scenario(Conf("aws"), Stock, FALSE, <<Key("describeKey", 1), Asks("deleteKey", User(3), Name(1), NoBody)>>,
              [method |-> m, conf |-> [Conf("aws") EXCEPT !.policies = p, !.admin = 3]]) :
        m \in {"UpdateAdmin", "UpdatePolicies"}, p \in {NewPolicies, TwicePolicies}}
    \cup {Scenario(Conf("aws"), Stock, FALSE, <<Key("describeKey", 1)>>,
            [method |-> "UpdateAdmin", conf |-> [Conf("aws") EXCEPT !.admin = NoIdentity]])}

(* cmd/kes: what the configuration file says.                              *)
Level(name, plus, number) == [name |-> name, plus |-> plus, number |-> number]
File ==
    [readable |-> TRUE, env |-> TRUE, version |-> "v1", admin |-> 1,
     tls |-> [given |-> {"key", "cert"}, auth |-> "",
              files |-> [pem |-> TRUE, match |-> TRUE, encrypted |-> FALSE, san |-> TRUE,
                         capem |-> FALSE, cert |-> 1]],
     proxies |-> {4}, policies |-> Policies, cache |-> [any |-> 0, unused |-> 0, offline |-> 0],
     log |-> [error |-> Level("", 0, TRUE), audit |-> Level("ON", 0, TRUE)],
     paths |-> [p \in {"status"} |-> [skip |-> FALSE, timeout |-> 0]], keys |-> <<3>>,
     stores |-> [fs |-> {"path"}]]
Store(kind, has) == [k \in {kind} |-> has]
Skips(y) == [y EXCEPT !.paths["status"].skip = TRUE]

Watchful == {Skips(File), [Skips(File) EXCEPT !.tls.auth = "on"], [File EXCEPT !.tls.auth = "on"]}
Good ==
    {[File EXCEPT !.policies = NewPolicies],
     [File EXCEPT !.tls.auth = "off", !.version = "", !.tls.files.cert = 2,
                  !.tls.given = {"key", "cert", "password", "ca"}, !.tls.files.capem = TRUE,
                  !.tls.files.encrypted = TRUE],
     [File EXCEPT !.log.audit = Level("OFF", 0, TRUE), !.log.error = Level("WARN", 2, TRUE),
                  !.cache = [any |-> 60, unused |-> 0, offline |-> 10]],
     [File EXCEPT !.stores = Store("efs", {"masterKeyPath", "masterKeyCipher", "path"}),
                  !.log.audit = Level("number", 3, TRUE), !.cache.unused = 20, !.keys = <<1, 4>>]}
Others ==
    {Store("vault", {"endpoint", "approle", "id", "secret"}),
     Store("vault", {"endpoint", "kubernetes", "jwt", "transit", "transitKey", "tlsKey", "tlsCert"}),
     Store("fortanix", {"endpoint", "apiKey"}), Store("gemalto", {"endpoint", "token"}),
     Store("gcp", {"projectID"}), Store("aws", {"endpoint", "region"}), Store("azure", {"endpoint"}),
     Store("azure", {"endpoint", "credentials", "tenantID", "clientID", "secret"}),
     Store("entrust", {"endpoint", "vaultID", "boxID", "credentials", "username", "password"})}
Bad ==
    {[File EXCEPT !.readable = FALSE], [File EXCEPT !.env = FALSE], [File EXCEPT !.version = "v2"],
     [File EXCEPT !.admin = NoIdentity], [File EXCEPT !.admin = 2], [File EXCEPT !.proxies = {3}],
     [File EXCEPT !.proxies = {1}], [File EXCEPT !.tls.given = {"key"}],
     [File EXCEPT !.tls.auth = "maybe"], [File EXCEPT !.tls.files.san = FALSE],
     [File EXCEPT !.tls.files.match = FALSE], [File EXCEPT !.tls.files.encrypted = TRUE],
     [File EXCEPT !.tls.given = {"key", "cert", "ca"}], [File EXCEPT !.cache.any = -1],
     [File EXCEPT !.paths["status"].timeout = -1], [File EXCEPT !.keys = <<3, 3>>],
     [File EXCEPT !.log.audit = Level("DEBUG", 0, FALSE)], [File EXCEPT !.policies = TwicePolicies],
     [File EXCEPT !.log.error = Level("LOUD", 0, FALSE)]}
        \cup {[File EXCEPT !.stores = st] : st \in
                {<<>>, Store("kes", {"endpoint"}), [k \in {"fs", "aws"} |-> {"path"}],
                 Store("vault", {"endpoint", "approle", "kubernetes", "id", "secret", "jwt"}),
                 Store("vault", {"endpoint", "kubernetes", "jwt", "jwtMissing"}),
                 Store("azure", {"endpoint", "credentials", "managedIdentity"}),
                 Store("entrust", {"endpoint", "vaultID", "boxID"}), Store("gcp", {}),
                 Store("efs", {"masterKeyPath", "masterKeyCipher", "path", "keySize"}),
                 Store("fs", {"path", "notDir"}), Store("gcp", {"projectID", "clientID"}),
                 Store("vault", {"endpoint", "approle", "id", "secret", "caMissing"}),
                 Store("entrust", {"endpoint", "vaultID", "boxID", "credentials", "username",
                                   "password", "caInvalid"}),
                 Store("gemalto", {"endpoint", "token", "caInvalid"}),
                 Store("fortanix", {"endpoint", "apiKey", "caMissing"})}}

Reloading(new, faults, requests) ==
    LET conf == [ConfigOf(File) EXCEPT !.audit = "h1"]
    IN  [Scenario(conf, Stock, faults, requests, [method |-> "SIGHUP", conf |-> conf])
            EXCEPT !.files = <<File, new>>]
Daemons ==
    {Reloading(y, FALSE, <<Asks("status", IF y.tls.auth = "on" THEN User(3) ELSE Anonymous,
                                Name(Empty), NoBody)>>) : y \in Watchful}
        \cup {Reloading(y, FALSE, <<>>) : y \in Good \cup Bad}
        \cup {[Reloading(y, FALSE, <<>>) EXCEPT !.signals = 2] : y \in Good}
        \cup {Reloading([File EXCEPT !.stores = st], TRUE, <<>>) : st \in Others}

MCScenarios ==
    Single \cup Lists \cup Formats \cup Imports \cup NoKeys \cup Fips \cup Three \cup Trips \cup Races
        \cup Pages \cup Watched \cup Checks \cup Reloads \cup Changes \cup Daemons
=============================================================================
