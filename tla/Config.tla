------------------------------- MODULE Config -------------------------------
(***************************************************************************)
(* kesconf: from a configuration file to the kes.Config that the server is *)
(* started with and that a reload hands to Server.Update.                  *)
(*                                                                         *)
(* A file y is what its YAML says:                                         *)
(*   readable  the file can be opened, read, and is a YAML mapping         *)
(*   env       the environment variables it refers to are set              *)
(*   version, admin                                                        *)
(*   tls       which of key, cert and ca it gives, auth, and what the      *)
(*             files of the certificate hold                               *)
(*   proxies   the identities of TLS proxies                               *)
(*   policies, cache, log, paths (the API configuration), keys             *)
(*   stores    the fields each section of "keystore" has                   *)
(* Reading one gives a configuration, an error, or a panic.                *)
(***************************************************************************)
EXTENDS Access

Failed == [ok |-> FALSE, panic |-> FALSE]
Crash == [ok |-> FALSE, panic |-> TRUE]

-----------------------------------------------------------------------------
(* The sections of "keystore": what has to be there.  "kes" is parsed and  *)
(* ignored.                                                                *)
Both(f, g, has) == f \in has <=> g \in has

fsSection(has) == "path" \in has
efsSection(has) == {"masterKeyPath", "masterKeyCipher", "path"} \subseteq has

(* The JWT of kubernetes may be a file, which is read to see whether it    *)
(* can be read; connecting reads it again.                                 *)
vaultSection(has) ==
    /\ "endpoint" \in has
    /\ ("approle" \in has) # ("kubernetes" \in has)
    /\ "approle" \in has => {"id", "secret"} \subseteq has
    /\ "kubernetes" \in has => "jwt" \in has /\ "jwtMissing" \notin has
    /\ "transit" \in has => "transitKey" \in has
    /\ Both("tlsKey", "tlsCert", has)

fortanixSection(has) == {"endpoint", "apiKey"} \subseteq has
gemaltoSection(has) == {"endpoint", "token"} \subseteq has
gcpSection(has) == "projectID" \in has
awsSection(has) == {"endpoint", "region"} \subseteq has

azureSection(has) ==
    /\ "endpoint" \in has
    /\ ~ {"credentials", "managedIdentity"} \subseteq has
    /\ "credentials" \in has => {"tenantID", "clientID", "secret"} \subseteq has
    /\ "managedIdentity" \in has => "clientID" \in has

(* "credentials" is a pointer that is dereferenced unchecked.              *)
entrustSection(has) ==
    {"endpoint", "vaultID", "boxID", "credentials", "username", "password"} \subseteq has
entrustPanics(has) ==
    {"endpoint", "vaultID", "boxID"} \subseteq has /\ "credentials" \notin has

Section(kind, has) ==
    CASE kind = "fs" -> fsSection(has)
      [] kind = "efs" -> efsSection(has)
      [] kind = "vault" -> vaultSection(has)
      [] kind = "fortanix" -> fortanixSection(has)
      [] kind = "gemalto" -> gemaltoSection(has)
      [] kind = "gcp" -> gcpSection(has)
      [] kind = "aws" -> awsSection(has)
      [] kind = "azure" -> azureSection(has)
      [] kind = "entrust" -> entrustSection(has)

(* One section and no other: with two of them the first that is invalid is *)
(* an error, and the second otherwise.                                     *)
ymlToKeyStore(y) ==
    LET given == DOMAIN y.stores \ {"kes"}
        kind == CHOOSE k \in given : TRUE
    IN  IF Cardinality(given) # 1 THEN Failed
        ELSE IF kind = "entrust" /\ entrustPanics(y.stores[kind]) THEN Crash
        ELSE IF ~Section(kind, y.stores[kind]) THEN Failed
        ELSE [ok |-> TRUE, kind |-> kind]

-----------------------------------------------------------------------------
(* Log levels, as a name and what follows its "+": slog.Level's numbers.   *)
LevelWarn == 4
LevelError == 8
LevelInfo == 0

parseLogLevel(s) ==
    LET base == [DEBUG |-> -4, INFO |-> LevelInfo, WARN |-> LevelWarn, ERROR |-> LevelError]
    IN  CASE s.name \in {"", "ON"} -> [ok |-> TRUE, level |-> LevelInfo]
          [] s.name = "OFF" -> [ok |-> TRUE, level |-> LevelError + 1]
          [] s.name \in DOMAIN base -> [ok |-> s.number, level |-> base[s.name] + s.plus]
          [] OTHER -> [ok |-> s.name = "number" /\ s.number, level |-> s.plus]

(* Which certificates the TLS listener asks for.  An API that skips        *)
(* authentication must be reachable without one.                           *)
RequiresCert == {"RequireAnyClientCert", "RequireAndVerifyClientCert"}

clientAuth(y) ==
    LET open == \E p \in DOMAIN y.paths : y.paths[p].skip
    IN  CASE y.tls.auth = "on" /\ ~open -> "RequireAndVerifyClientCert"
          [] y.tls.auth = "on" /\ open -> "VerifyClientCertIfGiven"
          [] y.tls.auth # "on" /\ ~open -> "RequireAnyClientCert"
          [] y.tls.auth # "on" /\ open -> "RequestClientCert"

(* An admin or a proxy has no policy; an admin is no proxy.                *)
ExclusiveIdentities(y) ==
    /\ y.admin \notin y.proxies
    /\ \A a \in Assigned(y.policies) :
        IdentityAt(y.policies, a) \notin y.proxies \cup {y.admin}

NotNegative(y) ==
    /\ \A f \in DOMAIN y.cache : y.cache[f] >= 0
    /\ \A p \in DOMAIN y.paths : y.paths[p].timeout >= 0

ymlToServerConfig(y) ==
    LET store == ymlToKeyStore(y)
        valid == /\ y.admin # NoIdentity
                 /\ {"key", "cert"} \subseteq y.tls.given
                 /\ y.tls.auth \in {"", "on", "off"}
                 /\ ExclusiveIdentities(y) /\ NotNegative(y)
                 /\ parseLogLevel(y.log.error).ok /\ parseLogLevel(y.log.audit).ok
                 /\ \A i, j \in DOMAIN y.keys : y.keys[i] = y.keys[j] => i = j
    IN  IF ~valid THEN Failed ELSE store

(* yaml decodes into env values, each of which looks up its variable.      *)
ReadFrom(y) ==
    IF y.version \notin {"", "v1"} \/ ~y.env THEN Failed ELSE ymlToServerConfig(y)

ReadFile(y) == IF ~y.readable THEN Failed ELSE ReadFrom(y)

-----------------------------------------------------------------------------
(* The files of the certificate: PEM, a key that is not encrypted or whose *)
(* password is given and that belongs to the certificate.                  *)
CertificateFromFile(y) ==
    LET files == y.tls.files
    IN  files.pem /\ files.match /\ (files.encrypted => "password" \in y.tls.given)

CertPoolFromFile(y) == y.tls.files.capem

TLSConfigOK(y) ==
    /\ CertificateFromFile(y)
    /\ y.tls.files.san
    /\ "ca" \in y.tls.given => CertPoolFromFile(y)

TLSConfig(y) == [ClientAuth |-> clientAuth(y), cert |-> y.tls.files.cert]

(* configureCache of cmd/kes: without an expiry for unused keys it is the  *)
(* expiry of all keys that is set.                                         *)
Minutes5 == 300
Seconds30 == 30
configureCache(c) ==
    [Expiry |-> IF c.unused = 0 THEN Seconds30 ELSE IF c.any = 0 THEN Minutes5 ELSE c.any,
     ExpiryUnused |-> c.unused, ExpiryOffline |-> c.offline]

(* File.Config, and the log levels.  Connect reaches the key store or does *)
(* not; audit and error logs are the ones of before.                       *)
ConfigOf(y) ==
    [admin |-> y.admin,
     policies |-> y.policies,
     skip |-> {p \in DOMAIN y.paths : y.paths[p].skip},
     keys |-> ymlToKeyStore(y).kind,
     predefined |-> {y.keys[i] : i \in DOMAIN y.keys},
     audit |-> "keep", errorLog |-> FALSE,
     tls |-> TLSConfig(y),
     cache |-> configureCache(y.cache),
     levels |-> [error |-> parseLogLevel(y.log.error).level,
                 audit |-> parseLogLevel(y.log.audit).level]]

(***************************************************************************)
(* The Connect methods: what they check themselves, and whether the key    *)
(* store, or the file system, works when they turn to it.  A section also  *)
(* has "notDir", "caMissing" and the like if what it names is like that.   *)
(***************************************************************************)
fsNewStore(has, works) == works /\ "notDir" \notin has

loadMasterKey(has, build) ==
    /\ {"keyMissing", "keySize", "cipherUnknown"} \cap has = {}
    /\ build.fips => "cipherChaCha20" \notin has
efsNewStore(has, build, works) == fsNewStore(has, works) /\ loadMasterKey(has, build)

(* The CA file must be there; what is wrong in it goes unnoticed.          *)
VaultKeyStoreConnect(has) == ("approle" \in has) # ("kubernetes" \in has)
vaultConnect(has, works) ==
    /\ VaultKeyStoreConnect(has)
    /\ {"apiVersionUnknown", "caMissing"} \cap has = {}
    /\ works

(* The same function twice: each file is a certificate.                    *)
fortanixCustomCAs(has) == {"caMissing", "caInvalid"} \cap has = {}
gemaltoCustomCAs(has) == {"caMissing", "caInvalid"} \cap has = {}

(* The health of the service, a session that is opened and terminated.     *)
fortanixConnect(has, works) == "endpoint" \in has /\ fortanixCustomCAs(has) /\ works
gemaltoConnect(has, works) == gemaltoCustomCAs(has) /\ works

(* All of the credentials or none; then the service is asked.              *)
gcpCredentials == {"clientEmail", "clientID", "keyID", "key"}
gcpConnect(has, works) ==
    (gcpCredentials \cap has # {} => gcpCredentials \subseteq has) /\ works

awsConnect(has, works) == works

(* No request is sent: an unreachable KeyVault is found out later.         *)
azureConnect(has, works) == ~ {"credentials", "managedIdentity"} \subseteq has

(* Login, and the status of the service.                                   *)
entrustLogin(works) == works
entrustConnect(has, works) ==
    {"caMissing", "caInvalid"} \cap has = {} /\ entrustLogin(works)

Connects(y, build, works) ==
    LET kind == ymlToKeyStore(y).kind
        has == y.stores[kind]
    IN  CASE kind = "fs" -> fsNewStore(has, works)
          [] kind = "efs" -> efsNewStore(has, build, works)
          [] kind = "vault" -> vaultConnect(has, works)
          [] kind = "fortanix" -> fortanixConnect(has, works)
          [] kind = "gemalto" -> gemaltoConnect(has, works)
          [] kind = "gcp" -> gcpConnect(has, works)
          [] kind = "aws" -> awsConnect(has, works)
          [] kind = "azure" -> azureConnect(has, works)
          [] kind = "entrust" -> entrustConnect(has, works)

(* verifyConfig.                                                           *)
verifyConfig(conf) == conf.tls.ClientAuth # "NoClientCert" /\ conf.keys # "none"
=============================================================================
