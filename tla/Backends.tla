------------------------------ MODULE Backends ------------------------------
(***************************************************************************)
(* The KeyStore implementations: keystore.go (in memory) and               *)
(* internal/keystore/{fs,efs,aws,gcp,azure,vault,fortanix,entrust,gemalto},*)
(* with the retries of internal/http/retry.go.                             *)
(*                                                                         *)
(* Concurrent Create, Get and Delete calls for one name: calls for         *)
(* different names share nothing but the lock of the file system store.    *)
(* A call is a sequence of requests to a service.  Between any two of them *)
(* other calls proceed, a request may get lost and so may its answer, in   *)
(* which case it has been carried out all the same.                        *)
(*                                                                         *)
(* The services are external and modelled by how the code uses them: what  *)
(* they store under the name is the entry.                                 *)
(***************************************************************************)
EXTENDS Naturals, FiniteSets, Sequences

CONSTANTS
    Kinds,          \* the KeyStore implementations considered
    MaxCalls,       \* bound: calls ever made
    MaxBusy,        \* bound: calls under way at the same time
    N,              \* how often a request is sent again (2 in retry.go)
    PurgeTries,     \* how often Azure's Create (25) and Delete (10) purge
    CreateTries,    \* how often Azure's Create tries again after that (7)
    MaxVersions     \* versions of a secret on a page of KeyVault (25)

AllKinds == {"mem", "fs", "efs", "aws", "gcp", "azure", "vault1", "vault2",
             "fortanix", "entrust", "gemalto"}

ASSUME KindsAssumption == Kinds \subseteq AllKinds
ASSUME BoundsAssumption ==
    /\ MaxCalls \in Nat /\ MaxBusy \in Nat /\ N \in Nat /\ MaxVersions \in Nat
    /\ PurgeTries \in Nat \ {0} /\ CreateTries \in Nat \ {0}

(* A call is known by its number, and so is the value that it creates.     *)
Calls == 1 .. MaxCalls
Values == Calls
NoCall == 0
Absent == 0                 \* there is no entry
Empty == MaxCalls + 1       \* an entry without a value, a file not (fully) written

Results == {"idle", "ok", "exists", "notfound", "error"}
CreateSteps == {"open", "write", "remove", "insert", "secret", "version",
                "check", "set", "purge", "again", "put"}
GetSteps == {"get", "first", "read"}
DeleteSteps == {"delete", "export", "destroy", "soft", "clear"}

VARIABLES
    kind,      \* the implementation
    alone,     \* all calls are made by one server
    denied,    \* KeySecure may deny this server access to the secret
    entry,     \* what the service stores under the name
    lock,      \* fs.Store.lock of a lone server: who holds it for writing
    stranded,  \* a file may have been left behind: after a crash or a failed os.Remove
    calls,     \* the number of calls so far
    op,        \* which method each call is of
    pc,        \* its next request, or its result
    ref,       \* the file, key ID or version the call has looked up
    got,       \* the value Get returns
    tries,     \* how often the request may be sent again
    more,      \* iterations left in a loop of the Azure KeyStore
    seen,      \* history: what was stored during the call
    made       \* history: "here" when the call made the entry, "gone" once it is removed

conf == <<kind, alone, denied>>
callVars == <<calls, op>>
history == <<seen, made>>
vars == <<conf, entry, lock, stranded, callVars, pc, ref, got, tries, more, history>>

Live == entry.phase = "live"
Content(e) ==
    IF e.phase # "live" THEN Absent ELSE IF e.vers = <<>> THEN Empty ELSE Head(e.vers)
Busy(c) == pc[c] \notin Results

(* What a Get may find: the value stored, or the versions of a KeyVault    *)
(* secret.                                                                 *)
Versions(e) == {e.vers[i] : i \in 1 .. Len(e.vers)}
Visible(e) == {Content(e)} \cup (IF kind = "azure" THEN Versions(e) ELSE {})

TypeOK ==
    /\ kind \in Kinds /\ alone \in BOOLEAN /\ denied \in BOOLEAN /\ stranded \in BOOLEAN
    /\ entry.phase \in {"none", "live", "deleting", "deleted", "purging"}
    /\ entry.vers \in Seq(Values) /\ entry.id \in Nat
    /\ entry.phase # "live" => entry.vers = <<>>
    /\ lock \in Calls \cup {NoCall}
    /\ calls \in 0 .. MaxCalls
    /\ op \in [Calls -> {"none", "create", "get", "delete"}]
    /\ pc \in [Calls -> Results \cup CreateSteps \cup GetSteps \cup DeleteSteps]
    /\ \A c \in Calls : /\ pc[c] \in CreateSteps => op[c] = "create"
                        /\ pc[c] \in GetSteps => op[c] = "get"
                        /\ pc[c] \in DeleteSteps => op[c] = "delete"
    /\ ref \in [Calls -> Nat]
    /\ got \in [Calls -> {Absent, Empty} \cup Values]
    /\ tries \in [Calls -> 0 .. N]
    /\ more \in [Calls -> Nat]
    /\ seen \in [Calls -> SUBSET ({Absent, Empty} \cup Values)]
    /\ made \in [Calls -> {"no", "here", "gone"}]

Init ==
    /\ kind \in Kinds
    /\ alone \in IF kind \in {"fs", "efs"} THEN BOOLEAN ELSE {kind = "mem"}
    /\ denied \in IF kind = "gemalto" THEN BOOLEAN ELSE {FALSE}
    /\ entry = [phase |-> "none", vers |-> <<>>, id |-> 0]
    /\ calls = 0
    /\ lock = NoCall
    /\ stranded = FALSE
    /\ op = [c \in Calls |-> "none"]
    /\ pc = [c \in Calls |-> "idle"]
    /\ ref = [c \in Calls |-> 0]
    /\ got = [c \in Calls |-> Absent]
    /\ tries = [c \in Calls |-> N]
    /\ more = [c \in Calls |-> 0]
    /\ seen = [c \in Calls |-> {}]
    /\ made = [c \in Calls |-> "no"]

-----------------------------------------------------------------------------
(***************************************************************************)
(* The services (external).  An answer is a code and the entry that the    *)
(* request leaves behind.  An entry has an identity where the code can     *)
(* tell a new entry from an old one: a file, or a Fortanix key ID.  Of a   *)
(* GCP secret it tells how often the name was created.                     *)
(***************************************************************************)
Answer(code, e) == [code |-> code, entry |-> e]

New(vs) ==
    [phase |-> "live", vers |-> vs,
     id |-> IF kind \in {"fs", "efs", "gcp", "fortanix"} THEN entry.id + 1 ELSE 0]
Move(phase) == [entry EXCEPT !.phase = phase, !.vers = <<>>]
AddTo(v) == [entry EXCEPT !.vers = Append(@, v)]

Insert(vs) ==
    IF entry.phase = "none" THEN Answer("ok", New(vs)) ELSE Answer("conflict", entry)
AddVersion(v) == IF Live THEN Answer("ok", AddTo(v)) ELSE Answer("missing", entry)
Overwrite(v) ==
    Answer("ok", IF Live THEN [entry EXCEPT !.vers = <<v>>] ELSE New(<<v>>))
Read == Answer(IF Content(entry) \in Values THEN "ok" ELSE "missing", entry)
Remove(really) == IF Live /\ really THEN Answer("ok", Move("none")) ELSE Answer("missing", entry)

(* Azure KeyVault: a deletion and a purge take their time.                 *)
Changing == entry.phase \in {"deleting", "purging"}
SetSecret(v) ==
    CASE Live -> Answer("ok", AddTo(v))
      [] entry.phase = "none" -> Answer("ok", New(<<v>>))
      [] entry.phase = "deleted" -> Answer("recoverable", entry)
      [] Changing -> Answer("being", entry)
SoftDelete ==
    CASE Live -> Answer("ok", Move("deleting"))
      [] Changing -> Answer("being", entry)
      [] OTHER -> Answer("missing", entry)
PurgeDeleted ==
    CASE entry.phase = "deleted" -> Answer("ok", Move("purging"))
      [] Changing -> Answer("being", entry)
      [] OTHER -> Answer("missing", entry)
KeyVaultProceeds ==
    /\ Changing
    /\ entry' = Move(IF entry.phase = "deleting" THEN "deleted" ELSE "none")
    /\ UNCHANGED <<conf, lock, stranded, callVars, pc, ref, got, tries, more, history>>

-----------------------------------------------------------------------------
Goto(c, to) == pc' = [pc EXCEPT ![c] = to]

(* Mutant of Resend: the requests are not counted.                         *)
ResendForever(c) ==
    \/ tries' = [tries EXCEPT ![c] = @ - 1] /\ UNCHANGED pc
    \/ Goto(c, "error") /\ UNCHANGED tries

(***************************************************************************)
(* Retry.Do after a request without an answer, or with a 5xx: the request  *)
(* is sent again at most N times, unless the error is not a temporary one  *)
(* or the context is done.  The SDKs of AWS, GCP, Azure and Vault do the   *)
(* like.                                                                   *)
(***************************************************************************)
Resend(c) ==
    \/ /\ tries[c] > 0
       /\ tries' = [tries EXCEPT ![c] = @ - 1]
       /\ UNCHANGED pc
    \/ /\ Goto(c, "error")
       /\ tries' = [tries EXCEPT ![c] = N]

(* A request of the call c, and what the call does next for each answer.   *)
Ask(c, answer, next) ==
    \/ /\ entry' = answer.entry
       /\ Goto(c, next[answer.code])
       /\ tries' = [tries EXCEPT ![c] = N]
    \/ /\ entry' \in {entry, answer.entry}
       /\ Resend(c)

Frame == UNCHANGED <<conf, lock, stranded, callVars>>
Local == Frame /\ UNCHANGED <<ref, got, tries, more>>
Plain == Frame /\ UNCHANGED <<ref, got, more>>

(* Get returns v if it succeeds.                                           *)
Returns(c, v) == got' = [got EXCEPT ![c] = IF pc'[c] = "ok" THEN v ELSE @]

At(c, kinds, step) == kind \in kinds /\ pc[c] = step

-----------------------------------------------------------------------------
(* MemKeyStore: operations of a cache.Cow, each under its lock.            *)
MemCreate(c) ==
    /\ At(c, {"mem"}, "insert")
    /\ LET a == Insert(<<c>>) IN
           /\ entry' = a.entry
           /\ Goto(c, [ok |-> "ok", conflict |-> "exists"][a.code])
    /\ Local

MemGet(c) ==
    /\ At(c, {"mem"}, "get")
    /\ Goto(c, [ok |-> "ok", missing |-> "notfound"][Read.code])
    /\ Returns(c, Content(entry))
    /\ Frame /\ UNCHANGED <<entry, ref, tries, more>>

MemDelete(c) ==
    /\ At(c, {"mem"}, "delete")
    /\ LET a == Remove(TRUE) IN
           /\ entry' = a.entry
           /\ Goto(c, [ok |-> "ok", missing |-> "notfound"][a.code])
    /\ Local

-----------------------------------------------------------------------------
(***************************************************************************)
(* The file system.  Create locks out Create and Get of the same server,   *)
(* not Delete, and nothing of another server that uses the directory.      *)
(***************************************************************************)
Files == {"fs", "efs"}
Locked == alone /\ lock # NoCall
Reading == alone /\ \E d \in Calls : pc[d] = "read"
Unlock(c) == lock' = IF lock = c THEN NoCall ELSE lock
FsFrame == UNCHANGED <<conf, stranded, callVars, tries, more>>

(* OpenFile with O_CREATE and O_EXCL.  It may fail for other reasons than  *)
(* that the file exists.                                                   *)
FsOpen(c) ==
    /\ At(c, Files, "open")
    /\ ~Locked /\ ~Reading
    /\ \/ /\ entry.phase = "none"
          /\ entry' = New(<<>>)
          /\ ref' = [ref EXCEPT ![c] = entry'.id]
          /\ Goto(c, "write")
          /\ lock' = IF alone THEN c ELSE NoCall
       \/ /\ Live
          /\ Goto(c, "exists")
          /\ UNCHANGED <<entry, ref, lock>>
       \/ /\ Goto(c, "remove")
          /\ lock' = IF alone THEN c ELSE NoCall
          /\ UNCHANGED <<entry, ref>>
    /\ FsFrame /\ UNCHANGED got

(* Write, Sync and Close of the open file, which may no longer be the one  *)
(* of that name.                                                           *)
FsWrite(c) ==
    /\ At(c, Files, "write")
    /\ \/ /\ entry' = IF Live /\ entry.id = ref[c] THEN AddTo(c) ELSE entry
          /\ Goto(c, "ok")
          /\ Unlock(c)
       \/ /\ Goto(c, "remove")
          /\ UNCHANGED <<entry, lock>>
    /\ FsFrame /\ UNCHANGED <<ref, got>>

(* os.Remove(filename) after any error but ErrExist.                       *)
FsRemove(c) ==
    /\ At(c, Files, "remove")
    /\ \/ entry' = Remove(TRUE).entry /\ UNCHANGED stranded
       \/ stranded' = TRUE /\ UNCHANGED entry
    /\ Goto(c, "error")
    /\ Unlock(c)
    /\ UNCHANGED <<conf, callVars, ref, got, tries, more>>

(* efs decrypts what it has read: that fails for a partial file.           *)
EfsDecrypt(content) == IF kind = "efs" /\ content = Empty THEN "error" ELSE "ok"

(* Mutant of FsGet: it opens the file without the lock.                    *)
FsGetUnlocked(c) ==
    /\ At(c, Files, "get")
    /\ Live /\ Goto(c, "read") /\ ref' = [ref EXCEPT ![c] = entry.id]
    /\ FsFrame /\ UNCHANGED <<entry, got, lock>>

(* Get opens the file under the lock for readers, which it holds until it  *)
(* has read it.                                                            *)
FsGet(c) ==
    /\ At(c, Files, "get")
    /\ ~Locked
    /\ \/ Live /\ Goto(c, "read") /\ ref' = [ref EXCEPT ![c] = entry.id]
       \/ ~Live /\ Goto(c, "notfound") /\ UNCHANGED ref
       \/ Goto(c, "error") /\ UNCHANGED ref
    /\ FsFrame /\ UNCHANGED <<entry, got, lock>>

(* The value a Create has written to a file, whether the file still has    *)
(* its name or not.                                                        *)
FileContent(f) ==
    LET writers == {d \in Calls : op[d] = "create" /\ ref[d] = f /\ pc[d] = "ok"}
    IN  IF writers = {} THEN {Empty} ELSE writers

FsRead(c) ==
    /\ At(c, Files, "read")
    /\ \E v \in FileContent(ref[c]) :
           /\ Goto(c, EfsDecrypt(v)) \/ Goto(c, "error")
           /\ Returns(c, v)
    /\ FsFrame /\ UNCHANGED <<entry, ref, lock>>

FsDelete(c) ==
    /\ At(c, Files, "delete")
    /\ \/ LET a == Remove(TRUE) IN
              /\ entry' = a.entry
              /\ Goto(c, [ok |-> "ok", missing |-> "notfound"][a.code])
       \/ Goto(c, "error") /\ UNCHANGED entry
    /\ FsFrame /\ UNCHANGED <<ref, got, lock>>

(* The calls end with the server that made them.  The directory remains.   *)
FsCrash(c) ==
    /\ kind \in Files
    /\ Busy(c)
    /\ stranded' = TRUE
    /\ pc' = [d \in Calls |-> IF Busy(d) /\ (alone \/ d = c) THEN "error" ELSE pc[d]]
    /\ lock' = NoCall
    /\ UNCHANGED <<conf, entry, callVars, ref, got, tries, more>>

-----------------------------------------------------------------------------
(* AWS Secrets Manager.                                                    *)
AwsCreate(c) ==
    /\ At(c, {"aws"}, "insert")
    /\ Ask(c, Insert(<<c>>), [ok |-> "ok", conflict |-> "exists"])
    /\ Plain

AwsGet(c) ==
    /\ At(c, {"aws"}, "get")
    /\ Ask(c, Read, [ok |-> "ok", missing |-> "notfound"])
    /\ Returns(c, Content(entry))
    /\ Frame /\ UNCHANGED <<ref, more>>

AwsDelete(c) ==
    /\ At(c, {"aws"}, "delete")
    /\ Ask(c, Remove(TRUE), [ok |-> "ok", missing |-> "notfound"])
    /\ Plain

(***************************************************************************)
(* GCP Secret Manager: Create makes the secret and adds version 1 to what  *)
(* bears its name then.                                                    *)
(***************************************************************************)
GcpCreateSecret(c) ==
    /\ At(c, {"gcp"}, "secret")
    /\ Ask(c, Insert(<<>>), [ok |-> "version", conflict |-> "exists"])
    /\ Plain

(* Mutant of GcpAddSecretVersion: the secret is deleted if it fails.       *)
GcpAddOrDelete(c) ==
    /\ At(c, {"gcp"}, "version")
    /\ \/ Ask(c, AddVersion(c), [ok |-> "ok", missing |-> "error"])
       \/ entry' = Move("none") /\ Goto(c, "error") /\ UNCHANGED tries
    /\ Plain

GcpAddSecretVersion(c) ==
    /\ At(c, {"gcp"}, "version")
    /\ Ask(c, AddVersion(c), [ok |-> "ok", missing |-> "error"])
    /\ Plain

GcpGet(c) ==
    /\ At(c, {"gcp"}, "get")
    /\ Ask(c, Read, [ok |-> "ok", missing |-> "notfound"])
    /\ Returns(c, Content(entry))
    /\ Frame /\ UNCHANGED <<ref, more>>

GcpDelete(c) ==
    /\ At(c, {"gcp"}, "delete")
    /\ Ask(c, Remove(TRUE), [ok |-> "ok", missing |-> "notfound"])
    /\ Plain

-----------------------------------------------------------------------------
(* Mutant of Iterate: the iterations are not counted.                      *)
IterateForever(c, next) == more' = [more EXCEPT ![c] = IF pc'[c] # pc[c] THEN next ELSE @]

(***************************************************************************)
(* Azure KeyVault.  A loop of the code makes another iteration when the    *)
(* secret is being deleted or purged, and gives up after a while.          *)
(***************************************************************************)
Iterate(c, next) ==
    more' = [more EXCEPT ![c] = IF pc'[c] \in Results THEN 0
                                ELSE IF pc'[c] # pc[c] THEN next
                                ELSE IF tries'[c] < tries[c] THEN @ ELSE @ - 1]
While(c, step, then) == IF more[c] > 1 THEN step ELSE then
AzureFrame == Frame /\ UNCHANGED <<ref, got>>

AzureCheck(c) ==
    /\ At(c, {"azure"}, "check")
    /\ Ask(c, Read, [ok |-> "exists", missing |-> "set"])
    /\ Plain

AzureSet(c) ==
    /\ At(c, {"azure"}, "set")
    /\ Ask(c, SetSecret(c), [ok |-> "ok", recoverable |-> "purge", being |-> "purge"])
    /\ Iterate(c, PurgeTries)
    /\ AzureFrame

(* purgeWithRetry.  PurgeSecret takes 404 for success.                     *)
AzurePurge(c) ==
    /\ At(c, {"azure"}, "purge")
    /\ Ask(c, PurgeDeleted,
           [ok |-> "again", missing |-> "again", being |-> While(c, "purge", "error")])
    /\ Iterate(c, CreateTries)
    /\ AzureFrame

AzureSetAgain(c) ==
    /\ At(c, {"azure"}, "again")
    /\ Ask(c, SetSecret(c),
           [ok |-> "ok", recoverable |-> "error", being |-> While(c, "again", "error")])
    /\ Iterate(c, 0)
    /\ AzureFrame

(* GetFirstVersion, of at most one page of versions.  It takes the least   *)
(* time of creation, in whole seconds, and of several the one that comes   *)
(* first on the page: any version may be that of racing Creates.           *)
FirstVersion ==
    Answer(IF ~Live THEN "missing" ELSE IF Len(entry.vers) > MaxVersions THEN "many" ELSE "ok",
           entry)

AzureFirst(c) ==
    /\ At(c, {"azure"}, "first")
    /\ Ask(c, FirstVersion, [ok |-> "read", missing |-> "notfound", many |-> "error"])
    /\ IF pc'[c] = "read" THEN \E v \in Versions(entry) : ref' = [ref EXCEPT ![c] = v]
                          ELSE UNCHANGED ref
    /\ Frame /\ UNCHANGED <<got, more>>

AzureRead(c) ==
    /\ At(c, {"azure"}, "read")
    /\ Ask(c, Answer(IF ref[c] \in Versions(entry) THEN "ok" ELSE "missing", entry),
           [ok |-> "ok", missing |-> "error"])
    /\ Returns(c, ref[c])
    /\ Frame /\ UNCHANGED <<ref, more>>

AzureSoftDelete(c) ==
    /\ At(c, {"azure"}, "soft")
    /\ Ask(c, SoftDelete, [ok |-> "clear", missing |-> "clear", being |-> "error"])
    /\ Iterate(c, PurgeTries)
    /\ AzureFrame

AzureClear(c) ==
    /\ At(c, {"azure"}, "clear")
    /\ Ask(c, PurgeDeleted, [ok |-> "ok", missing |-> "ok", being |-> While(c, "clear", "ok")])
    /\ Iterate(c, 0)
    /\ AzureFrame

-----------------------------------------------------------------------------
(***************************************************************************)
(* Hashicorp Vault, K/V engine v1 and v2.  A Vault that is sealed, and the *)
(* transit engine, are requests that fail.                                 *)
(***************************************************************************)
Vaults == {"vault1", "vault2"}

VaultCheck(c) ==
    /\ At(c, Vaults, "check")
    /\ Ask(c, Read, [ok |-> "exists", missing |-> "put"])
    /\ Plain

(* Mutant of VaultPut: no check-and-set.                                   *)
VaultPutNoCas(c) ==
    /\ At(c, Vaults, "put")
    /\ Ask(c, Overwrite(c), [ok |-> "ok", conflict |-> "error"])
    /\ Plain

(* cas = 0 makes v2 refuse to replace an entry; v1 knows no such option.   *)
VaultPut(c) ==
    /\ At(c, Vaults, "put")
    /\ Ask(c, IF kind = "vault2" THEN Insert(<<c>>) ELSE Overwrite(c),
           [ok |-> "ok", conflict |-> "error"])
    /\ Plain

VaultGet(c) ==
    /\ At(c, Vaults, "get")
    /\ Ask(c, Read, [ok |-> "ok", missing |-> "notfound"])
    /\ Returns(c, Content(entry))
    /\ Frame /\ UNCHANGED <<ref, more>>

VaultDelete(c) ==
    /\ At(c, Vaults, "delete")
    /\ Ask(c, Remove(TRUE), [ok |-> "ok", missing |-> "ok"])
    /\ Plain

-----------------------------------------------------------------------------
(* Fortanix SDKMS: Delete looks up the key's ID and deletes the ID.        *)
FortanixCreate(c) ==
    /\ At(c, {"fortanix"}, "insert")
    /\ Ask(c, Insert(<<c>>), [ok |-> "ok", conflict |-> "exists"])
    /\ Plain

FortanixGet(c) ==
    /\ At(c, {"fortanix"}, "get")
    /\ Ask(c, Read, [ok |-> "ok", missing |-> "notfound"])
    /\ Returns(c, Content(entry))
    /\ Frame /\ UNCHANGED <<ref, more>>

FortanixExport(c) ==
    /\ At(c, {"fortanix"}, "export")
    /\ Ask(c, Read, [ok |-> "destroy", missing |-> "notfound"])
    /\ ref' = [ref EXCEPT ![c] = IF pc'[c] = "destroy" THEN entry.id ELSE @]
    /\ Frame /\ UNCHANGED <<got, more>>

FortanixDestroy(c) ==
    /\ At(c, {"fortanix"}, "destroy")
    /\ Ask(c, Remove(entry.id = ref[c]), [ok |-> "ok", missing |-> "error"])
    /\ Plain

(* Entrust KeyControl.                                                     *)
EntrustCreate(c) ==
    /\ At(c, {"entrust"}, "insert")
    /\ Ask(c, Insert(<<c>>), [ok |-> "ok", conflict |-> "exists"])
    /\ Plain

EntrustGet(c) ==
    /\ At(c, {"entrust"}, "get")
    /\ Ask(c, Read, [ok |-> "ok", missing |-> "notfound"])
    /\ Returns(c, Content(entry))
    /\ Frame /\ UNCHANGED <<ref, more>>

EntrustDelete(c) ==
    /\ At(c, {"entrust"}, "delete")
    /\ Ask(c, Remove(TRUE), [ok |-> "ok", missing |-> "notfound"])
    /\ Plain

(* Gemalto KeySecure: to delete what does not exist is no error, and what  *)
(* exists but may not be accessed is not found either.                     *)
KeySecure(answer) == {answer} \cup (IF denied THEN {Answer("missing", entry)} ELSE {})

GemaltoCreate(c) ==
    /\ At(c, {"gemalto"}, "insert")
    /\ Ask(c, Insert(<<c>>), [ok |-> "ok", conflict |-> "exists"])
    /\ Plain

GemaltoGet(c) ==
    /\ At(c, {"gemalto"}, "get")
    /\ \E a \in KeySecure(Read) : Ask(c, a, [ok |-> "ok", missing |-> "notfound"])
    /\ Returns(c, Content(entry))
    /\ Frame /\ UNCHANGED <<ref, more>>

GemaltoDelete(c) ==
    /\ At(c, {"gemalto"}, "delete")
    /\ \E a \in KeySecure(Remove(TRUE)) : Ask(c, a, [ok |-> "ok", missing |-> "ok"])
    /\ Plain

-----------------------------------------------------------------------------
FirstCreate ==
    CASE kind \in Files -> "open"
      [] kind = "gcp" -> "secret"
      [] kind \in Vaults \cup {"azure"} -> "check"
      [] OTHER -> "insert"
FirstStep == [create |-> FirstCreate,
              get    |-> IF kind = "azure" THEN "first" ELSE "get",
              delete |-> CASE kind = "azure" -> "soft"
                           [] kind = "fortanix" -> "export"
                           [] OTHER -> "delete"]

(* The next call, of Create, Get or Delete.                                *)
Call(o) ==
    LET c == calls + 1 IN
        /\ c \in Calls
        /\ Cardinality({d \in Calls : Busy(d)}) < MaxBusy
        /\ calls' = c
        /\ op' = [op EXCEPT ![c] = o]
        /\ Goto(c, FirstStep[o])
        /\ seen' = [seen EXCEPT ![c] = Visible(entry)]
        /\ UNCHANGED <<conf, entry, lock, stranded, ref, got, tries, more, made>>

(* What the calls under way have seen, after a step of c.                  *)
Witness(c) ==
    /\ seen' = [d \in Calls |-> IF Busy(d) THEN seen[d] \cup Visible(entry') ELSE seen[d]]
    /\ made' = [d \in Calls |->
                   IF d = c /\ ~Live /\ entry'.phase = "live" THEN "here"
                   ELSE IF made[d] = "here" /\ Live /\ entry'.phase # "live" THEN "gone"
                   ELSE made[d]]

Request(c) ==
    \/ MemCreate(c) \/ MemGet(c) \/ MemDelete(c)
    \/ FsOpen(c) \/ FsWrite(c) \/ FsRemove(c) \/ FsGet(c) \/ FsRead(c) \/ FsDelete(c)
    \/ AwsCreate(c) \/ AwsGet(c) \/ AwsDelete(c)
    \/ GcpCreateSecret(c) \/ GcpAddSecretVersion(c) \/ GcpGet(c) \/ GcpDelete(c)
    \/ AzureCheck(c) \/ AzureSet(c) \/ AzurePurge(c) \/ AzureSetAgain(c)
    \/ AzureFirst(c) \/ AzureRead(c) \/ AzureSoftDelete(c) \/ AzureClear(c)
    \/ VaultCheck(c) \/ VaultPut(c) \/ VaultGet(c) \/ VaultDelete(c)
    \/ FortanixCreate(c) \/ FortanixGet(c) \/ FortanixExport(c) \/ FortanixDestroy(c)
    \/ EntrustCreate(c) \/ EntrustGet(c) \/ EntrustDelete(c)
    \/ GemaltoCreate(c) \/ GemaltoGet(c) \/ GemaltoDelete(c)

Step(c) == Request(c) /\ Witness(c)
Crash(c) == FsCrash(c) /\ Witness(c)

(* The bound on calls is reached.                                          *)
Finished == calls = MaxCalls /\ (\A c \in Calls : ~Busy(c)) /\ UNCHANGED vars

Next ==
    \/ \E o \in {"create", "get", "delete"} : Call(o)
    \/ \E c \in Calls : Step(c) \/ Crash(c)
    \/ KeyVaultProceeds
    \/ Finished

Spec == Init /\ [][Next]_vars

(* Goroutines that can run are run.  Nothing is assumed of the services:   *)
(* KeyVault may take forever to delete a secret.                           *)
Fairness == \A c \in Calls : WF_vars(Step(c))

FairSpec == Spec /\ Fairness

-----------------------------------------------------------------------------
(* "Create creates a new entry with the given name if and only if no such  *)
(* entry exists" (keystore.go): a Create that returns nil has itself made  *)
(* the entry, and until the entry is removed its value is what is stored.  *)
(* Vault's K/V v1 and Azure make no such promise, and GCP keeps it only as *)
(* long as the name is not created anew.                                   *)
CreatedIsStored ==
    \A c \in Calls :
        /\ op[c] = "create" /\ pc[c] = "ok"
        /\ kind \notin {"azure", "vault1"}
        /\ kind = "gcp" => entry.id <= 1
        => /\ made[c] # "no"
           /\ made[c] = "here" => Content(entry) = c

(* What a call returns was true at some time during the call, whatever was *)
(* retried and whoever interfered: a value that Get returns was stored, a  *)
(* key not found was not there (in GCP it may have had no version), a key  *)
(* that exists was there, and a deleted one was gone.  Where a KeySecure   *)
(* denies access it is as the comment in gemalto's Delete says: 'we cannot *)
(* guarantee anymore that we actually deleted the secret', and Get does    *)
(* not find it.  A key file that is not fully written is read only by      *)
(* another server, or if it was left behind, and never from an encrypted   *)
(* store; another server may also read what was written to a file after it *)
(* was removed.                                                            *)
HonestAnswers ==
    \A c \in Calls :
        /\ op[c] = "get" /\ pc[c] = "ok" =>
               /\ got[c] \in seen[c] \/ (kind \in Files /\ ~alone /\ Empty \in seen[c])
               /\ got[c] \in Values \/ (kind = "fs" /\ (stranded \/ ~alone))
        /\ pc[c] = "notfound" =>
               Absent \in seen[c] \/ (kind = "gcp" /\ Empty \in seen[c]) \/ denied
        /\ pc[c] = "exists" => seen[c] # {Absent}
        /\ op[c] = "delete" /\ pc[c] = "ok" => Absent \in seen[c] \/ denied

(* A stored key is replaced by nothing, and removed by a Delete only: not  *)
(* by a second Create, nor by what Create does to clean up.                *)
ByDelete ==
    \A v \in Visible(entry) \cap Values : v \notin Visible(entry') =>
        /\ Content(entry') = Absent
        /\ \E c \in Calls : op[c] = "delete" /\ <<pc, tries>>' # <<pc, tries>>

(* In every KeyStore but Vault's K/V v1, where another server's Create may *)
(* overwrite the key, and the file systems (see CreateKeepsFiles).  In     *)
(* Azure every version stays; but Creates that race add several, and which *)
(* of them Get returns may differ from one time to the next.               *)
KeysStay == [][kind \notin Files \cup {"vault1"} => ByDelete]_vars

(* "Create creates a new file with the given name [...] if and only if no  *)
(* such file exists. It returns kes.ErrKeyExists if such a file already    *)
(* exists" (fs.go): Create does not remove a key file that exists.         *)
CreateKeepsFiles == [][alone /\ kind \in Files => ByDelete]_vars

(* Every call returns: the loops are bounded although KeyVault may never   *)
(* finish a deletion, and a failed Create unlocks the file system store.   *)
CallsReturn == \A c \in Calls : Busy(c) ~> ~Busy(c)
=============================================================================
