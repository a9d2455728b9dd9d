# A verification project for KES

KES is a key management server: clients ask it over HTTPS to create, import,
delete and use cryptographic keys; it checks the client's certificate against
policies and keeps the keys in a *KeyStore* (a directory, Vault, a cloud
service), with an in-memory cache in front. This directory holds TLA+ modules
that model the server's concurrent core, its requests and reconfiguration, and its
KeyStores, TLC configurations that check them on small instances, and proofs,
checked by TLAPS, for all instances.

Paths like `keystore.go` are relative to `src/`.

## The system

| part | state | operations | hard about it |
|---|---|---|---|
| `internal/cache/barrier.go` Barrier | map from keys to reference-counted mutexes | Lock, Unlock | object removed from the map while still locked; count must be exact |
| `internal/cache/cow.go` Cow | pointer to an immutable map, a mutex for writers | Get, Set, Add, Delete, DeleteAll, DeleteFunc, Clone, Keys | reads see the map of the moment; DeleteFunc publishes a map made from an older one |
| `keystore.go` keyCache | a Cow of entries with a Used flag, a Barrier, the offline flag | Get, Create, Delete, Status, List, Close; four collectors | Get, Delete and the collectors interleave between lookup, fetch and insert; outages; other servers |
| `internal/api/multicast.go` Multicast, `log.go`, `audit.go` | pointer to an immutable slice of subscribers | Add, Remove, Num, Write | compare-and-swap loops; writes to a slice loaded earlier |
| `server.go` Server | started, closed, three atomic pointers (tls, state, handler), the http.Server | Start, Close, Update, UpdateAdmin, UpdatePolicies, UpdateTLS | requests read the pointers without a lock while an Update stores them one by one; shutdown with running requests |
| `server.go` handlers, `state.go`, `auth.go`, `internal/api/api.go` | the request | 20 APIs behind Route.ServeHTTP and Authenticate | every `s.state.Load()` may see another configuration |
| `internal/keystore/*` backends | remote or on disk | Create, Get, Delete, List, Status | creation or deletion in several calls, crashes and lost answers in between, retries |
| token renewal (`vault/client.go`, `entrust/keycontrol.go`, `gemalto/client.go`) | token, timer | a loop | renewal racing expiry, failures of several calls in a row |
| `internal/keystore/keystore.go` List and the stores' own | none, or a position in pages | List | limits, continuation, pages of a list that changes |
| `internal/crypto` | none | encode, parse, encrypt, decrypt, HMAC | keys and ciphertexts of earlier versions |
| `internal/metric` | gauge, counters | Count, Latency, event counters | deferred functions around handlers that fail, answer twice or panic |
| `kesconf`, `internal/https` | none | ReadFile, Config, TLSConfig, Connect | which of many files are accepted, and what they give |
| `cmd/kes/server.go` | a channel of signals, a ticker | reload, TLS reload | two goroutines that read the same file and call Update and UpdateTLS |
| `internal/https/proxy.go`, client commands of `cmd/kes` | - | TLS proxy headers, command line | not used by the server; no state |

How they interact: a request passes `Server.handler` (routes), is authenticated
under `Server.state`, and its handler calls the key cache of `Server.state`,
which calls the KeyStore. Error and audit records go to the configured handlers
and to the Multicast of subscribed clients. An Update builds a new key cache and
gives the old one to its caller to close. `cmd/kes` calls Update when it gets SIGHUP and
UpdateTLS every 15 minutes, with what it reads from the configuration file.

`PROJECT.json` lists every component with its status and, under "hazards", what
can go wrong at which line and the properties that would notice.

## Modules

**KeyLock** is what a Barrier promises: per key a set of waiting and a set of at
most one holding goroutine.

**Barrier** models `barrier.go`. `keys`, `N` and `locked` are the map, the counts
and the embedded mutexes; objects have addresses, which can be allocated again
when nothing refers to them, because two goroutines exclude each other only if
they got the *same* object. `Add` and `Remove` are what runs under the Barrier's
own mutex, `Acquire` and `Release` lock and unlock the object afterwards.
`IsKeyLock` is the refinement: Unlock gives the key up at `Remove`.

**KeyCache** models `keystore.go`'s keyCache with the Cow inside. A key is a
version number, unique to its Create. Every access to shared state is a step:

| code | actions |
|---|---|
| Get | GetLookup, GetTouch, GetAcquire, GetRecheck, GetFetch, GetSet, GetUnlock, GetReturn |
| Create | Create |
| Delete | Delete (the KeyStore), DeleteEvict (the cache), DeleteFailed (the KeyStore deleted, the answer is an error) |
| the collectors | Tick (reads the offline flag), DeleteAll, SweepBegin, SweepVisit, SweepEnd (DeleteFunc), StatusCheck, StatusStore, Exit |
| Close | Close |

Calls that change nothing (a Create or Delete that fails without effect, List,
Status) are not actions. The KeyStore is external: a linearizable map that may be
unreachable and that other servers write too, with the effect of Create and
DeleteFailed. The Barrier is used as
KeyLock; `UsesKeyLock` checks that Get keeps to its rules. Entries have an
identity so that a goroutine can point to an entry that was evicted or replaced.
`Scenarios` are the cache configurations and environments of an instance.

**KeyCacheHistory** adds history variables (what was ever stored, what Delete
removed, what a Get could know when it started, which entries were accessed since the
last sweep of unused keys) and the properties about them.

**Multicast** models the group of subscribers with the handlers that join and
leave and the loggers that write. A compare-and-swap compares pointers: `current`
is the set of handlers whose loaded slice is still the one the pointer refers to.
The panic of the nil dereference in Add is an outcome of `AddFirst`; net/http
ends the request then. History variables record who was subscribed, and who had
left, when an event was logged.

**Server** models the life cycle and reconfiguration. A configuration is a number;
a serverState is a record of the numbers of the configurations its parts come
from. Start is one step (nothing reads the pointers before); Update is one step
per store; Close holds mu from `CloseBegin` to `CloseKeys`, with Shutdown ending by
`ShutdownDone` or `ShutdownTimeout`. Requests are routed, authenticated, and call
the cache or stream a log, with a load of the pointers at each point where the
code has one. `Authenticate` and the handlers' inner work are abstracted to when
they read which state and whether they end.

**Backends** models Create, Get and Delete of the eleven KeyStores, the `kind`
being chosen in Init. Calls for one name run concurrently, each a sequence of
requests to a service (or of file system calls); the calls are numbered, and the
number is also the value a Create stores. Between two requests others proceed; a
request may fail before or after it was carried out (`Ask`), and is sent again as
`retry.go` does (`Resend`). The services are external. The file system store is run
by one server, whose lock counts, or by several on a shared directory (`alone`);
`stranded` says that a crash or a failed removal has left a partial file behind.
Get opens a file and reads it in two steps, between which Delete, and another server,
may proceed. A KeySecure that may deny access (`denied`) answers 404 for a secret that is
there. Of several versions of a KeyVault secret Get may pick any: racing Creates make them
within a second, and GetFirstVersion compares whole seconds.
`seen` and `made` are history. Not every kind keeps every promise, and the
properties say which: K/V v1 and Azure may let two Creates succeed (the code's
comments say so), and GCP's two-step Create adds its version to another's secret if
the name is deleted and created anew in between, and leaves a name without a
version if the second step fails.

**TokenRenewal** models the renewal goroutines of Vault, Gemalto and Entrust, and
Vault's CheckStatus. Time is in ticks that pass while a goroutine waits; requests
take less than one. `left` is what remains of the life of the token in use, `next`
of the one that Vault's loop is about to use. The service may be down or sealed
at any time; a renewal with its retries and the login that follows is one step that
succeeds or fails. All tokens of a KeyStore live equally long, and longer than a Pause (TTLAssumption).
Above five minutes (ten Delays, as a fifth of the life is left at the renewal) a token
outlives the delay after its renewal; below a Delay it is replaced every three seconds. In
between (`Tight`), from the second token on, Vault's delay ends exactly when the old token
expires: a tenth of its life was spent before it was used, eight until the renewal, one in
the delay. `Handover` is that moment, which the properties except (Disagreements). Left out
are a token without a TTL (never renewed), a life that shrinks with `max_ttl`, and
Entrust's fallback for answers without an expiry.

**Listing**, **Crypto**, **Access**, **Config** and **Handlers** have no variables: they
are what the code computes, as operators. **Requests** and **Reload** are the state
machine that uses them.

*Listing.* A name is its rank in lexicographic order and `LastWith` the last name with a
prefix, so that sorted slices are sets and prefixes are intervals. `List` is
`keystore.List` with its three ways to stop, `MemList` and `EntrustList` are the two
that differ; `GemaltoRound` and `FortanixRound` are one request of the two stores that
page, because keys come and go between two rounds. A set holds a name once; that
Gemalto's pages may repeat one is abstracted away.

*Crypto.* A stored key is protocol buffers, the JSON of earlier versions, or the empty
file of a crash, which makes the parser panic. Ciphertexts have three formats. Sealing
is ideal: only the same key, IV, nonce and context open it.

*Access.* The route table of `initRoutes` with method, authentication, metrics and
timeout of each API, the effect of InsecureSkipAuth on it, `initPolicies`,
`identifyRequest` and the decision of `verifyIdentity`. Policy.Verify is kms-go's: rules
name an API and a resource, or all of them.

*Config.* A file is what its YAML says. `ReadFile` gives a configuration, an error, or (an
Entrust section without credentials) a panic; `ConfigOf` and `TLSConfig` are the result;
the `...Connect` operators are what each KeyStore's connection checks before and after
it turns to the service.

*Handlers.* One operator per API: from the loaded state, the KeyStore and the request to
the set of effects, an effect being the status codes written (two if listKeys fails,
none if the handler panics), whether the state is loaded again to log or to audit, the
result, and the change of the KeyStore. The cache is summed up by `held`: Get may return
what the KeyStore holds or, as KeyCache shows, something it has held before. What differs
between the KeyStores and a client can notice is kept: a failed Create of fs and efs may
remove the key that was there (`FailedCreate`), Azure's and Vault's Create looks for the
key first and writes it later (`ChecksFirst`), Gemalto may deny access to a key
(`Denied`), and deleting a missing key succeeds with Azure, Gemalto and Vault. An error of a
backend is answered with 502 by all of them: Fortanix makes an API error of what the
service sends, but puts its text into another error before it returns it. "vault" stands for
both K/V engines here; Backends has them apart.

*Requests.* A request goes through these steps, and anything else may happen between two:

| code | actions |
|---|---|
| TLS handshake, GetConfigForClient | Handshake |
| `s.handler.Load()` | Arrive |
| Route.ServeHTTP | CheckMethod, SetTimeout (fails), AuthenticateRequest (loads the state) |
| the handler up to the KeyStore's answer | Call (loads the state), Write (the second half of a Create by Azure or Vault); CallPaged, NextPage, PageCanceled |
| Log.ErrorContext, Log.WarnContext | LogError (loads the state) |
| auditLogger.Log | AuditEnabled, AuditHandle (reads the shared handler twice) |
| Reply, Fail, Count, Latency | Reply |
| log subscriptions | the pc "stream", ClientLeaves, Unsubscribe |

A panic ends the request where it happens (`Panics`): net/http recovers it after the
deferred functions of the metrics ran.

*Reload.* The Update methods store by store, as requests see them: the state and the TLS
configuration are pointers, but `Audit.h` is an interface of two words that is
overwritten in place, so there is a moment at which it is `Torn`, and calling it then
may do anything. Predefined keys are created one by one (Predefine, and PredefineWrite for
Azure and Vault), and a failed Create does to them what it does to others. For a daemon, `ReloadRead` and
`ReloadConnect` come before, SetLevels after, and `TickRead` and `TickUpdate` are the
ticker's goroutine. Server.tla has two callers and Close but no contents of
configurations; Reload has the contents and one caller. History variables: `inForce`
(configurations that some part of the server may follow now), `seen` (those a request may
have met), `durable` and `doomed` (keys that must, and need not, be there: someone tried to delete them,
or a failed Create of fs or efs removed them).

## Runs

| run | instance | shows |
|---|---|---|
| barrier | 3 goroutines, 2 keys, 3 objects | exclusion, exact counts and no panic (Counted), starvation freedom, refinement of KeyLock |
| keycache | 1 name, 2 versions, 3 scenarios: 2 callers and a sweep; 2 callers, an outage and offline caching; 1 caller, all collectors, an outage and Close | types, one fetch per miss, keys genuine, deleted keys stay out but for a fetch under way, a sweep keeps the keys that were accessed since the last one and no others (SweepsUnused), the Barrier is used properly |
| keycache_live | 1 name, 1 version, 4 scenarios: 2 callers with an outage, with and without offline caching; 2 callers and a sweep; 1 caller and Close while all four collectors run | calls return, stale keys leave the cache, Close stops the collectors |
| keycache_stale | as keycache, no outage | **violated**: a Get that fetched before Delete inserts the key after Delete returned |
| multicast | 3 clients, 1 logger | no lost update, delivery to exactly those due (Reached), loops end |
| multicast_first | the same | **violated**: two first subscribers, one dereferences nil |
| server | 2 callers, 1 request, 3 configurations | no lost reconfiguration, requests move forward and are served by an open cache unless Close timed out (RequestsServed), caches accounted for, nothing after Close, Start and Close return |
| requests | 1370 scenarios of up to 3 requests, 4 names, pages of 2, 2 files, 2 signals | access control across reconfigurations (Authorized), acknowledged keys are found and listed (Durable), decryption (RoundTrip), audit records and metrics (Accounted), requests end (Finishes), no reload is lost (Reconfigures) |
| backends | 11 kinds, 3 calls, 2 at a time, a KeySecure that denies access and one that does not | created keys are what is stored, answers are honest, keys stay until deleted, calls return |
| backends_files | fs and efs | **violated**: a Create whose open fails removes the file of an existing key |
| token_renewal | 3 kinds, lives 2, 10 and 35, Delay 3 | no expired token without a fault, but at a handover of tight ones; Vault and Gemalto recover from every outage; Close ends the loops |
| entrust_renewal | Entrust | **violated**: after one failed attempt the token is never renewed again |

*Bounds.* Barrier: three goroutines are needed for one to hold the old object, one
to wait and one to arrive; two keys for objects to move between keys. KeyCache:
one name, since names share only the map and DeleteFunc (the proofs cover any
number); two versions, so that a deleted key can be created anew; three addresses
suffice for one cached and two referenced entries; one outage. Multicast: three
clients for an Add and a Remove racing a third. Server: three configurations are a
Start and two Updates. Backends: three calls are, for example, a Create and a Delete
racing another Create; a request is sent again once instead of twice, and the loops
of Azure run twice instead of 10 to 25 times, which suffices for a retry of
a request that was carried out and for a loop that gives up; the
safety properties hold for three calls at a time as well. A page of KeyVault has two versions
instead of 25, and two Creates, one of them sent twice, exceed it. TokenRenewal: one life below a Delay, a tight
one, and one above. Requests: every API alone with every kind of client,
resource and body, every KeyStore's listing and status, and then two or three requests
where they meet: at a key (also two Creates of one name on Azure, Vault, fs, and against a
predefined key), at a list in pages, at a log, at an Update. Four names are "a",
"ab", "b" and "c", so that a prefix matches one, two or all names and a page of two is
exceeded; the limit of a listing is the page size (the API never passes one). Two files
and two signals are an edit before, between and after the signals. An Update runs with
two requests, so that one can be admitted before and one after.

*Deadlock* is checked except in `server`, where a closed server stops for good, and in
`requests`, where a server without requests left to serve waits.

*Fairness.* Goroutines that can run are run (weak fairness of their own steps).
A sync.Mutex hands over to a waiter after a bounded wait, so waiting for one is
strongly fair, and the Barrier inherits this (LockReturns). Tickers fire for
ever. A select between a ticker and a canceled context takes the latter at some
time. Requests of the backends end, but KeyVault need not finish a deletion. Time passes,
and CheckStatus runs again and again. In `requests`, the steps of each request from its
arrival on, of the start, of the reload loop and of the ticker are weakly fair: each is a
goroutine that never waits for more than a backend, which answers or fails, or for
Server.mu, which is released. KeyStore calls return (they have the request's context or a client
timeout). Callers, clients, outages and other servers are not fair: nothing has
to be requested, a subscriber need not leave, a KeyStore need not recover.

## What is proved

All for any number of goroutines, keys, requests, retries and so on, and for every set
of scenarios; the assumptions are the named ASSUMEs of the modules. They are finitely
many goroutines for Barrier, Nil different from the values it stands beside, bounds that
are numbers, and in Requests what Go's types and the YAML decoder give (IsConf, IsFile,
IsRequest), that a server that runs has accepted the configuration it runs with, that
`cmd/kes` has read it from the file it reloads, and that a client that decrypts has the
answer to a request to encrypt, or a ciphertext that was sealed before under some key and
context (CiphertextsAssumption: bytes that nobody sealed count as sealed under a key
nobody has). TLC evaluates all of them in the runs.
The inductive invariants are those the modules define; each property follows from one
by a short argument at the end of its module.

* **BarrierProofs**: `TypeCorrect`, `Safe` (MutualExclusion), `ExactCount` (Counted),
  `Refinement` (IsKeyLock). Mutual exclusion is not inductive: it needs that
  everyone who wants or has a key refers to the object in the map (SameObject),
  which holds because the object stays there while it is counted (CountExact), that
  objects serve one key, and that a locked object has one owner.
* **KeyCacheProofs**: `TypeCorrect`, `FetchOnce` (FetchOnlyWhenAbsent), `Genuine`
  (KeysGenuine), `StaysOut` (DeletedStaysOut), `UnusedEvicted` (SweepsUnused), `LockUse`
  (UsesKeyLock). The inductive invariant says which
  goroutines own the barrier (CallInv) and that DeleteFunc's maps are the cache and
  a part of it while Cow.mu is held (SweepInv); with history, that a version
  belongs to one name (StoredInv), that keys in calls belong to their name
  (GenuineInv), and that whoever is about to insert a deleted version fetched it
  before (DeletedInv). The history part does not go through the actions again: it
  uses three lemmas about what a step can do to the KeyStore, the cache and a call.
  UnusedEvicted needs that a Used flag tells what the history of accesses says (AccessInv).
  LockUse maps every step to a step of KeyLock or to none. It needs the converse of
  CallInv, that who has a barrier is between Lock and Unlock of a Get for that name
  (OwnInv). With `Refinement` of BarrierProofs this closes the gap between the two
  models: Barrier is a KeyLock for callers that keep to its rules, and Get is such a
  caller.
* **MulticastProofs**: `TypeCorrect`, `Atomic` (NoLostUpdate), `Delivery` (Reached),
  from: a compare-and-swap that succeeds replaces what was loaded
  (LoadedInv), and what a logger has still to write to covers who is due (LoggerInv).
* **TokenRenewalProofs**: `TypeCorrect`, `InTime` (NeverExpired), for all lives and
  delays that the named assumptions allow. The invariant (LifeInv) says for every
  place of a loop how much life is left: enough for the wait under way, before a
  renewal for the delay after it too, and a new token has aged by no more than the
  delay when it is used; for a tight token it is just enough.

* **ServerProofs**: `TypeCorrect`, `UpdatesKept` (NoLostUpdate), `Served`
  (RequestsServed), `Accounted` (CachesAccounted), `Final` (ClosedIsFinal). Everything
  rests on LockInv: who is inside Close or an Update holds Server.mu, and an Update
  inside it has found the server started and open. From this the state that an Update
  loaded is still the state when it stores the next one, and its configuration is newer
  than every part in use (UpdateInv); so the pointers a request loads, one after the
  other, only move forward (RequestInv). OpenInv says that the cache in use is open unless Close
  has closed it, and that Close does so after the last request or the timeout; AccountInv
  finds for each open cache who answers for it.
* **BackendsProofs**: `TypeCorrect`, `Created` (CreatedIsStored), `Honest`
  (HonestAnswers), `Stays` (KeysStay), for all eleven kinds, any number of concurrent
  calls, servers, retries and crashes. One lemma per kind says what a request of a call may
  do to the entry and where the call goes on (Summary); the invariants are then proved
  once, from the summary. They are: an entry was made by at most one call, a Create
  (MadeInv), with its value (StoredInv); a file is written through the descriptor that
  created it (FilesInv); the versions of a GCP secret are from its creator (GcpInv);
  a lone server's lock covers a file that is not written yet (LockInv); and what a call
  will answer was so while it ran (SeenInv). Created says nothing of K/V v1 and Azure, Stays
  nothing of K/V v1 and the file systems, and Honest excepts a KeySecure that denies access: there
  the code does not keep the promise.
* **ReloadProofs**: `TypeCorrect`, `AccessControl` (Authorized), `Books` (Accounted).
  The invariant has a part for each: ConfInv, UpdateInv and DiskInv tie the pointers of
  the server and the state of a reload to the configurations in force, all of which passed the
  checks of the code (Accepted, for cmd/kes also Careful, from what ReadFile refuses);
  StoreInv, RequestInv and AuditInv say for every place of a request what it has
  answered so far (Progress), which configurations it may have met (Met), and which
  audit records exist or are still due (Recorded, Due); MeterInv equates the metrics
  with cardinalities of sets of requests. Authorized holds because the routes, the
  state and the KeyStore that a request loads at three different times are all of
  configurations that it has met, and because `verifyIdentity` only lets pass what one of
  them permits (AuthenticateFacts). Accounted holds because a request's answer does not
  change after the record was written, and because each request enters and leaves each of the counted sets once.
  Requests that are not concerned by a step are treated once, by Behind and Unnoticed.
* **KeysProofs**: `AcknowledgedKeys` (Durable). Acknowledged keys that nobody tried to
  delete and no failed Create removed are stored (KeptInv), because a key is stored before
  it is acknowledged (Promised), because no step loses a key otherwise (Grows), and because
  the handlers, but for a KeySecure that denies access, answer 404 only for keys that are not there (Truthful). Listings are the long
  part: a name's index in a sorted slice is its Rank, and if `keystore.List`, the
  in-memory list or Entrust's says that it is at the end it has all names with the
  prefix (ListComplete, MemListComplete, EntrustListComplete), and so has Fortanix's
  last page (FortanixLast). Gemalto skips by number while keys come; Passed says that it
  has seen the certain keys among those it skips, which a creation preserves
  and only a deletion breaks (GemaltoRoundKeeps) - the exception in Durable.

  `Decryption` (RoundTrip) is about secret keys, not names: clients may import the same bytes
  under two names, and then what one encrypts the other decrypts. Its invariant, CInv, says
  that an encryption that was answered is sealed under a secret key that its name has
  stood for (SealInv), that whoever decrypts an answer has it (HasInv, from the guard
  of Arrive), what the handler's answer to a decryption says of the sealed part
  (TripInv), and that a name that nobody tried to delete, nor a failed Create removed, has stood for
  one key (LoneInv), since keys are put only where none is. On Azure and Vault, where Creates
  may race, LoneInv says nothing, and RoundTrip asks that the name has stood for one key
  (OneKey). From this follows that a well-formed decryption is not refused. OpensSealed is the lemma about `parseCiphertext` and Decrypt for
  all three formats. The steps are again summed up first: each leaves a request's answer
  alone, leaves it without one, or gives it that of the handler (Moves), and no step forgets
  a key that a name has stood for (HeldGrows).

Only model-checked are the liveness properties (LockReturns, CallsReturn, StaleExpires,
Finishes, Reconfigures and so on): the prover does not handle fairness. Every invariant,
action property and refinement that a passing run checks is also a theorem.

## Findings

* `keystore.go:276` promises that Delete removes the key from the cache; a
  concurrent Get puts it back (`keycache_stale`). It stays until Expiry, or for
  ever without one. `StaysOut` proves that this race is the only way.
* `internal/api/multicast.go:46` dereferences nil if two clients are the first to
  subscribe at the same time, although the zero value is "ready for use" and
  concurrent modification is allowed (`multicast_first`).
* `internal/keystore/fs/fs.go:95` removes the file after any error of `create` but
  ErrExist. If the open fails for another reason (too many open files), the file is
  another Create's key, and it is gone (`backends_files`).
* `internal/keystore/entrust/keycontrol.go:446` resets the timer only after success. If
  one renewal and the login after it fail, the loop never tries again, although it is
  to renew the token "until ctx.Done() returns" (`entrust_renewal`).

## Disagreements

Here the code does not do what a line of the repository says, and the properties above except
it, because what they say otherwise is worth checking. For all but the last, TLC finds a
counterexample in the same instance when the exception is dropped.

* *Failed creations* (Durable, OneKey). `fs.go:94-96` removes an existing key after a failed
  Create, see Findings: an acknowledged key is lost on fs and efs without a deletion.
* *Racing creations* (CreatedIsStored, KeysStay, OneKey). K/V v1 overwrites (`vault.go:297`), and
  Azure keeps both versions. `azure/key-vault.go:76-79` warns of the race, but 240 says that Get returns
  "the first resp. oldest version": `client.go:176-187` compares creation times of whole
  seconds, with ties going by the order of a page, so that Get may change its mind.
* *Denied access* (HonestAnswers, Durable). KeySecure answers 404 for a secret it must not show, and
  Delete returns nil for one that is still there (the BUG comment at `gemalto/key-secure.go:257-266`),
  although `keystore.go` says that Get returns ErrKeyNotFound "if no such entry exits".
* *Tight tokens* (NeverExpired, Settles). `vault/client.go:204` delays the use of the new token "but not
  beyond expiry" and 238-239 says that it "must not wait longer than the remaining lifetime of the
  currently used token". For lives of 30 seconds to 5 minutes the delay is half of the fifth that
  is left, counted from a token that was itself delayed by as much: it ends when the old
  token expires, and the requests' time comes on top.
* *Failed listings* (Accounted). `server.go:752` does not return after `resp.Fail`, as
  `internal/api/error.go:38-39` ("Handlers should return after calling Fail") and `internal/api/api.go:132-133`
  ask: 502 and an error are followed by 200 and a list. `metric.go:33`, 45, 176-181 and 302-304 count
  what succeeded and what failed, but the status counted is the last one: the client was told
  that the listing failed, and it counts as succeeded.
* *Torn audit handlers* (Accounted). `server.go:262` replaces the two words of `Audit.h` under running
  requests. A request that calls the handler just then may write no record although
  auditing was on before and after.
* *Endless listings* (Finishes). Fortanix's List asks for the same page until the client leaves. `api.go:57`
  calls the timeout of a route the one "after which the request gets aborted", 68-69 and
  `config.go:114-119` say alike; it is a write deadline of the connection, and a handler that does
  not write does not notice it.
* *Unused keys* (SweepsUnused). `config.go:93-94`: ExpiryUnused "does nothing if <= 0 or greater than
  Expiry". `keystore.go:186` only asks whether it is positive, and without Expiry, or with a
  shorter one, unused keys are evicted all the same. The runs have Expiry on; the theorem
  is about the code and holds either way.

## Observations

What else the models follow the code in, though one may wonder; some of it is not what the
comments say:

* listKeys leaves the `*` of a pattern in the prefix, so that `name*` lists nothing but names
  with a star.
* `server.go:1112` selfDescribeIdentity looks up the resource, which is empty, instead of
  the caller: everybody but the admin gets 404.
* `server.go:254` an Update with an ErrorLog makes a log handler without level; the next
  record panics, and so does the request that logs it. cmd/kes never passes one.
* `internal/keystore/keystore.go:38` with a prefix and a limit n, List returns n + 1 names; lines
  13-17 say "the first n".
* Entrust's List returns as many empty names as names, and does not filter by prefix, although
  it is to return "the first n key names, that start with the given prefix"
  (`keycontrol.go:313`). Gemalto's misses keys if others are deleted between two pages.
* An empty key file makes ParseKeyVersion panic.
* `cmd/kes/server.go:401` configureCache sets Expiry where its comment and the sample
  configuration have the default of ExpiryUnused: unused keys do not expire, and all keys
  expire after 30 seconds.
* A signal that comes before the server has started is consumed and its reload fails.
  A failed Update leaves the connection to the new KeyStore open, and the ticker may
  overwrite the TLS configuration of a reload with an older one until it ticks again.
* `kesconf/config.go:670` an Entrust section without credentials ends the process, also at
  a reload. The `kes` section of a file and the TLS proxies have no effect.
* Connections accepted under an old TLS configuration go on being served.
* `internal/metric/metric.go:257` eventCounterWriter counts a write and drops its bytes.

## Not modelled, and the plan

Not modelled for good: cryptography, the syntax of YAML, PEM, X.509 and protocol buffers,
generated code, terminal output, the client commands, the TLS proxy (which the server
does not use), and what happens to a connection when its deadline passes.

What is left of the plan: **Cow** as a module of its own, with capacity, Add, Clone and Keys,
refining an atomic map.
