# A verification development for the MCP gateway

TLA+ models of the gateway in `src/gateway-fastmcp`, of the policy bundle in
`src/policy` it asks, and of the two demo backends, with TLC configurations that check
them on small instances and TLAPS proofs that hold for every instance.

The gateway is a chokepoint. Every MCP request to a backend passes the policy
enforcement point (PEP, `app/middleware/opa_pep.py`): the PEP resolves the backend,
asks OPA, exchanges the user's token for one of that backend, lets FastMCP forward
the request, and writes an audit row. What makes this hard is that requests are
asyncio tasks that interleave at every `await`, that a credential travels from the
PEP to the wire through a `ContextVar`, that tokens are cached and shared by tasks,
that PDP, token service, database and backends fail independently, and that a client
may go away at any point.

## 1. Inventory

| Component | Source | State it keeps | Operations |
|---|---|---|---|
| Policy enforcement point | `app/middleware/opa_pep.py`, `context.py`, `upstreams.py` | per task: operation, decision, minted tokens, the `downstream_tokens` ContextVar; shared: the exact name table built in `__init__` | `on_call_tool`, `on_read_resource`, `on_get_prompt`, `on_list_*`, `_authorize`, `_prefetch_downstream_tokens`, `_write` |
| Downstream token cache | `app/downstream/cache.py` | an OrderedDict of entries, weakly held per-key locks | `get`, `set`, `_prune`, `get_or_set` |
| Token providers, router | `app/downstream/{m2m,obo,entra,base,__init__}.py` | the discovered token endpoint, one cache per provider | `token_for`, `_endpoint`, `aclose` |
| OPA client | `app/middleware/opa_client.py` | an HTTP client | `build_input`, `project_args`, `evaluate`, `evaluate_list_access` |
| Policy bundle | `policy/bundle/mcp/*.rego`, `policy/data.json` | none after load | the rules of `data.mcp` |
| Tool registry | `app/tools/registry.py` | static table | `lookup` |
| Audit writer | `app/middleware/audit.py`, `db/init/001_audit_log.sql` | a pool of at most 4 connections; an append-only table | `open`, `write`, `aclose` |
| Inbound authentication | `app/auth.py`, `app/principal.py` | FastMCP's session store on disk, the session JWTs issued, the validated tokens | `load_access_token`, `from_access_token`, `classify_agent` |
| Configuration | `app/config.py` | the settings, read once per process | `get_settings`, `backends`, `require_entra` |
| Gateway assembly | `app/server.py`, `main.py` | what the process holds open | startup, lifespan, shutdown |
| Backends | `mcp-server-a`, `mcp-server-b` (`app/auth.py`, `app/main.py`) | customers; ledger balances and journal | token verification, the four tools |
| Request log, deployment | `request_log.py`, compose, scripts, CI | none | logging; out of scope |

Interactions: the PEP calls the OPA client and the router (both HTTP underneath),
then `call_next`, and FastMCP's proxies call `client_factory` in `upstreams.py`,
which reads the ContextVar the PEP set. Tasks share providers and so the cache and
its locks. Before the PEP, `auth.py` turns a session JWT into the user's Entra token
and `principal.py` turns that into the principal; `server.py` opens and closes what
all of them use. The OPA client's input is the interface to the bundle, the registry fixes
server, scope and policy arguments for both. `AuditWriter` is the last step of every
path.

What has to be right, component by component:

* PEP: no credential at a backend without an "allow" for this request and backend;
  the credential is this request's own; a call goes nowhere but to its tool's server;
  one truthful audit row for each decision; a list shows only what was cleared; a
  request hangs on nothing but an outsider.
* Cache and providers: no token crosses users, scopes or backends; what comes out of
  the cache is still usable; one fetch per key at a time; the bound holds; nobody
  waits for a lock forever.
* Policy: no conflict between bodies of a rule; every denial explained; list and call
  agree; arguments fail closed; the projection that hides arguments from OPA does not
  change a decision.
* Inbound authentication: human, agent and gateway are told apart in every principal;
  a session is lost only for a cause, and admitted only while it lives.
* Configuration and assembly: a process that serves can route to every backend it
  mounts, and leaves nothing open unless closing failed.
* Backends: no token of another audience gets in; the journal loses no posting and
  invents none; a balance loses one only in the race the code has.

The `hazards` of `PROJECT.json` list each of these at the line where it bites.

## 2. Modules

| Module | What it is |
|---|---|
| `Chokepoint` | abstract specification: what the gateway promises about one (request, backend) pair |
| `OpaPep` | the PEP, one action per stretch of code between two awaits; refines `Chokepoint` |
| `OpaPepProofs` | theorems about the credentials of `OpaPep` |
| `OpaPepTrailProofs` | theorems about its audit trail, and the refinement of `Chokepoint`; extends `OpaPepProofs` |
| `OpaPepOutcomeProofs` | theorems about what the trail of a finished request says; extends `OpaPepTrailProofs` |
| `TokenCache` | the cache as operators on its value (`get`, `set`, `_prune` are atomic: none awaits) |
| `TokenCacheProofs` | lemmas about those operators, for any keys and entries |
| `TokenProvider` | one provider with its callers, the per-key lock, the HTTP requests and the clock; extends `TokenCache` |
| `TokenProviderProofs` | theorems about cache, lock, queues and clock; extends `TokenCacheProofs` |
| `Policy` | the Rego rules, the OPA input document and the list filter of the PEP |
| `PolicyProofs` | theorems about the rules, for every `data.json` |
| `Gateway` | the process from start to exit, the settings, the sessions that outlive it, inbound requests up to the principal, the providers the router builds |
| `GatewayProofs` | theorems about `Gateway` |
| `Backends` | both backends: token verifier and tools, in threads |
| `BackendsProofs` | theorems about journal, updates and balances |
| `MCOpaPep`, `MCTokenProvider`, `MCPolicy`, `MCGateway`, `MCBackends` | instances for TLC |

`OpaPep` composes with the rest through what it leaves open: its PDP answers are what
`Policy` computes, its `Minted` and `MintFails` are the outcomes of a call of
`TokenProvider`, its users are the principals `Gateway` builds, its `Accepts` is the
verifier of `Backends`. One product of all of them would add states and no behaviour:
none of these parts reads the state of another.

### OpaPep and the code

`pc[r]` is the await the task of request `r` is suspended at: `"opa"` in
`OpaClient.evaluate*`, `"mint"` in `DownstreamRouter.token_for`, `"next"` in
`call_next`, `"write"` in `AuditWriter.write`. All that runs between two awaits is
one action, so tasks interleave in the model where they do in the event loop and
nowhere else.

| Code | Model |
|---|---|
| `OpaPep.__init__` exact table, `_resolve` | `Resolve` |
| `on_call_tool` without a token | `CallUnauthenticated` |
| `on_call_tool`, `_authorize` up to the first await (including `_pre_check`) | `OnCallTool` |
| `_unmodeled` | `Unmodeled` |
| `on_list_*` up to the first await | `OnList` |
| the answer of OPA, in `_authorize` and in the prefetch loop; `_query` raising `AttributeError` on one that is no object | `PdpAnswers`; `PdpEscapes` |
| `_jti`, `_write`'s record | `Jti`, `AuditRow` |
| `token_for` returning, raising `DownstreamError`, raising anything else | `Minted`, `MintFails`, `MintEscapes` |
| `client_factory` reading the ContextVar | `Contact` |
| the `try/except/finally` around `call_next` | `CallReturns`, `CallRaises`, `CancelCall` (all `CallEnds`) |
| the result of a list, `_visible` | `ListReturns`, `ListRaises` |
| `_write` returning: next backend of the loop, stash and `call_next`, or the end | `Written` |
| `CancelledError` | `CancelBeforeNext`, `CancelCall`, `CancelWrite` |

`ctx` is the ContextVar, `tokens` and `pdp` are the local results they stand for,
`sent` is history: which backend was contacted with which credential. `rows` is the
audit trail, table and log together: an exception of the database is swallowed by
`_write`, which logs the record instead.

A row does not carry the token but its `jti`, which `_jti` reads without verifying
anything: None if the token is no JWT or has no such claim. Where Entra puts one is
its choice, so `Opaque`, the set of tokens without, is any set of tokens; in the
instances it is every token for the ledger, while those for the CRM carry one. A
`jti` stands for its token, which supposes that the token service gives no two tokens
the same. What the properties say of a row and a token is therefore said of the
token's `jti`, and of an opaque token it says that the row names none.

Chosen nondeterministically because they lie outside: OPA's answers, the token
service, the backends, the database, the client. The order of a list's backends is
that of the configuration, so the model tries every order. FastMCP contacts the
backends of a list one by one, in any order.

Abstracted: argument values, latency, reason texts, regulatory tags, trace
identifiers, the warn-once set of `_warn_ungoverned` (it only logs).

### TokenProvider and the code

The cache's OrderedDict is a record: `data` maps keys to entries, and its order is kept
as `newer`, the set of keys used after each key. `MoveToEnd` is `move_to_end`, `Only` a
series of `pop` or `popitem`, which leave the rest in order; the `while` of `_prune`
keeps the keys with fewer than `MaxSize` newer ones (`Latest`). `BoundedCache` checks
that this stays a total order of what is stored.

`AskRefused` is OBO's refusal of a user without a token, before any cache. `Ask` is the
first `get` of `get_or_set` up to its lock, `Acquire` the re-check under
the lock, `BeginFetch`/`Discovered`/`Fetched`/`FetchFails` the two HTTP requests of a
fetch, `Cancelled` a cancelled PEP task, `Tick` the clock. `asyncio.Lock` is first
come first served, with a gap between a release and the waiter's step in which other
tasks run and time passes. A token's own expiry (`dies`) is counted from the moment
Entra issued it, which lies between POST and answer, while the cache counts from the
answer, as the code does. How long the exchange takes has no bound: httpx applies the
10 s of `entra.py:22` to each connect, write, read and wait for a connection, and the
clock is read whenever the event loop gets to it.

Two histories serve the properties. `took`, a field of the token, is how long the
exchange took that brought it: `HitStaysValid` says that a token out of the cache lives
longer than the skew less that time, and no more can be said. `later` records for each
stored key which others tokens were handed out for since: `EvictsLeastRecent` compares
the victim of an eviction with it, so it does not lean on the order the cache keeps.

### Policy and the code

A complete rule with several bodies is the set of values its bodies yield; more than
one is OPA's conflict error, which the gateway takes for a deny. `Answer` evaluates
the whole `data.mcp` document for one call or list. `BuildInput`, `BuildListInput`
and `ProjectArgs` are the gateway's side. A comparison with an absent limit of
`data.json` is undefined in Rego, so its body yields nothing; the model has
configurations with and without the limits.

`Shown` is `_visible` of the PEP, which filters a list by the registry's roles, in
Python, while the bundle decides a call by `data.json`. `ShownIsCallable` relates the
two.

### Gateway and the code

| Code | Model |
|---|---|
| `main`, `build_gateway`, `require_entra` | `Start`, `RequireEntra`, `Profile` |
| `lifespan` up to `yield`; `create_pool` raising | `Opened`, `OpenFails` |
| the `finally` of `lifespan`, `DownstreamRouter.aclose` | `Shutdown`, `Close`, `CloseRaises` |
| `GatewayAzureProvider.load_access_token` | `Present`, `Swapped`, `Attach` |
| `from_access_token`, `classify_agent` | `FromAccessToken`, `ClassifyAgent`, `Serve` |
| `DownstreamRouter._provider` | `Route` |
| the operator: edited environment, recreated container, kill | `Deploy`, `Recreate`, `Crash` |

What survives a process is `env` and `store`; `Exit` forgets the rest. FastMCP's side
is external: `Login` ends an OAuth flow, `Present` and `Swapped` are
`OAuthProxy.load_access_token`, which verifies the JWT, awaits the stored Entra token
and its validation, and hands over an `AccessToken` that other requests may hold too.
That is why the code copies it before adding the agent claim; `shared` is the
validator's own object. uvicorn ends all requests before the lifespan's `finally` runs.

The store is one directory per signing key, named by the key's fingerprint, so a key
that is rotated back finds its sessions again. `classify_agent` parses an id as a URL;
the model keeps what that parse tells apart (`url`).

### Backends and the code

FastMCP runs the synchronous tools in threads, so `ledger_post_entry` is five
steps (`PostRead`, `Store`, `Journal`, `Reread`, and `PostUnknown` for the error) that
interleave with those of other calls. A tool that returns a live dict is serialised by
the event loop later (`Serialise`). Money is counted in mills, and `RoundToCents` is
`round(x, 2)`; amounts that end in half a cent are excluded, because what Python does
to them depends on their binary fraction. `raced` is history: accounts where two
postings overlapped between read and store. `overtook` is history too: for each
update under way, the calls that set the tier of its customer after it did and before
its answer was made, in order. `UpdateAnswersOwn` says that the answer holds the tier
of the last of those, or the call's own if there is none; an update that was over
before, or is not in that window, cannot explain an answer.

## 3. Runs

| Run | Instance | What it shows |
|---|---|---|
| `pep_trail` | two requests of any hook, two users (one lacks a role), two backends (M2M and OBO), an ungoverned name, no fault | `RecordedOnce`, `RowTellsOutcome`: the trail is complete and true; `CredentialIsOwn`, `CallReachesItsServer`, `ListShowsOnlyCleared` |
| `pep_faults` | two requests (`tools/call`, `tools/list`), cancellation at every await, exceptions that escape from the PDP's answer and from the mint | `CredentialOnlyIfCleared`, `ListRowPrecedesUse`, `RowNamesItsToken`, `NeverRecordedTwice`, and `KeepsPromise`: refinement of `Chokepoint` |
| `pep_live` | two requests, the same escaping exceptions, under the fairness below | `OnlyOutsidersStall`, `EveryRequestEnds` |
| `pep_escape`, `pep_partial`, `pep_cancel` | one request, one kind of fault | three disagreements between code and comment, see section 6 |
| `provider_obo` | two callers, two users and one without a token, two scopes, room for two of four keys, lifetimes at the skew and above it | `NoForeignToken`, `BoundedCache`, `EvictsLeastRecent` |
| `provider_m2m` | three callers of one key, lifetimes 0 and above the skew, exchanges longer than the skew, clock past expiry and refetch | `HitStaysValid`, `OneFetchPerKey`, `OnlyFirstReachesEntra`, `EveryCallEnds` |
| `policy` | the shipped tools and roles, 4 enforcement modes, limits set or missing, allowlists empty or not and one with an id of the wrong kind, every role set, amounts around the cap in both directions | `NoConflict`, `EveryDenialExplained`, `MoreRolesNeverDeny`, `CallableIsListed`, `ShownIsCallable`, `UnapprovedAgentGetsNothing`, `ArgumentsFailClosed`, `ProjectionSuffices` |
| `gateway` | two requests, two sessions, three kinds of client, three environments (two keys, two regimes, one misspelt), every order of login, expiry, restart, crash, recreation and rotation | `IdentitiesStayApart`, `RefusedForCause`, `AdmittedOnLiveSession`, `EveryBackendRoutable`, `LeakNeedsFailure` |
| `gateway_rotation` | one session, one request | a disagreement between code and document, see section 6 |
| `backends` | three calls of any tool with any audience, one account, one customer, amounts below a cent, whole and negative | `OnlyOverlapLoses`, `BalanceIsSomeHistory`, `JournalMatchesAnswers`, `UpdateAnswersOwn` |

Why these bounds are enough. Requests share nothing in `OpaPep` but the code (lemma
`StepsAreLocal` proves it), so what two requests cannot do to each other more cannot.
Two backends, one per regime, give a list a first and a last iteration of its
loop, one allowed and one refused. In the provider three callers are a holder, a
waiter and one that arrives in the gap; a cache of two places for four keys evicts and
re-admits. A time unit stands for the skew (`Skew` = 1 for the 60 s of `cache.py`):
what the code tells apart is a lifetime below, at or above the skew, and what the
properties tell apart is an exchange that takes none of it, all of it or more. In
`provider_m2m` `MaxTime` lets an entry be fetched, expire and be fetched again, or one
exchange outlast the skew. `provider_obo` needs time only for an entry to be in the
skew window or expired while another is put, for which one tick is enough: its shorter
lifetime is the skew, so such an entry is never usable, and expires at the tick.

In `gateway` two sessions are enough for requests of different users or of one user's
two clients, two requests for one to be refused while the other is served, and three
environments for a rotation there and back and for a start that is rejected. In
`backends` two postings race and a third call watches, or posts after them.

`CHECK_DEADLOCK` is on everywhere: `AllServed` and `AllAnswered` are the only ways for
`OpaPep` and `Backends` to stop, a provider can always be asked and a gateway always
be started or killed.

Each property has a mutant in `PROJECT.json`: a variant of a definition, named
`<operator>_<defect>` and declared before it, under which the property fails. The
variants are used by nothing else.

### Fairness

* `OpaPep!BoundedSpec`: weak fairness of `Decide` (OPA's answer, of any form) and of the
  mint, because the OPA client is built with a timeout of 5 s and the token providers'
  HTTP client with one of 10 s. httpx applies it to each connect, write, read and wait
  for a connection, so a peer that falls silent is cut off; one that sends a byte every
  few seconds for ever is not, and is assumed away. No bound in time is assumed.
  None for `Written` (neither pool nor `execute` has a timeout) and none for
  `call_next` (the backends' time is theirs). `OnlyOutsidersStall` is what follows;
  `EveryRequestEnds` adds as a premise that database and backends answer. The run has
  no cancellation, which would only end a request sooner.
* `TokenProvider!FairSpec`: the event loop runs a waiter whose lock was released, and
  an HTTP request is answered, breaks or times out, with the same proviso.
  Clock and callers have no fairness.
* `Gateway!FairSpec`: the `finally` clause runs on, since nothing an `aclose` waits for
  is left once requests are gone. Only `gateway_rotation` uses it, so that its
  counterexample is not a process that stops halfway.

## 4. Proofs

| Module | Theorem | Property |
|---|---|---|
| `OpaPepProofs` | `TypeCorrect` | `TypeOK` |
| | `ClearedCorrect` | `CredentialOnlyIfCleared` |
| | `OwnCorrect` | `CredentialIsOwn` |
| | `RoutedCorrect` | `CallReachesItsServer` |
| | `ShownCorrect` | `ListShowsOnlyCleared` |
| `OpaPepTrailProofs` | `NamesCorrect` | `RowNamesItsToken` |
| | `OnceCorrect` | `NeverRecordedTwice` |
| | `PrecedesCorrect` | `ListRowPrecedesUse` |
| | `PromiseCorrect` | `KeepsPromise`: `OpaPep` implements `Chokepoint` |
| `OpaPepOutcomeProofs` | `OutcomeCorrect` | `RowTellsOutcome`, unless a client cancels |
| | `RecordedCorrect` | `RecordedOnce`, without malformed answer, escape or cancellation |
| `TokenCacheProofs` | `PruneEffect` | what `_prune` keeps (of no run: a lemma on the operator) |
| `TokenProviderProofs` | `BoundedCorrect` | `BoundedCache` |
| | `OneFetchCorrect` | `OneFetchPerKey` |
| | `ForeignCorrect` | `NoForeignToken` |
| | `ValidCorrect` | `HitStaysValid` |
| | `EvictionCorrect` | `EvictsLeastRecent` |
| | `RefetchCorrect` | `OnlyFirstReachesEntra`, given `Room` |
| | `ProviderTypeCorrect` | `TypeOK` |
| | `StrandedCorrect` | `NobodyStranded`, the safety half of `EveryCallEnds` (of no run) |
| `GatewayProofs` | `TypeCorrect` | `TypeOK` |
| | `RoutableCorrect` | `EveryBackendRoutable` |
| | `LeakCorrect` | `LeakNeedsFailure` |
| | `IdentitiesCorrect` | `IdentitiesStayApart` |
| | `RefusalCorrect` | `RefusedForCause` |
| | `AdmissionCorrect` | `AdmittedOnLiveSession` |
| `PolicyProofs` | `ConflictCorrect` | `NoConflict` |
| | `ExplainedCorrect` | `EveryDenialExplained` |
| | `RolesCorrect` | `MoreRolesNeverDeny` |
| | `AgentCorrect` | `UnapprovedAgentGetsNothing` |
| | `ArgumentsCorrect` | `ArgumentsFailClosed` |
| | `ProjectionCorrect` | `ProjectionSuffices`, given `Declared` |
| | `ListedCorrect` | `CallableIsListed`, given `SameServer` |
| | `ShownCorrect` | `ShownIsCallable`, given `SameServer`, `SameRole`, `Satisfiable` |
| `BackendsProofs` | `TypeCorrect` | `TypeOK` |
| | `JournalCorrect` | `JournalMatchesAnswers` |
| | `UpdateCorrect` | `UpdateAnswersOwn` |
| | `OverlapCorrect` | `OnlyOverlapLoses` |
| | `HistoryCorrect` | `BalanceIsSomeHistory` |

Each holds for every value of the constants that satisfies the module's assumption, and
from that assumption and the premises named in the table alone. `ConstantsAssumption` of
`OpaPep` says that the distinguished values are distinct from the sets they are told
apart from and that the tables are functions of their types, which any accepted
configuration and any registry gives. `Opaque` may be any set of tokens.
`CacheAssumption` and `ProviderAssumption` say that skew, lifetimes and the end of the
clock are natural numbers and that the cache holds one entry at least, but relate none of
them, `EntryAssumption` that no entry is mistaken for none. `GatewayAssumption` says
that a client id names one client and is not the gateway's own, and that Entra's claims
name user and gateway in the claim the code reads first, or in the other if that is
absent. `PolicyAssumption` gives requests their fields and says that amounts and the cap
are integers; `BackendsAssumption` that opening balances are whole cents and the
distinguished values distinct.

### The enforcement point

`StepsAreLocal` shows that a step of one request leaves every variable of the others
alone; this is where the per-task ContextVar matters. So each action has to be
considered for its own request only.

1. `Typed` = `TypeOK` with `Shape`. `TypeOK` is not inductive: to build a token the
   decision must be about a backend and for a user, and to append a row there must be
   one. `Shape` says what a task knows at each await.
2. `Kept` = `Typed` with `Custody`. `CredentialOnlyIfCleared` speaks of the wire and
   the PDP; `Custody` follows the token between the two: what is in the ContextVar is
   what was minted (`Stashed`), what was minted was minted on an "allow", from this
   operation (`MintedOnAllow`), what was sent is what was minted (`SentAsMinted`).
   The delicate part is `AskedOnce`: the PDP's answer about a backend never changes
   once a token was minted on it, because the loop never comes back to a backend.
3. `Bound` = `Routed` with `Shown`, preserved under `Kept`: a call in `call_next`
   holds the token of its tool's server; what a list shows comes from backends that
   accepted a token, which by `Custody` stands for an "allow".
4. `Trailed` = `Kept` with `Trail`, for the audit trail. That no decision is recorded
   twice is not inductive either: it needs that the backends still to be recorded are
   in no row yet (`Fresh`), and that the row in hand is about the backend in progress
   and already true (`InHand`, `Honest`). `Preceded` follows a list's token: the row
   of the decision that allowed it, with the token's `jti` if it has one, is written, or
   being written, before the token gets to the ContextVar.
5. The refinement. `OthersStand` shows that a step moves no pair but that of the
   request and the backend in progress; `Move` lists what `Chokepoint` lets one pair
   do; a lemma per kind of step (`PdpAnswersMoves`, `MintMoves`, `ContactMoves`,
   `RecordMoves`, `NothingMoves`) shows the move. `Trail` supplies what the abstract
   guards ask: a mint finds no verdict, a contact finds none or "ok", a row is truthful.
6. `Story` and `Complete`, over `Trailed`. `RowTellsOutcome` compares a row with the
   end of the call, which comes after it: `Story` ties the status of the row under way
   to how the task goes on, and knows that nothing is sent before `call_next`.
   `CancelCall` writes "ok" for a call whose client gets nothing, hence the premise.
   `RecordedOnce` counts: `Complete` says that what the rows name, what the loop has
   yet to do and what is in progress make up what is `Due`; with `Once` from the trail
   the rows of a finished request are in bijection with it (`RowsCount`). An escaping
   exception, the PDP's or the mint's, or a cancellation abandons what is outstanding,
   hence the premise.

### The provider

All over `Calls`, which types the callers.

1. `Caching`: the cache is a record over the keys (`Sound`), finite, ordered and within
   its bound. `TokenCacheProofs` supplies the steps. That the keys with fewer than
   `MaxSize` newer ones are at most `MaxSize`, and all of them if no more are stored, is
   `LatestSize`: counting the newer keys maps the stored ones one to one onto
   `0..n-1`, since the order is total and each count is below `n`. From it follow
   `PruneEffect`, `GetEffect` and `SetEffect`, all the provider's theorems use.
2. `Locked`: whoever fetches holds the lock of its key; releasing, failing and
   cancelling give it to nobody or to one waiter.
3. `OwnEntries`: an entry under a key fits every demand with that key; this is where the
   key must contain all a token depends on.
4. `Timely`: a token dies before its entry by no more than its exchange took (`Lasts`),
   because the cache counts from the answer and Entra from the issue, which comes after
   the POST (`Clocks`). A hit adds the skew. No bound on the exchange is used.
5. `Missing`: nothing is stored under a key that is being fetched. `get` dropped what
   was stale before the fetch began, and the lock keeps others from storing. Without it
   a store could replace a usable entry. `Recent`: the order the cache keeps is that in
   which tokens were handed out. With `SetOrder` of `TokenCacheProofs` (what `set` leaves
   besides the new entry is newer than what it evicts) it gives `EvictsLeastRecent`.
6. `Awaited`, for `OnlyFirstReachesEntra`: the token a waiter waited for is in the cache
   under its key until it is within `Skew` of its expiry. This needs `Room`: that all
   keys fit the cache. A smaller cache may evict the token before the waiter looks, which
   is the code's behaviour and why the run gives it room.
7. `Queued`: every waiter is in the queue of its key, so a cancelled one can be taken
   out of it; `Results` types what callers got.
8. `Lines`: a queue holds who waits for its key, each once, and a lock is held by a
   fetch for its key (`InLine`, `Held`). With `Queued` this gives `NobodyStranded`:
   whoever waits, waits for a request under way or for the first in line of a free lock.
   `LineChange` covers every step, since each changes one queue and one lock at most.

### The gateway

`Process` is about the process alone: `built` lists each open provider once, shutdown
has closed what its phase says (`ClosedInOrder`), a process that runs has checked
settings (`Checked`), and nothing is in flight unless it serves (`Quiet`). `Session`,
kept under `Process`, says that a session's Entra token is on the disk of the key it
was signed with until its container is recreated (`Stored`) and that what a request
carries, from the swap to the principal, is its own session's (`Known`).

### The policy bundle

`Truth` says that the document is always the one of the request that was asked; the
rest is about the rules. `BodiesExclude` goes through the bodies of each complete
rule, `DenialReasons` through the ways to be denied; `MoreInput` shows that a role
changes nothing else of the input, and every rule is monotone in the roles.

`Declared`, `SameServer`, `SameRole` are facts about two or three files kept by hand:
`registry.py`, `data.json`, `tool.rego`. Nothing in the gateway enforces them; the tests
`test_args_projection.py` and `test_registry_policy_agreement.py` do, and the theorems
say what they buy. `Satisfiable` says that each tool's constraint accepts some
arguments. `MCPolicy` assumes all four of its instance, so TLC evaluates them.

### The backends

Over `Typed`, which gives a call in a tool the request of that tool. `Journalled`: an
entry is of a call past its journal step (`True`), no call has two, and a call that was
let in had a token of its server (`Admitted`). `Attributed`: the tier of the customer of
an update that is not answered yet is that of the last call that set it since this one
did (`SetBy`), its own at first; an answer keeps what it was made with.

`Ledger` is about the balances. `History` holds on every account: the balance, every
answer and every sum in a thread's hands come to some of the postings stored, the sum
to its own posting besides. A posting reads a balance that comes to a set of postings
and adds itself to that set, whatever was stored since; `PostingAdds` shows that this
costs at most half a cent. `Alone` holds as long as no two postings overlapped: one
is in progress at most, and the set is all that were stored. The sets are finite
because only finitely many calls have begun (`BegunAlways`).

That a sum over a set grows by the element added (`SumOfMore`) is no matter of
unfolding: the library's sum picks elements in an order of its own. `AdditiveExists`
shows that some function on the subsets is additive, and `SumIsAdditive` that the sum
is that function. Both would be inductions; both are done by a smallest
counterexample (`Smallest`, from the well-foundedness of strict inclusion on finite
sets), since the induction theorems of the library take an operator, which the provers
cannot instantiate.

### Only model-checked

Liveness: `EveryCallEnds`, `OnlyOutsidersStall` and `EveryRequestEnds` hold under
fairness, which is out of the proof system's reach; of the first `StrandedCorrect`
proves the part that is safety. Every invariant and every action
property of the passing runs is proved.

## 5. What is not modelled

* `request_log.py`: development-only middleware that changes nothing but log lines.
  Containers, scripts, CI, documents: no program state.
* FastMCP's login and consent pages, refresh of Entra's tokens, uvicorn, HTTP: external,
  as far as the code in `src/` depends on them.
* How asyncpg shares its four connections: a write that waits for a connection and one
  that waits for the database hold the call alike (`OnlyOutsidersStall`).
* Parsing of the environment (pydantic), log levels, the metadata route, the warn-once
  set of `_warn_ungoverned`, trace identifiers, latency, reason texts.
* Whether a legitimate caller gets through: that a verifier accepts both forms of its
  own audience is in the model (`Accepts`), but `JournalMatchesAnswers` would only notice
  one audience too many.
* The fallbacks of `principal.py` for a token without the agent claim: every token of the
  model comes through `GatewayAzureProvider`, which adds it.
* Row contents other than server, decision, status, `jti` and audience; the regulatory
  tags are copied from the registry.
* Ports, host names and the OAuth metadata of the backends.

## 6. Disagreements met while modelling

Checked by a run that ends in the counterexample:

* `pep_escape`: `_authorize` and the loop catch `DownstreamError` only. `_endpoint`
  wraps transport errors in it, but the token POST of `obo.py` and `m2m.py` does not,
  so a timeout of that POST ends an allowed call without any row, against
  `opa_pep.py:150`, "Every path writes one row."
* `pep_partial`: the same exception in the prefetch loop fails the whole list, leaves
  the failing backend without a row and the rest without a decision, against
  `opa_pep.py:330`, "A single unreachable backend must not fail the whole list".
* `pep_cancel`: `CancelledError` is no `Exception`; a cancelled call leaves no row,
  and a cancelled write neither stores nor logs its record.

* `gateway_rotation`: settings are cached for the life of the process
  (`config.py:164-166`) and the provider is built once (`auth.py:92`), so after the
  signing key is changed in the environment the running gateway goes on admitting
  sessions of the old key, against `docs/CLAUDE_CODE_AUTH.md:108-111`, "orphaning every
  existing session, with no restart required."

Seen, without a run of their own:

* `_write` records the backend's audience as `downstream_token_aud` on denied rows
  too, where no token exists; `001_audit_log.sql:39` heads the column with "the
  downstream (OBO) token actually used".
* `cache.py:58` promises that only the first caller of a cold key reaches Entra. With
  a lifetime not above the skew, or an entry evicted before the next waiter looks,
  each waiter fetches. `OnlyFirstReachesEntra` states what does hold.
* `cache.py:4-6` says that "entries are dropped once they reach (expiry − skew)". `get`
  does that for the key it is asked for; `_prune` (line 96) drops an entry only at its
  expiry. So within the skew of their expiry entries that no `get` will return keep
  their places, and `set` may evict a usable entry in favour of them if that was used
  longer ago. `EvictsLeastRecent` states what the code does: nothing expired is left,
  and the victim is the one used longest ago.
* `cache.py:20-21` says the skew is there "so a cached token is never handed out just as
  it becomes unusable at the backend". The time the exchange took is lost of the skew,
  because `m2m.py` and `obo.py` add `expires_in` to the clock after the answer. An
  exchange that takes 60 s leaves nothing of it, and no timeout excludes that one
  (`entra.py:22` limits each operation, not their sum). `HitStaysValid` states what holds.
* The repository's `README.md:392-394` says that each row carries "the minted token's
  `jti` and `aud`". A denied row and one of a failed mint carry no `jti`, for want of a
  token, and neither does the row of a token that has no `jti` claim or is no JWT
  (`opa_pep.py:483-487`), as those of the repository's own tests. `RowNamesItsToken`
  states what holds.
* `entra.py:32` says the endpoint is discovered once; callers of different cold keys
  discover concurrently. Harmless.
* `opa_client.py:118-119` promises None "if the PDP is unreachable or the response is
  malformed". Text that is no JSON gives that; JSON that is no object, or whose `result`
  is neither an object nor null, raises `AttributeError`, which escapes without a row
  like the token POST's errors: `PdpEscapes`, the fault "malformed".
* `opa_pep.py:469`, "audit must never break the call path": a database that accepts
  and never answers holds the call (`OnlyOutsidersStall` allows exactly that).
* `ledger_post_entry` of the demo ledger loses a posting when two overlap in its read
  and store, and answers with a balance that may count in later postings.
  `OnlyOverlapLoses` and `BalanceIsSomeHistory` state how much can go wrong.
* The lifespan's `finally` closes pool, PDP client and router in sequence: one `aclose`
  that raises leaves the others open, until the process exits (`LeakNeedsFailure`).

## 7. Plan

Done: `OpaPep` with `Chokepoint` and its refinement proved, `TokenCache` and
`TokenProvider`, `Policy`, `Gateway`, `Backends`, and the proofs above. Worth doing
next, in this order:

1. `IdentitiesStayApart` carried into `OpaPep`: the principal as the `who` of an
   operation, by a refinement mapping from a product of `Gateway` and `OpaPep`.
2. The same for the provider: `Minted` and `MintFails` of `OpaPep` as the results of
   `token_for`, stated by an abstract specification that `TokenProvider` implements.
