# TLA+ models of the federation control plane

This directory holds TLA+ models of the concurrent and retrying parts of
`src/`, together with the TLC configurations that check them. Each module is
translated from the Go source. `PROJECT.json` maps every definition to the
lines it models, and lists the runs, mutants, findings and hazards.

## The system and its parts

`spec.md` names nine components, C1–C9. The table shows which of them have code under `src/` and where it is modelled.

| Part | Source | Concurrency / failure behaviour | Module |
|---|---|---|---|
| C3/C7 server-ad store, ingest path | `director/cache_ads.go` `recordAd`, `ClearServerAds` | Many ingestion goroutines, a TTL cleaner, eviction callbacks and probe goroutines share `serverAds`, `statUtils` and `healthTestUtils` | `ServerAds` |
| C5 health prober | probe goroutine (not in src), registration in `recordAd` | errgroup of limit 1 per server, `TryGo`, cancel swap | `ServerAds` (environment) |
| C6 stat pool | lazy creation in `recordAd` | created under `statUtilsMutex`, stopped at eviction | `ServerAds` |
| C9 director query | `client/director.go` `queryDirector`, `GetDirectorInfoForPath` | retry loop with backoff, transport errors, ctx cancellation, DELETE→PUT fallback | `DirectorQuery`, refining `DirectorRetryPolicy` |
| C9 object-server list | `parseServersFromDirectorResponse`, `client/main.go` `generateSortedObjServers` | pure | `ObjectServers` |
| C2 discovery cache | `config/config.go` `GetFederation`, `discoverFederationImpl`, the federation steps of `InitClient`/`InitServer` | `sync.Once` shared by concurrent callers with their own ctx, reset at start-up | `FederationOnce` |
| C9 `Do*` entry points | `client/main.go` `DoStat`, `DoList`, `DoDelete`, `DoGet`, `DoPut`, `DoCopy`, ..., `handleSchemelessIfNeeded` | sequential: URL handling, the director query, token, action, error unwrapping | `ClientOps` (on top of `DirectorQuery`) |
| Web UI | `web_ui/ui.go`: the `/view/` handler chain, the `/api/v1.0` config, restart, server and API-token handlers, `InitServerWebLogin`/`waitUntilLogin` | one handler chain per request, a blocking send on `RestartFlag`, a polling login waiter | `WebUI` |
| Config defaults, params, daemon, Windows broker stubs | `config/config.go`, ... | sequential glue and I/O | not modelled (see below) |

These parts interact as follows:
- Servers register with the director, and the director's ingestion path (`recordAd`) writes their ads into C3.
- Each write also arms a stat utility (C6) and a health probe (C5).
- A process resolves the federation once through `GetFederation` (C2). A server does it eagerly at the end of `InitServer`, after `setEnabledServer`. A client defers it to its first call.
- The client then queries the director with retries (`DirectorQuery`).
- From the director's answer and the user's preferred servers, the client builds the ordered server list (`ObjectServers`).
- A server's web UI serves its pages and admin API. It gates admin pages on the user, and redirects every page to initialization until the admin password is set (`WebUI`).

## Modules

### ServerAds (`director/cache_ads.go`)

**State**
- `serverAds` is the TTL cache, as a map from `<<scheme, host>>` to an entry or `NoAd`.
- An entry records:
  - whether the ad comes from topology;
  - `DisableDirectorTest`;
  - its expiration;
  - an item id. The id makes an in-place `Set` on a live item visible to a handler that read the item earlier.
- `statUtils` holds the keys that have a stat utility.
- `healthUtils` maps each key to the errgroup id and the current cancel ctx id of its health test.
- `probes` holds the running `LaunchPeriodicDirectorTest` goroutines.
- `cancelled` holds the cancelled ctx ids.
- `shutdown` means the root ctx is done.
- `pending` counts, per key, the `OnEviction` callbacks that a removal has started and that have not run yet.
- `hs` holds each handler's local variables and program counter.

**Actions.** Each `recordAd` call is a sequence of atomic steps, matching how the code locks:
1. `RecordAd` and `RecordAdEmptyUrl`: entry, and the empty-URL early return.
2. `Lookup`: three separate `Get`s, over http, https and the raw URL.
3. `Decide`: topology/Pelican precedence, the `Delete` of a topology ad, and the TTL computation or the early return for an expired ad.
4. `SetAd`.
5. `StatUtil`: under `statUtilsMutex`, then the return for topology ads or ads with `DisableDirectorTest`.
6. `HealthTest`: under `healthTestUtilsMutex`. It performs one of:
   - a new registration (`NewHealthTest`);
   - a replacement of a done errgroup;
   - a `TryGo` on a running errgroup, followed by the cancel swap (`RetryHealthTest`).

**Environment.**
- `Evict`: the TTL cleaner removes an expired item.
- `ClearServerAds`: `DeleteAll`.
- `Remove` is the removal these share with `Decide`'s `Delete`. ttlcache v3 runs `OnEviction` on a goroutine of its own for every item it removes, so a removal only starts a callback (`pending`), and a removal of a missing key starts none.
- `TearDown`: a started callback runs, at any later point. It drops the URL's stat utility and cancels its health test, whatever has been stored at the URL since.
- `Tick` advances the clock.
- `Shutdown` cancels the root ctx.
- `ProbeExit`: a probe returns when its ctx is cancelled or its ad is gone.

The eviction callback (`Remove`, `TearDown`) and the probe's exit condition are not under `src/`. They are modelled from spec §3–§4.5 and marked `spec_modelled`.

`updateLatLong` only sets coordinates and a metric, so it is left out.

### DirectorQuery (`client/director.go`)

**State**
- `verb`, the current query's method, and `origVerb`, the method `GetDirectorInfoForPath` was called with.
- The loop index `idx`.
- `resp`, the last response.
- `attempts`, the number of requests per verb.
- `sleeps`, the backoffs of the current call, in seconds.
- `ctxDone`.
- `result`.

**Responses.** Each attempt receives any response from a small set:
- a status;
- whether the `Server` header names a pelican process;
- the body format: text, JSON or malformed JSON;
- the message class: "page not found", the director's two object-not-found messages, or other.

A response may also be a transport error or a body-read error.

**Actions.**
- `Attempt` is one request and the retry decision. A cancelled ctx makes `client.Do` fail.
- `Sleep` is the backoff, `3*idx+3` seconds.
- `AfterLoop` covers everything after the loop:
  - the JSON handling and the 207/307/404 classification;
  - the DELETE→PUT re-query, which starts a new loop;
  - the 405 mapping of `GetDirectorInfoForPath`.
- `Start` and `StartNoDirector` begin a call. `StartNoDirector` is the case where the URL names no director.
- `CancelCtx` cancels the caller's ctx.

### ObjectServers (`client/director.go`, `client/main.go`)

This module defines two pure functions as recursive operators:
- `ParseServers` parses the Link header:
  - it skips unparsable URLs;
  - an unparsable `pri` becomes 0;
  - it sorts with `sort.Slice`, which on short slices is Go's insertion sort with the strict `<`.
- `GenerateSortedObjServers` combines the preferred servers with the director's list. It stops at the first empty or misplaced "+".

The state is the pair of inputs, a Link header and a preferred list. Both grow one element at a time up to the bounds. Two invariants compare the functions with reference definitions taken from spec §4.8 and §9.

### ClientOps (`client/main.go`, `client/director.go`)

`ClientOps` extends `DirectorQuery`. One client operation is a program counter `cpc` that walks the code of a `Do*` function. When the function queries the director, `QueryStart` starts the `DirectorQuery` actions with the verb the function uses.

**State.** The operation `op`, `cpc`, the error class the function returns (`cerr`: none, NotFound, a single TransferAttemptError, other), whether something failed (`failed`), the number of object servers tried (`fetches`), and `lastErr` of `DoStat`.

**Actions.**
- `Begin`: the operation. `DoCopy` picks put or get by the schemes of its two URLs, or fails.
- `URLParse`, `Schemeless`, `Parse`, `Engine`: URL parsing, `handleSchemelessIfNeeded` (needs federation discovery or a director), the pelican URL parse, and engine creation.
- `AfterDirector`: the result of `GetDirectorInfoForPath` as the `Do*` function sees it. NotFound is surfaced as NotFound.
- `Token`: token acquisition. A required token that fails is an error. An empty token with no error is the case of `client_emptytoken`.
- `Action`, `StatUrls`, `Checksum`: the request itself. For `DoStat`, between 1 and 3 object servers are tried, and their errors are accumulated.
- `CacheInfo`: `GetCacheInfo`.
- `TransferGet` and `TransferPut`, through `TransferJob`, with `GetOutcome` and `PutOutcome`. These model the job's result of `DoGet`/`DoPut`: a shutdown error, a lookup error, or per-transfer results. They also model the error unwrapping.

The token's outcomes are a constant. The `query` run gives only well-formed outcomes; `client_emptytoken` adds the empty token.

### FederationOnce (`config/config.go`)

**Start-up.**
- `InitClient` runs `SetClientDefaults` and then (re)sets the Once; the lookup waits for the first call. `SetClientDefaults` is modelled in two parts:
  - the legacy environment variables (`GetAllPrefixes`) are abstracted to the set of endpoint fields they configure (`LegacyEnv`);
  - `ClientDirectorRetries` gives the resulting `Client.DirectorRetries`. It takes the default of 5 or a configured value, doubles it for the plugin, and falls back to 5 below 1. The variable `retries` holds the result.
- `InitServerEnable` is `setEnabledServer`.
- `InitServerFederation` first applies `InitServer`'s viper defaults (`ServerUrlDefaults`): `Federation.DirectorUrl`, `RegistryUrl` and `BrokerURL` become the server's external URL for the services the process runs. The variable `conf` is what viper then returns. It then resets the Once and runs the eager `GetFederation` with the server's ctx. An error, or any earlier check of `InitServer`, fails start-up.
- Callers call only after a successful init, as the doc comment requires.

**Discovery.** `DiscoverFederationImpl` is an operator over the configuration, the enabled servers and the fetch's answer:
- the early return when all four endpoints are configured;
- the wrapping and the parse and host/path checks of the discovery URL;
- the fetch, skipped for an unset URL or the server's own URL;
- the field-by-field fill (`SetGlobals`);
- the deferred defaults (`Defaults`), which run on every return, errors included.

URLs are a few strings: `c` configured without a scheme, `https://d` discovered, `https://e` the server's own URL.

**Actions.**
- `Call` models `fedDiscoveryOnce.Do`. The first caller runs the discovery. A caller that arrives while it runs blocks. Later callers read the stored globals.
- `Discover` models `discoverFederationImpl` with the runner's ctx. It stores and returns an outcome: ok, transport error, or cancellation. A cancelled ctx fails the discovery.
- `Wake` releases a blocked caller.
- `Finish` and `Cancel` are the callers' environment.

### FederationCache (abstract)

This is what `GetFederation` promises its callers: one value, computed once, returned to every caller. The state is `value`, the stored outcome or `None`, and `got`, the callers that hold it. The actions are:
- `Compute`: the value is fixed.
- `ComputeAndReturn`: the first caller fixes the value and gets it.
- `Return`: a later caller gets the stored value.

`FederationOnce` instantiates it, mapping `value` to the stored `fedErr`. `CacheRefined` checks that every behaviour of the detailed module is one of the abstract module's.

### DirectorRetryPolicy (abstract)

This is what the client's director lookup promises, taken from spec §4.10 step 3, §5, §8 property 5 and scenario 5. The state is:
- the method `qVerb`;
- the phase (idle, query, done);
- the requests sent per method `qSent`;
- the last answer `qLast`;
- `qCancelled`.

The actions are:
- `Begin`, and `BeginNoRequest` for a lookup that fails before any request.
- `Send`: the first request with a method, or a retry after a transient answer, within `N` requests. After cancellation, only a failed request is possible. A request that fails without an answer ends the lookup. This is the code's behaviour; spec §7 says it is retried (a hazard at `director.go:110`).
- `Reissue`: a DELETE whose requests are over with a 404 "page not found" becomes a PUT, once.
- `Finish`: the requests are over, with a final answer or with none left.
- `Cancel`.

Backoff durations and the classification of the last answer are left open. `DirectorQuery` instantiates it as `Policy`:
- `idx`, `sleeps`, `origVerb` and `result` are hidden;
- `attempts` maps to `qSent`, `resp` to `qLast`, `verb` to `qVerb` and `ctxDone` to `qCancelled`;
- the phase is read off `pc`.

`PolicyRefined` checks the refinement. Over the existing invariants, it adds that no request follows a final answer. The director's own 404 in particular is never retried.

### WebUI (`web_ui/ui.go`)

A request path is a sequence of segments. `path.Clean` is a fold over the segments.

**State**
- `db`: `authDB` is set.
- `user`: anonymous, logged in, or admin.
- `path`, `hops` (redirects followed), `stage` (the handler that runs next) and `resp`.
- `keys`: the API keys in the database.
- `login`, `codes` and `health`: the login waiter, its one-time codes, and the web UI's health status.

**Actions**
- The page route runs `GlobusPages`, `WebUIRedirect`, `WebUIAuth` and `WebUIResource` in gin's order. Each either answers or passes to the next. `Follow` is a browser following a redirect.
- `APIRequest` calls an endpoint. `AuthHandler`/`AdminAuthHandler` are outside `src/`, and turn away non-admins. One action models each handler: `GetConfigValues`, `UpdateConfigValues`, `HotRestartServer`, `GetEnabledServers`, `CreateApiToken`, `DeleteApiToken` and `ListApiTokens`. Their error paths, and the statuses they answer with, come from the code. `RestartReceived` is the launcher receiving on the unbuffered `RestartFlag`, on which both restart paths block.
- `InitServerWebLogin` and `WaitUntilLogin` model the login waiter. It returns at once if `authDB` is set, and otherwise rotates codes. It ends on a signal (an error), a cancelled ctx, or `authDB`, and the last two mark health OK.
- `InitializeDB` is the initialization page, which is not in `src/`.

## Runs

"States" is the number of distinct states for passing runs.

| Run | cfg | Expect | States | What it shows |
|---|---|---|---|---|
| ads_probes | ServerAds.cfg | pass | 2.92M | With 2 handlers, TTL 1, clock 2 and 3 calls, concurrent refreshes, expiry, eviction with its late callback, clearing and shutdown never leave two active probes on a server (`AtMostOneActiveProbe`). |
| ads_probeless | ServerAdsProbeless.cfg | violation | – | A Pelican registration `Delete`s the topology ad at its https URL, stores its own ad and starts its probe; the deleted ad's `OnEviction` callback then runs and cancels that probe, leaving an enabled Pelican server unprobed (`ProbeForEnabledAd`). |
| ads_serial | ServerAdsSerial.cfg | pass | 523k | With serial registrations (one handler), http (topology) and https (Pelican) ads of one host never coexist (`IdentityUnique`), and no step turns a live Pelican ad into a topology ad (`PelicanNotReplacedByTopology`, an action property). |
| ads_race | ServerAdsRace.cfg | violation | – | Two concurrent registrations break `IdentityUnique`: both handlers miss each other's ad and both call `Set`. The same window lets a topology ad overwrite a Pelican ad, so `PelicanNotReplacedByTopology` holds only for serial calls. |
| ads_disable | ServerAdsDisable.cfg | violation | – | A refresh with `DisableDirectorTest` leaves the running probe (`DisabledServerNotProbed`). |
| ads_statleak | ServerAdsStatLeak.cfg | violation | – | An eviction between `Set` and the stat block leaves an orphaned stat utility (`StatUtilTornDown`). |
| query | ClientOps.cfg | pass | 20.8k | Every `Do*` operation over the director query, with 3 retries, every verb and 8 statuses. Every backoff is within 3..3(n-1)+3 s (`TypeOK`). An operation that returns no error did not fail on the way (`NoFalseSuccess`). The query implements the abstract `DirectorRetryPolicy` (`PolicyRefined`): at most `DirectorRetries` requests per verb even across the fallback, a transient answer retried until they are spent, no request after a final answer such as the director's own 404, no answer accepted after cancellation, and the fallback at most once. The sleep already running at cancellation is not interrupted, and no property bounds it. |
| objservers | ObjectServers.cfg | pass | 69.7k | Parsing and merging agree with the references for up to 3 Link entries and 3 preferred items. |
| fedonce | FederationOnce.cfg | pass | 469k | This run covers client and server processes, with 2 callers, under every configuration. `GetFederation` implements the abstract once-cache (`CacheRefined`). Endpoints set in viper win over discovered ones, field by field (`ConfiguredOverridesDiscovered`). A server's own services are reached at its own URL when nothing else is configured (`OwnServicesSelfHosted`). This covers `InitServer`'s defaults for the director, registry and broker URLs, and the director's JWKS default, which needs `setEnabledServer` before the eager lookup. Every call returns (`CallReturns`). |
| fedonce_foreigncancel | FederationOnceNoForeignCancellation.cfg | violation | – | One caller's cancellation fails the others, and the `sync.Once` keeps that error for the life of the process. Spec §4.2 caches only successful results. |
| webui_adminpages | WebUIAdminPages.cfg | violation | – | Admin pages reach non-admins (`AdminPagesServedToAdmins`). A logged-in non-admin requests `/view/./origin/index.html`; there is no redirect, `handleWebUIAuth` takes the raw first segment `.` as the root page (`ui.go:319`), which is not an admin page, and `handleWebUIResource` cleans the path (`ui.go:379`) and serves the origin page. |
| client_emptytoken | ClientOpsEmptyToken.cfg | violation | – | A token lookup that returns an empty token and no error makes `DoDelete` return nil without deleting: `errors.Wrap(nil, ...)` is nil (`NoFalseSuccess`). |

Every property of a passing run has a mutant in `PROJECT.json`. A mutant is a plausible bug in the mapped code, and TLC finds the property violated when the bug is substituted. The findings each violation run stands for are listed in `PROJECT.json`.

### Bounds

**ServerAds.** The bounds are two handlers, one host, two clock ticks with a TTL of one tick, and at most three `recordAd` calls. These are enough for every case the properties are about:
- a refresh racing an eviction, and an eviction callback that runs after the next registration;
- a `TryGo` that is refused while the old probe is still running;
- a topology ad replaced by a Pelican ad;
- an ad that expires before its handler finishes.

A larger clock took over five minutes. The `ads_serial` run uses one handler and three calls, so that it checks the serial protocol.

**DirectorQuery / ClientOps.** Four object servers cover the cap of 3 in `DoStat`. Three retries are enough for a sleep in the middle of the loop and one after the last attempt. The fallback doubles the number of loops.

**ObjectServers.** Three entries are enough for a tie between priorities and a bad URL or bad `pri` in one list.

**FederationOnce.** Two callers with one call each cover the three roles: the runner, a caller blocked on the Once, and, in a server process or after the runner, a caller that finds the Once done. Every configuration is an initial state: 6 discovery URLs, each endpoint configured or not, and every set of enabled servers for a server. A second call per caller adds no new case, and it made the liveness check too slow. `InitClient` chooses a configured `DirectorRetries` from {-1, 0, 1, 2}, set or not, for the plugin or not.

**WebUI.** Paths of up to 3 segments, over segments that include `""`, `.`, `..` and the page names, are enough for every bypass and every redirect branch. Two followed redirects cover a 301 followed by the login redirect. Two API key ids allow a second key while the first exists. Three one-time codes cover a rotation that pushes a code out.

### Fairness

Only `FederationOnce` states a liveness property. It assumes weak fairness of `Discover` and of `Wake`:
- `Discover`: the discovery's HTTP client has a 5-second timeout, so the running discovery returns.
- `Wake`: `sync.Once.Do` releases its waiters when the function returns.

The other models state safety properties only. They set `CHECK_DEADLOCK FALSE` because the director legitimately idles when no registration arrives, and a client query ends in `done`.

Three divergences are recorded as hazards without a run of their own, because a unit test reaches each in one call:
- A transport error from `client.Do` ends the director query at once, while spec §7 retries `DirectorUnreachable` (`director.go:110`).
- An explicit expiration is not capped by `AdvertisementTTL` (`cache_ads.go:142`).
- `queryDirector` sleeps after its final attempt (`director.go:133`).

Three more disagreements are recorded as hazards without a run:
- Spec §4.2 defaults missing federation fields to the process's own URL when it is the director. `InitServer` does so only for the services it runs, so a director-only process keeps an empty `RegistryUrl` (`config.go:1577`).
- `cleanupOnce` is spent by the first server generation, so a hot restart's new runtime dir is either never removed or removed while in use (`config.go:495`).
- `updateConfigValues` reads, merges and writes the web config file without a lock, so one of two concurrent PATCH requests can be lost (`ui.go:145`).

## Not modelled, and why

- The transfer engine is not in `src/`. `ClientOps` abstracts a transfer to its results, and `DoGet`/`DoPut` to their error unwrapping.
- `config/config.go` beyond `GetFederation`, the federation steps of `InitClient`/`InitServer` and `SetClientDefaults`' retry bound is viper defaults and file I/O. `DirectorQuery` takes `DirectorRetries` as a constant of at least 1; `SetClientDefaults` falls back to 5 below 1 (`ClientDirectorRetries`), which no property checks.
- The runtime dir's cleanup (`cleanupDirOnShutdown`, `CleanupTempResources`) matters only across a hot restart. The code that reacts to `RestartFlag` and re-runs `InitServer` is not in `src/`, so the order of the two generations' cleanups cannot be translated.
- The remaining parts of `web_ui/ui.go` are not modelled: the Prometheus path mapping, the engine and TLS start-up, and the version handler. They keep no state that the handlers share. The authentication, initialization and downtime handlers are not in `src/`. The web UI run checks the page gate only. The API statuses and the login waiter's health are modelled but not checked; see the hazards at `ui.go:473` and `ui.go:719`.
- `param/parameters.go` is generated declarations.
- `daemon/launch.go` is a type and its name method.
- `cache/broker_client_windows.go` is stubs.

## Open work

1. Check the API statuses and the login waiter's health in `WebUI`, if a run slot is freed.
2. Extend `ClientOps` with `DoPut`'s missing unwrap of a single attempt error, if a property can tell it apart.
3. Feed `ClientDirectorRetries`' range into `DirectorQuery`'s `NumRetries`, so that the doubled plugin value is checked with the fallback.
