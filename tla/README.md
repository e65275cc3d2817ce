# TLA+ models of the adapter's request path and schema cache

This directory holds TLA+ models of the Go code under `src/`, the TLC
configurations that model-check them, and TLAPS proofs about them.

## The system

Each module of the adapter (`bapTxnCaller`, `bapTxnReceiver`, ...) is a
`stdHandler` (`src/core/module/handler/postResponse.go`). Its parts interact
as follows:

* **Build** (`NewStdHandler`, `initPlugins`, `initSteps`). Loads plugins
  (Cache, Registry, KeyManager, validators, Signer, Router, Publisher,
  workbench) and turns `cfg.Steps` into a list of steps. This happens once,
  before any request.
* **Request goroutine** (`ServeHTTP`). Each HTTP request runs on its own
  goroutine. `ServeHTTP` does the following in order:
  1. Stamps the internal `X-Module-Name`/`X-Role` headers.
  2. Drains the body into a `StepContext` and takes the subscriber id from
     the context or the config (`stepCtx`, `subID`).
  3. Runs the steps in order. A step error is answered by
     `response.SendNack` and ends the request.
  4. Restores the body. Without a route it ACKs.
  5. Otherwise it deletes the internal headers and calls `route`.
* **Steps** (`src/core/module/handler/step.go`). `sign`, `validateSign`,
  `validateSchema`, `addRoute`, `validateOndcPayload`, `validateOndcCallSave`,
  `ondcWorkbenchReceiver` and `ondcWorkbenchValidateContext`, plus plugin
  (custom) steps. Each one calls a plugin and may change the StepContext.
* **Dispatch** (`route`, `proxy`, `makeAsyncRequest`). What it does depends on
  the route:
  * `ActAsProxy` with a `url` target: reverse-proxy the request.
  * `ActAsProxy` with a `publisher` target: publish.
  * `ActAsProxy` with any other target: NACK 500.
  * Not `ActAsProxy`: answer at once (ACK, or the `custom-response-body`
    cookie). Then register a post-response hook that POSTs or publishes the
    body.
* **Post-response hooks** (`RegisterPostResponseHook`). The hook is appended
  to a slice that the PostResponseMiddleware puts in the context. The
  middleware itself is not in `src/`; per spec section 4.6 it runs the hooks
  after the handler has returned.
* **Response encoder** (`response.SendNack`, `nack`, `SendAck`, `SendBody`;
  `src/unnamed/part_000`). Maps each error kind to an HTTP status.
* **Signature header** (`generateAuthHeader`, `parseHeader`; `step.go`).
  The `sign` step of one adapter writes the `Authorization` header. The
  `validateSign` step of the adapter that receives the request parses its
  `keyId="subscriber|key|ed25519"` to pick the public key to check against.
* **Schema index** (`New`, `initialise`, `Validate`; `src/unnamed/part_000`).
  At start-up `initialise` walks the schema directory. It files every
  `.json` file under the key `domain_version_name`, built from the first
  three components of its relative path. `Validate` builds the key of a
  request from its context and URL and looks the key up.
* **Schema validator** (`schemaValidator`; `src/unnamed/part_000`). One
  instance is shared by every request goroutine of a module.
  `getCompiledSchema` fills a cache of compiled schemas lazily with
  double-checked locking: it looks up under `cacheMu.RLock`. On a miss it
  takes `compileMu`, re-checks, compiles, and stores under `cacheMu.Lock`.

The requests of a module share no mutable state in the core except the
plugin instances. The only such instance in `src/` is the schema validator.
That is why the request path is modelled one goroutine at a time, with
plugins as nondeterministic environment, and the cache is modelled as
concurrent goroutines.

## Modules

| Module | Models | State | Actions |
|---|---|---|---|
| `Handler` | `ServeHTTP`, `stepCtx`, `subID`, the step `Run` methods, `route`, `proxy`, `makeAsyncRequest`, `RegisterPostResponseHook`, `SendNack`/`SendAck`/`SendBody` | per request: pc, next step index, `ctx.SubID`, body version, `ctx.Route`, the body version the signature covers, challenge header, internal headers, responses written, pending hook, cancellation, delivery outcome; the set of requests that left the adapter | `Receive`, one action per built-in step, `CustomStep`, `FinishNoRoute`, `ProxyURL`, `ProxyPublish`, `ProxyUnknown`, `Async`, `RunHook`, `Disconnect` |
| `MC_Handler` | TLC instances: caller-side and receiver-side pipelines, route sets, error kinds | | |
| `SchemaCache` | `getCompiledSchema` (and the call from `Validate`) | `schemaCache`, holder of `compileMu`, each goroutine's place in the function, its key and compiled schema, results, compile counts | `Call`, `Lookup`, `LockCompile`, `Recheck`, `Compile`, `Store` |
| `MC_SchemaCache` | three goroutines, three keys, two schema files | | |
| `SchemaMemo` | what `getCompiledSchema` promises: one atomic step per call, a cache that only grows | cache, per-goroutine idle/busy, key, result, next schema identity | `Call`, `Get` |
| `Build` | `NewStdHandler`, `initPlugins`, `loadPlugin`, `loadKeyManager`, `loadOndcValidator`/`loadOndcWorkbench`, `initSteps`, the `newXStep` constructors | the configs (constants), pc, loop index, loaded capabilities, the plugin-step map (id -> which config built it), the steps built | `LoadPlugin`, `PluginsLoaded`, `LoadStepPlugin`, `StepPluginsLoaded`, `BuildStep`, `StepsBuilt` |
| `MC_Build` | every subset of the 11 capabilities; step-plugin configs with a duplicate id and an id equal to `sign`; four pipelines | | |
| `GoStrings` | `strings.TrimSpace`, `TrimSuffix`, `Index`, `Split` on strings as sequences of characters | | |
| `SchemaIndex` | `New`, `initialise` (with `processDir`), `Validate` up to the lookup | the schema directory, start-up status, files not yet walked, `schemaFiles`, each request's outcome and the file it was checked against | `StatSchemaDir`, `ReadDirFails`, `IndexFile`, `IndexBuilt`, `Validate` |
| `MC_SchemaIndex` | five schema directories, six requests | | |
| `AuthHeader` | `generateAuthHeader`, `parseHeader`, the header passing from `signStep.Run` to `validateSignStep.validate` | phase, header on the wire, the ids the sender signed with, the parse result | `Sign`, `ReceiveForeign`, `Validate` |
| `MC_AuthHeader` | ids of up to two characters over `a`, `b`, `|`, `"`, space | | |
| `SchemaCacheProofs`, `HandlerProofs`, `BuildProofs`, `GoStringsProofs`, `AuthHeaderProofs`, `SchemaIndexProofs` | TLAPS proofs | | |

How the Handler model corresponds to the code:

* A plugin call either succeeds or returns an error of a kind in
  `PluginErrs`. `Fail(r, e)` is `SendNack(e)` followed by the return in the
  step loop.
* A body is a version number that a custom step (a transformer) may bump. A
  signature is the body version `sign` computed it over.
* Cookies and the auth header are the request's `Inputs`, fixed when the
  request arrives.
* `SendNack(e)` is the sequence of responses the encoder writes:
  * one NACK with the status of section 7;
  * nothing, for a `WorkbenchErr` whose behavior is neither NACK nor HTTP
    (`WorkbenchOther`);
  * nothing, for a non-numeric HTTP code (`WorkbenchBadCode`), because
    `WriteHeader(0)` panics.
* The cacheMu sections of `getCompiledSchema` only touch the two maps, so
  each is one atomic step. `compileMu` is held across three steps and is a
  variable.
* In `Build`, a capability is configured or not (`PluginConfigs`). Loading a
  configured one may fail, and the build then stops, as `initPlugins` returns
  its first error. Each `newXStep` constructor is reduced to the set of
  capabilities it refuses to be built without (`Needs`). A step plugin is
  recorded by the index of its config, so a later config with the same id
  visibly replaces an earlier one. The instrumentation wrapper may fail; the
  raw step is appended either way.
* `SchemaCache` implements `SchemaMemo` under a refinement mapping. A
  goroutine is busy in the abstract spec from `Call` until it returns. The
  abstract call takes effect at the step that returns. `Lookup` and
  `Recheck` take effect with a hit or not-found. `Compile` takes effect on
  a compile error, and `Store` on success. The abstract next identity is
  `nextId`, except while a goroutine is at store: then it is the identity
  that goroutine compiled.
* In `SchemaIndex` and `AuthHeader`, names, URLs and headers are sequences
  of one-character strings. A token stands for a fixed run of bytes:
  `.json`, each literal of the header format, `N` for a decimal timestamp
  and `S` for the base64 signature. The conversions are modelled by what
  they do, on these sequences: lower-casing, `ReplaceAll`, `path.Base`,
  `TrimSpace`, `Index` and `Split`. The directory walk takes files in the
  order `processDir` reaches them. `os.ReadDir` sorts by name in byte
  order (`ByteOrder`), and a directory is entered before the next entry is
  read. So a later file with the same key replaces an earlier one, exactly
  as in the code. `IndexFile` takes the file `f` of the remaining ones with
  `IsNextFile(f, remaining)`: every other remaining file comes after it in
  that order. The key is stored with `MapPut`, the Go map assignment. Compiling and checking the schema are reduced to their
  outcomes.
* The deferred deletion of the internal headers when `ServeHTTP` returns is
  not modelled. After the return nothing reads `r.Header`: the hook builds a
  new request.
* The deletion of the internal headers before `route()` and the restore of
  `r.Body` from `ctx.Body` are part of the dispatch actions (`internalHdr`,
  `Forward`), but no property is stated about them: each is one assignment
  in the action that forwards. Whether the forwarded body is the one `sign`
  signed depends only on the order of steps in the configuration (a
  body-rewriting step after `sign` breaks it), which the spec does not fix.

## Runs

| Run | Checks | Shows |
|---|---|---|
| `handler_caller` (pass) | TypeOK, EveryRequestAnswered | A caller-side module answers every request exactly once, on every return path. The transformer runs before `sign`. No publisher is configured, so a publisher route gets NACK 500, and a msgq route is ACKed with no delivery. |
| `handler_receiver` (pass) | EveryRequestAnswered, AsyncAckLeadsToDelivery | A receiver answers every request exactly once: 401 with the challenge, the async ACK or custom body, 502 from the proxy, NACK on a publish error. After an asynchronous ACK to a url or publisher target, the hook eventually attempts delivery. |
| `handler_workbench_other` (violation) | EveryRequestAnswered | A WorkbenchErr with an unknown behavior leaves the client with no response. |
| `handler_unsigned` (violation) | UnsignedRejected | A request with no Authorization header passes `validateSign`. |
| `handler_msgq_async` (violation) | AsyncAckLeadsToDelivery | An ACKed msgq request is never delivered: the hook has no msgq case. |
| `handler_async_hook` (violation) | AsyncDeliveryDetached | In a receiver-side module (section 8, example 2: ACK, then POST to a url from the hook), a client that disconnects after its ACK cancels the asynchronous POST. The hook passes the request's StepContext, whose context is the request's, to `makeAsyncRequest`; sections 4.6 and 5 say hooks run on a context that client disconnect does not cancel. |
| `schema_cache` (pass) | CompilerExclusive, CompileOnce, CallReturns, ImplementsMemo | The double-checked locking serialises compiles, compiles each key at most once, and never blocks a caller forever. Every behaviour is, under the refinement mapping, a behaviour of `SchemaMemo`, fairness included. |
| `schema_index` (pass) | TypeOK, NoFalseNotFound | A request is never answered "schema not found" while the directory holds `<domain>/v<version>/<endpoint>.json` for its context and URL. The domain is lower-cased with `:` written `_`, and the endpoint is the last path element. This holds with upper-case and colon domains, `core_version` only, trailing slashes, padded directory names and a walk that fails half-way. |
| `schema_index_key_collision` (violation) | SchemaMatchesRequest | A schema one level too deep (`a/v1/y/x.json`) is filed under `a_v1_y`. A request for endpoint `y` is then checked against `x.json`. |
| `auth_header` (pass) | TypeOK, KeyIdRoundTrip | For ids that the keyId format can carry, the receiver parses back exactly the sender's subscriber id, key id and `ed25519`. Ids with `|`, `"` or spaces also occur; they yield parse errors or other ids. |
| `build` (pass) | PipelineMatchesConfig, SigningStepsHaveKeys | A handler that builds runs exactly `cfg.Steps` in order: built-ins by name, and the last-loaded step plugin for a custom id, even when instrumentation fails. A `sign`/`validateSign` step exists only with its signer or validator, the KeyManager and the Cache loaded. |
| `build_step_ids` (violation) | StepIdsUnambiguous | A module builds with two step plugins of the same id, and the second replaces the first. A step plugin with id `sign` also builds, and is never used. |

The violations are listed as findings in `PROJECT.json`, each with the line
of code and the sentence of the spec it departs from.

Bounds:

* **Handler: one request.** Requests share no state in the model, so one
  request shows every path. The pipelines are chosen so that every step
  kind, both cookie gates, the subscriber cookie and a transformer all
  occur. Between them, the route sets of the two passing runs cover every target type in both modes.
* **SchemaCache: three goroutines and three keys, two of them with a
  schema file.** Three goroutines allow two waiters on `compileMu` behind a
  compiling holder, on the same key or on different keys. The key without a
  file exercises the not-found return.

* **Build: all 2048 subsets of the capabilities are configured, and every
  load may fail.** The step-plugin configs are none, a duplicate id, an id
  that shadows `sign`, and a plain custom step. The pipelines are the
  caller's and receiver's built-ins, the four ONDC/workbench steps, and two
  mixes of custom and built-in steps. Together they reach every constructor,
  both unknown-step and missing-capability failures, and the KeyManager
  configured without a Cache.

* **SchemaIndex: five directories and six requests.** The directories are
  chosen to reach every branch of `processDir`: a non-schema file, a
  too-short path, a component that trims to nothing, a padded name that
  collides with a plain one, an upper-case directory, schemas one
  level too deep next to, and instead of, the right one, and a schema
  named `x.json ` with a space after `.json`. `processDir` checks
  `filepath.Ext` before it trims, so that file is skipped although
  `x.json` trimmed would be its key; the layout `NoFalseNotFound` speaks
  of therefore requires the name to end in `.json`. Each request
  reaches one branch of `Validate`.
* **AuthHeader: all ids of up to two characters.** Two characters are
  enough for an id that starts or ends with a space, holds a separator or
  a quote, or is legal. Two foreign headers cover the two ways `keyId` is
  not found.

Fairness:

* **Handler:** weak fairness on each request's goroutine (`Receive`, step,
  dispatch) and on running its hook. A goroutine that can run keeps running,
  and the middleware runs the hooks after the handler returns. A client
  disconnect is never forced.
* **SchemaCache:** weak fairness on every step except `compileMu.Lock`,
  which gets strong fairness. Go's `sync.Mutex` enters starvation mode and
  hands the lock to a waiter that has waited over 1ms, so a waiter that
  finds the mutex free infinitely often gets it. New calls are not forced.

Deadlock checking is off in the Handler runs: each modelled request is
served once, and then the system stops. It is off in the Build runs too: a
build runs once and ends built or failed. It is on in `schema_cache`.

## Proofs

`SchemaCacheProofs`, for any sets of goroutines, keys and schema files
(assumptions `Files \subseteq Keys` and `NoThread \notin Threads`):

* `TypeCorrect`: `Spec => []TypeOK`.
* `CompilerExclusiveHolds` and `CompileOnceHolds`: `Spec => []CompilerExclusive`
  and `Spec => []CompileOnce`.

These two rest on the inductive invariant `IInv` (`IInvInit`, `IInvNext`,
`IInvHolds`). `IInv` is TypeOK plus three facts:

* `MutexInv`: `compileMu` is held by `t` exactly when `t` is at recheck,
  compile or store.
* `AbsentInv`: a goroutine at compile or store has seen its key absent, and
  one at store has a compiled schema.
* `CountInv`: the compile count of a key is 1 exactly when the key is cached
  or a goroutine is about to store it, and 0 otherwise.

`CompileOnce` alone is not inductive. A step that compiles must know that
nobody cached the key since the re-check, and that no other goroutine is
about to store it. Both facts come from the mutex. TLC checked `IInv` as an
invariant of the `schema_cache` instance before it was proved.

`SchemaCacheProofs` also proves `Refinement`: `Spec => Memo!SafetySpec`,
the safety part of `ImplementsMemo`. It needs `RInv`, which is `IInv` plus
two facts:

* `FilesInv`: a goroutine at compile or store has a key with a schema file.
* `StoreIdInv`: a goroutine at store holds the identity `nextId - 1`.

From `RInv` the proof shows two things. The initial states map to initial
states (`MemoInit`). Each step maps to a `Memo` step or a stutter
(`MemoStep`, one case per action). The hard case is `Store`: the abstract
next identity moves from the stored schema to `nextId`. `ChooseStore` shows
that the `CHOOSE` in the mapping picks the storing goroutine, because
`MutexInv` makes it the only one.

`BuildProofs`, for any plugin, step-plugin and step configuration:

* `TypeCorrect`: `Spec => []TypeOK`.
* `PipelineHolds`: `Spec => []PipelineMatchesConfig`.
* `SigningHolds`: `Spec => []SigningStepsHaveKeys`.

Both rest on `IInv`. It says the plugin-step map holds, for each id, the
last config with that id among those read so far (`PipelineInv`). It says
the steps built so far match the first configs of `cfg.Steps`. And
`KeyInv` says a loaded KeyManager implies a loaded Cache. The last step of
`initSteps` turns the prefix fact into the whole-pipeline fact, because all
step plugins are read before the first step is built.

`HandlerProofs`, for any requests, pipelines, routes and plugin error kinds
the assumptions of `Handler` allow:

* `TypeCorrect`: `Spec => []TypeOK`. It uses lemmas on `SendNack`,
  `Fail`, `Write` and `Forward`.
* `AnsweredHolds`: under the hypothesis that no plugin returns an
  unclassified workbench error, `Spec => []EveryRequestAnswered`. The
  inductive invariant `AnsInv` says that a request still being served has
  written nothing, and a finished one exactly one response. The hypothesis
  is needed: `handler_workbench_other` shows the property fails without it.

`AuthHeaderProofs`, for every bound `MaxIdLen` and every id alphabet:

* `KeyIdRoundTripHolds`: `Spec => []KeyIdRoundTrip`. A legal id is
  `LegalId`: non-empty, not starting or ending with a space, with no `|`
  and no `"`. Whenever a header that `generateAuthHeader` built from two
  legal ids has been parsed, `parseHeader` returned exactly those ids and
  `ed25519`.

The inductive invariant `IInv` says three things. A signer is recorded
only once the sender built the header. The header on the wire is the one
built from the recorded ids. A checked exchange holds `parseHeader`'s
answer for that header. The rest is a lemma about the strings, `RoundTrip`,
which follows the header token by token:

* `keyId="` first occurs at position 3 (`KeyIdStart`).
* The first quote after it closes the value, because legal ids hold no
  quote (`QuoteEnd`).
* So the keyId value is `sub|kid|ed25519` (`KeyIdValue`).
* It has `|` at exactly two places (`PartSeps`), so `strings.Split` gives
  the three pieces (`PartSplit`).
* `strings.TrimSpace` leaves each piece whole (`TrimSpaceNoEdges`).

`SchemaIndexProofs`, for every schema directory tree over the model's
characters and every set of requests, under `UpperToLowerAssumption`
(`unicode.ToLower` neither maps `:` nor yields it, since `:` is no
letter):

* `TypeCorrect`: `Spec => []TypeOK`.
* `NoFalseNotFoundHolds`: `Spec => []NoFalseNotFound`. No request is
  answered "schema not found" while the tree holds a schema laid out for
  it.

The inductive invariant `IInv` adds what the walk has done so far: before
the directory is read nothing is walked, once the index is built every
file is, and while walking or built, every walked file `f` that is a
well-formed schema (`Good(f)`: ends in `.json`, at least three
components, none trimming to nothing) has its key `IndexKey(f)` in
`schemaFiles`. Keys are never removed, since `MapPut` only adds or
overwrites. A "not found" answer is only given when the index is built,
the request has a domain and a version, and its key is absent. The
strengthening is needed because `NoFalseNotFound` speaks of the final
index only, while the walk adds one key per step.

The bridge between a request and a file is the lemma `SchemaKey`: a file
laid out for request `r` (`SchemaFor(f, r)`) is `Good` and has
`IndexKey(f) = RequestKey(r)`. It rests on three lemmas about the
conversions: `DomainIsLayout` (lower-casing and then replacing `:` by `_`
gives the same domain whichever is done first, by
`UpperToLowerAssumption`), `PathBaseIsEndpoint` (`path.Base` of a URL path
is its last non-empty element, trailing slashes dropped) and
`TrimSuffixAppended` (`strings.TrimSuffix` of `name + ".json"` is `name`).

`GoStringsProofs` holds the lemmas about the string operators. `IndexAt`
and `IndexOfChar` state where `strings.Index` finds its first match.
`SplitTwoSeps` states what `strings.Split` returns for a string with two
separators. `TrimSpaceNoEdges` states that `strings.TrimSpace` keeps a
string with no space at either end. These are stated for the inputs the
proofs need, not for all inputs: the general facts would need induction
over sequences with an operator parameter, which the provers cannot
instantiate.

Only TLC checks these:

* Liveness (`AsyncAckLeadsToDelivery`, `CallReturns`, and the fairness
  part of `ImplementsMemo`). TLAPS does not
  handle fairness and ENABLED.
* `AuthHeader`'s `TypeOK`. Whether `parseHeader` of a foreign header fits
  `ParseResults` depends on the headers `ForeignHeaders` holds, which only
  the instance fixes.
* `AsyncDeliveryDetached`, `UnsignedRejected`, and the violations that the
  `handler_workbench_other`, `schema_index_key_collision` and
  `build_step_ids` runs find. A violation is a counterexample, which TLC
  prints; there is nothing to prove.
* Every property on the small instances above.

## Not modelled

* **Tear-down of a partly built module.** The source has no dispose path.
  `initPlugins` simply returns its first error.
* **What `Validate` does after the lookup**: the second JSON decoding and
  the mapping of validation causes to `errors[]`. It is reduced to its
  outcomes.
* **A query string in the request URL.** It would end up in the endpoint
  that `path.Base` returns. URLs are modelled as paths.
* **Metrics, logging, the HTTP transport.** They hold no state the behaviour
  depends on.
* **Routing engine and plugin registry.** Not in `src/`. The Router is
  environment.
* **The second write of `http.Error` after a failed `w.Write`.**

## Plan for the next sittings

1. Compose `Build` with `Handler`: take the pipeline from a finished build
   instead of the `Pipelines` constant.
2. Add a liveness run for a module without the post-response middleware.
