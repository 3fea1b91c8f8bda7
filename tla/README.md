# TLA+ verification of boots

This directory holds TLA+ models of boots, the network-boot provisioning service. It also holds the TLC configurations that check the models, and TLAPS proofs about them. The source is under `../src/`. Only `src/cmd/boots/http.go` is implementation code. The other files under `src/` are tests, golden outputs and deployment configuration, and they state the contracts of the renderers.

## 1. Inventory

### Components

| Component | Source | State it keeps | Operations |
|---|---|---|---|
| HTTP front | `src/cmd/boots/http.go` | none of its own; each request builds a fresh job | `serveJobFile` (GET /), `serveHardware`, `serveProblem`, `servePhoneHome`, `serveEvents`, health, metrics, pprof |
| Event forwarder | `http.go` `serveEvents`, `es` | none | look up the instance by IP, read and decode the body, post the event |
| Job resolver | package `job` (not under src/) | per-request snapshot of a hardware record | `CreateFromRemoteAddr`, `AllowPXE`, `CanWorkflow`, `ServeFile`, `ServePhoneHomeEndpoint`, `ServeProblemEndpoint`, `AddHardware` |
| Inventory backend (external) | `client.HardwareFinder`, `WorkflowFinder`, `Reporter` | hardware records (address binding, allow_pxe, instance), active workflows, reachability | `ByIP`, `HasActiveWorkflow`, `PostInstanceEvent` |
| Installer registry | not under src/ | stateless | select an installer by slug or distro |
| Kickstart renderer (vmware) | `installers/vmware/kickstart_test.go`, `testdata/ks_vmw_ahci.txt` | none | `firstDisk`, `genKickstart`, where the rootpw override applies |
| Ignition renderer (flatcar) | `installers/flatcar/installer_test.go` | ordered systemd units | `configureInstaller`, per-family string substitution |
| iPXE renderer (custom ipxe) | `src/unnamed/part_000` | an append-only script | `Set`, `Or`, extra variables, params block, `chain` |
| Deployment / telemetry | `manifests/.../deployment.yaml`, `test/otel-collector.yaml` | configuration | none |

### Interactions

Each HTTP request runs in its own goroutine. Requests share nothing except the external inventory backend, which they call through blocking client calls: `CreateFromRemoteAddr` → `ByIP`, `HasActiveWorkflow` and `PostInstanceEvent`. Other actors change the inventory at any time:
- operators toggle allow_pxe;
- workflows start and finish;
- instances are provisioned and deprovisioned;
- address bindings move.

The backend can also become unreachable. A handler therefore reads the inventory in one call and acts on it in a later one.

### What is hard

- **Check then act across backend calls.** The job, and with it `CanWorkflow` and the hardware id, comes from one call. The workflow check is a second call, and `/events` posts to the device found by an earlier lookup. The inventory can change in between.
- **Error classification.** Unavailable, NotFound and Malformed should lead to different answers and logs (spec section 7). The code folds some of them together.
- **Configuration-dependent nil collaborators.** `serveProblem` guards against a nil `workflowFinder`, and `serveHardware` does not.
- **Liveness.** Every request must be answered. The handlers pass `req.Context()`, which has no deadline.
- **Renderers.** Precedence rules apply to boot-drive hints and the root password. Whole-script substitutions must not overlap. Line order is fixed.

### Properties that make each component correct

- **HTTP front:**
  - a job file is served only for an allow_pxe record;
  - the hardware dump and problem report of a workflow-capable machine are served only after an active workflow was seen;
  - every request is answered;
  - a single request never panics;
  - 400 is written only for malformed input;
  - an unreachable backend is logged.
- **Event forwarder:**
  - each request answered 200 with a device forwards exactly one event, to that device, and no other request forwards one.
- **Server:**
  - a request is answered only by a server running the routes and wrappers its configuration asks for;
  - the process exits only at startup (spec section 7; the code exits also when `ListenAndServe` returns later);
  - a health check whose encoding failed is answered 500 (spec section 7; the code answers 200).
- **Renderers** (Kickstart and flatcar are done, iPXE is not modelled):
  - a non-empty hint wins (and is truncated to 16 characters, per the test);
  - the custom-data rootpw of string type wins, with the instance password otherwise;
  - the flatcar substitutions change only the lines a family needs changed, and nothing in the configured URL;
  - the iPXE line order is fixed.

## 2. Plan and status

1. **`BootsHTTP`** (done): the handlers of `http.go` as per-request processes against an environment model of the inventory. `MCBootsHTTP` instantiates it for TLC.
2. **`Kickstart`** (done): `FirstDisk(slug, hint)` and `RootPw(customData, password)`, as the test rows state them, checked against the spec's rule for hints.
3. **`FlatcarInstaller`** (done): the flatcar test table, with `replacer` modelled at character level.
4. **`RequestContract`** (done): the abstract specification of the HTTP front. `BootsHTTP` refines it; TLC checks the refinement with liveness, and TLAPS proves its safety part.
5. **`BootsServer`** (done): `ServeHTTP`'s startup, its fatal exits, and the health-check handler.
6. **Proofs** (done): type correctness, exactly-once forwarding, `GatedServing` and the refinement for the HTTP front; the server's configuration invariant and the status its health checks really get.
7. **Open:** the iPXE script builder, because its golden text has no branches that a property could tell apart.

## 3. Modules

### `BootsHTTP.tla`

**Constants:**
- `IPs`, `HwIDs`, `Instances`;
- the sentinels `NoHw` and `NoInstance`;
- `Capable`: the hardware for which `CanWorkflow()` holds;
- `Reqs`: request slots, each carrying one request;
- `FinderConfigured`: whether `s.workflowFinder != nil`.

**Variables:**
- **Inventory:** `owner`, `allowPXE`, `instance`, `active`, `up`.
- **Handlers:** `req[r]` is a record per slot. It holds the endpoint, the address and body forms, the program counter, the response code, what was served, the job snapshot, the workflow answer, the device, and the ghost fields `unavail` and `logged`.
- **Observation:** `posted` is the set of events that `/events` delivered.

**Actions.** A handler is cut at every blocking backend call:

| Action | Code |
|---|---|
| `Arrive` | the mux dispatching a request (`ServeHTTP`) |
| `ServeJobFile` | `serveJobFile`: resolve, then the AllowPXE gate |
| `GatedResolve` + `WorkflowCheck` | `serveProblem` / `serveHardware`: resolve, then `HasActiveWorkflow` (the nil-finder panic included) |
| `PhoneHomeResolve` + `PhoneHomeServe` | `servePhoneHome` and `ServePhoneHomeEndpoint` (the latter from the spec) |
| `EventsLookup` + `EventsPost` | `serveEvents` lines 300-320 with the logging wrapper (lines 90-98); lines 322-372 |
| `TogglePXE`, `StartWorkflow`, `FinishWorkflow`, `Provision`, `Deprovision`, `Rebind`, `BackendFlip` | the external inventory |

**Data abstraction.** Addresses are reduced to the three forms the handlers tell apart: `hostport`, `nohostport` and `badip`. Bodies are reduced to the four outcomes of `readClose` and `json.Unmarshal`. Payload text, metrics and tracing are left out. `json.Marshal` of the event struct cannot fail, so its branch (line 355) is not modelled.

**Fairness.** `WF_vars(Handle(r))` holds for each slot. A goroutine that can take its next step eventually does, because each backend call returns, with an answer or an error. Clients and the inventory get no fairness.

### `Kickstart.tla`

The vmware installer code is not under `src/`. Its contract is the tables of `kickstart_test.go` and the golden file `testdata/ks_vmw_ahci.txt`. The module models that contract:
- **Strings.** A string is a record `Str(text, len)`, meaning the first `len` characters of `text`. Truncation therefore changes the value.
- **`FirstDisk(slug, hint)`.** A non-empty hint wins and is cut to `HintMaxLen` = 16 characters. Without a hint, the family's driver list from `DiskDefaults` is used, and otherwise the empty string.
- **`RootPw(cd, password)`.** A custom-data map whose `rootpwcrypt` entry is a string overrides the instance password. Any other custom data (nil, a list, or a non-string entry) leaves the password alone.
- **`GenKickstart`.** It renders both parameters into `ks`.

`Init` picks any job from `Jobs`. `Jobs` is every disk row (TestFirstDisk and diskConfigs) combined with every custom-data row of TestRootpw, 104 jobs in all. Since `DiskDefaults`, `HintMaxLen` and the rows are all taken from the tests, a check that the model reproduces the tables would hold by construction, and there is none. The module serves one question: whether the tests' rule for a hint is the spec's (run `kickstart_hint_verbatim`).

### `RequestContract.tla` and the refinement mapping

`RequestContract` is what the HTTP front promises a client, with the backend and the inventory left out:
- a request is `idle`, then `pending` on one endpoint, then `done` with one status;
- the status is one its endpoint may answer (`Answers`): 200 or 404 for file, hardware and problem, 200 or 400 for phone-home, and 200, 400 or 500 for events. Spec section 7 reserves 400 for a malformed request, and the TODOs in `serveEvents` (lines 356 and 363) say that a failed encoding or post should be 500. The contract allows both, so that passing it does not approve the 400 the code sends for a failed post; that 400 is the violation run `events_post_failure_400`;
- only an `/events` request forwards an event, exactly when it is answered 200 (`Forward`);
- under `WF(Respond(r))`, every pending request is eventually answered.

`BootsHTTP` defines `Contract == INSTANCE RequestContract WITH areq <- ...`. The mapping sends each `req[r]` to its lifecycle (`Lifecycle(pc)`: every program counter between `new` and `done` is `pending`), its endpoint and its code. `posted` maps to itself. The intermediate steps of a handler (resolution, the workflow check, the lookup) are stutters of the contract. The step that writes the response is `Answer` or, for a delivered event, `Forward`.

### `FlatcarInstaller.tla`

The flatcar installer code is not under `src/`. Its contract is the table of `installer_test.go`:
- **Inputs.** `Exec(vendorURL)` holds the seven base lines, with `conf.OsieVendorServicesURL` as a parameter.
- **The substitution.** `Replacer` is `replacer`:
  - it panics on an odd number of strings;
  - it joins the lines with `"\n"`;
  - it folds `ReplaceAll` over the pairs in argument order;
  - it splits the result again.
- **Strings.** They are TLA+ strings, which TLC treats as character sequences. `ReplaceAll`, `Join` and `Split` follow Go's definitions: leftmost non-overlapping matches, and an empty pattern that matches between characters. A pattern therefore matches wherever its characters occur.
- **The table.** `Script(t, url)` is the `script` map.
- **State.** A behaviour picks a family and a URL, then renders once.

`VendorURLs` is built from two schemes, the hosts of the cfg and three suffixes, 36 URLs in all. Some hosts hold a pattern (`install-server`, `amd64.mirror`) and others do not.

The reference `Intended(t, url)` builds the two lines a family changes, field by field, from what spec section 4.5 says the families differ in: the architecture, the oem flag, the extra `-e` flag and the console device.

### `BootsServer.tla`

This module models `ServeHTTP`'s startup and the health-check handler.

**Variables:**
- `cfg`: the iPXE pattern, the trusted-proxies configuration and whether the address can be bound;
- `phase` and `mux`: how far startup has got, and the routes registered;
- `handler`: the wrapper chain;
- `hc[r]`: a health-check request and its `ResponseWriter`;
- `served`: whether any request has been answered.

**Actions:**
- `RegisterRoutes`: lines 70-109, where `mux.Handle` panics on an empty or duplicate pattern;
- `WrapHandler`: lines 111-131, the logging and xff wrappers, where an `xff.New` error is fatal;
- `ListenAndServe`: lines 133-136. It returns an error when the bind fails, or later, once bound, when `Serve`'s `Accept` fails with a non-temporary error; either error is fatal, and the requests in flight die with the process;
- `HealthArrive` and `ServeHealthchecker` (lines 36-53).

`WriteHeader` and `Write` model net/http. The first write commits the status, and a later `WriteHeader` is superfluous.

**Properties:**
- `AnsweredOnlyWhenConfigured`: every answered health check, before or after the process exits, was answered by a server whose route table (`Routes`) holds each built-in route and the custom iPXE route once, and whose handler chain (`Chain`) is the one `conf.TrustedProxies` asks for. Breaking it takes a bad configuration that survives registration or wrapping, then a request answered.
- `FatalOnlyAtStartup` (violation run): spec section 7 reserves process-level fatal errors for startup; the late `ListenAndServe` error breaks it.
- `HealthFailureAnswered500` (violation run): spec section 7 says an encoding failure is answered 500.
- `HealthAnswered200`: what the code really answers, 200 in every case; it is proved, not run.
- `ServerInv` is the inductive invariant of the proofs.

**Fairness.** `WF` holds for each health handler, which runs to completion: it writes a body of a few dozen bytes. No property of the runs uses it.

## 4. Runs

| Run | Config | Bounds | Checks | Result |
|---|---|---|---|---|
| `http_gates` | `MCBootsHTTP.cfg` | 1 address, 2 hardware (1 capable), 2 instances, 1 request on any of the 5 endpoints and any address form | `TypeOK`, `GatedServing`, `EveryRequestAnswered`, `ImplementsContract` | pass (183,456 states) |
| `http_events` | `MCBootsHTTPEvents.cfg` | 1 address, 2 hardware, 2 instances, 2 concurrent `/events` requests, all address forms | `ForwardedExactlyOnce` | pass (420,000 states) |
| `problem_without_finder` | `MCBootsHTTPNoFinderProblem.cfg` | as `http_gates`, no finder | `GatedServing` | violation: `serveProblem` skips the gate |
| `hardware_nil_finder_panics` | `MCBootsHTTPNoFinderPanic.cfg` | as `http_gates`, no finder | `HandlerNeverPanics` | violation: nil dereference in `serveHardware` |
| `events_unavailable_unlogged` | `MCBootsHTTPEventsUnlogged.cfg` | as `http_events` | `UnavailableLogged` | violation: a backend outage becomes an unlogged 200 |
| `events_post_failure_400` | `MCBootsHTTPEventsBadRequest.cfg` | as `http_events` | `BadRequestOnlyWhenMalformed` | violation: a failed post becomes a 400 |
| `kickstart_hint_verbatim` | `KickstartHintVerbatim.cfg` | all 104 test jobs | `HintVerbatim` | violation: the 20-character hint of the n3.xlarge.x86 row is cut to 16 characters, although spec section 4.3 says the hint wins verbatim |
| `flatcar_script` | `FlatcarInstaller.cfg` | 3 families × 36 vendor URLs | `EditsConfined`, `MatchesIntent` | pass (216 states) |
| `flatcar_url_rewritten` | `FlatcarURLKept.cfg` | as `flatcar_script` | `URLKept` | violation: the `-s` pair turns `http://install-server` into `http://install-s -e 259erver` |
| `server_startup` | `BootsServer.cfg` | all 24 configurations, 2 concurrent health checks | `AnsweredOnlyWhenConfigured` | pass (188 states) |
| `server_fatal_after_serving` | `BootsServerFatalAfterServing.cfg` | all 24 configurations, 1 health check | `FatalOnlyAtStartup` | violation: after a health check is answered, `ListenAndServe` returns and `mainlog.Fatal` exits the process |
| `health_failure_status` | `BootsServerHealth500.cfg` | as `server_startup` | `HealthFailureAnswered500` | violation: a failed health encoding is answered 200, because the failed write committed the status |

**Why these bounds are enough.** Requests interact only through the inventory. A single request racing every inventory change covers the gates. Two requests cover the per-request keying of forwarded events. Two hardware records and two instances let an address move between records and let an instance be replaced between a lookup and a post. One request on every endpoint is enough for the contract, because requests do not interact in it. The flatcar URLs include hosts that contain a pattern and hosts that do not. Two health checks let one be answered while the other is in flight when the process exits. The 24 configurations cover every branch of the startup: a nil, fresh, colliding and empty iPXE pattern, no, valid and rejected trusted proxies, and a bind that fails or succeeds. The malformed address and body forms that the handlers treat alike are represented by one value each in the job-endpoint run.

Each passing property has a mutant in `PROJECT.json` that TLC must catch:
- a 500 for a workflow error, which breaks `TypeOK` and `ImplementsContract` (the hardware and problem endpoints answer 200 or 404);
- a dropped `!activeWorkflows` return, which breaks `GatedServing`;
- a handler that retries until the backend answers, which breaks `EveryRequestAnswered`;
- an ignored post error, which breaks `ForwardedExactlyOnce`;
- `replacer` joining with a space, which breaks `EditsConfined`;
- `replacer` with each pair swapped, which breaks `MatchesIntent`;
- an ignored `xff.New` error, which breaks `AnsweredOnlyWhenConfigured`.

## 5. Proofs (TLAPS)

### `BootsHTTPProofs.tla`

- **`TypeCorrect`: `Spec => []TypeOK`.**
  - `TypeOK` alone is not inductive. `EventsPost` records an event carrying `req[r].dev`, and the type only says that the device may be `NoInstance`.
  - The strengthening `DevInv` adds two facts. A request that has not yet looked up has no device. A request waiting to post is an `/events` request with a real instance.
  - The proof shows `Init => TypeOK /\ DevInv` and that every action preserves the conjunction, with one step per action.
- **`EventsForwardedExactlyOnce`: `Spec => []ForwardedExactlyOnce`.**
  - The inductive invariant is `TypeOK /\ DevInv /\ ForwardedExactlyOnce`.
  - Every step other than `Delivered` finishes one request, posts nothing, and leaves that request not forwarding (lemma `FinishWithoutPost`).
  - `Delivered` adds exactly the event of the request it finishes. That request had none before, because it was not done.
- **`GatedServingHolds`: `FinderConfigured => (Spec => []GatedServing)`.**
  - `GatedServing` alone is not inductive. A step that serves a request must know that the request has not yet served anything and what it was resolved for.
  - `PendInv` says three things about a request that is not done: it has no code; in `wfcheck` it is a hardware or problem request; in `phonehome` it is a phone-home request.
  - `GatedInv` (`ServedOK(r)` for every request) says that an unfinished request has served nothing, and that what a finished one served respects its snapshot's gates.
  - Lemma `OnlyRGated` reduces each step to the one request it changes.
  - Lemma `NextGated` has one case per action. `EventsPost` is split into delivered and not delivered.

### `BootsHTTPRefinement.tla`

- **`ContractRefinement`: `FinderConfigured => (Spec => Contract!SafeSpec)`.**
  - `InitRefines`: initial states map to initial states of the contract.
  - `NextRefines`: under `TypeOK /\ DevInv /\ PendInv`, every `[Next]_vars` step maps to `[Contract!Next]_cvars`.
  - Inventory steps and a handler's intermediate steps are stutters (`PendingStutter`).
  - `Arrive` is `Receive`.
  - A step that writes a code is `Answer` with that code (`AnswerStep`, `AnswerCodes`). `AnswerCodes` needs `PendInv` to know the endpoint. `FinderConfigured` excludes the nil-finder panic, which ends a request with no status and so is no contract step.
  - `Delivered` is `Forward` to the posted instance (`ForwardNext`).

### `BootsServerProofs.tla`

- **`AnsweredOnlyWhenConfiguredHolds`: `Spec => []AnsweredOnlyWhenConfigured`**, for every set of request slots, and **`HealthAnswered200Holds`: `Spec => []HealthAnswered200`**, which shows for every set of requests what the violation run `health_failure_status` shows on two.
- Both derive from the lemma `ServerInvHolds: Spec => []ServerInv`. `AnsweredOnlyWhenConfigured` alone is not inductive: `RegisterRoutes` changes `mux` and `WrapHandler` changes `handler`, and only knowing that no request has been taken before the server listens rules out a step that breaks the configuration of a request already answered.
- `ServerInv` therefore says: no request is taken in `setup` or `wrapping`; from `wrapping` on the route table is `Routes` (`RoutesConfigured`), and from `listening` on the chain is `Chain` as well; a request taken is taken by such a server; an unanswered request has an untouched (`Fresh`) `ResponseWriter`, and an answered one carries 200.
- Lemmas `RegisterStep` and `WrapStep` say that registration and wrapping either establish their part of the configuration or exit; `ConfiguredFrame` that a step leaving `cfg`, `mux` and `handler` alone keeps it. `ListenAndServe`, before or after serving, leaves all three alone, so the late exit keeps the invariant.
- `HealthAnswered200` needs the fresh writer. The handler's `Write` meets it and commits 200 (lemma `WriteFresh`), and the `WriteHeader(500)` after it changes nothing (lemma `WriteHeaderCommitted`).
- `NextServerInv` has one step per action.

All the `BootsHTTP` theorems rest on `HTTPAssumption`: the sentinels lie outside their sets, `Capable` is a set of hardware, and `IPs` is non-empty.

**Only model-checked:**
- `EveryRequestAnswered` and the liveness part of `ImplementsContract`, because liveness is beyond TLAPS;
- `FlatcarInstaller`'s `EditsConfined` and `MatchesIntent`. For every set of vendor hosts they would need what `ReplaceAll` and `Split` compute on every string, which is induction over data. The module declares them RECURSIVE, which also takes the SMT backend away;
- the violations.

**Out of TLAPS' reach:** liveness and ENABLED, induction over recursive data, and modules that declare RECURSIVE operators. `FlatcarInstaller` is therefore a TLC-only module.

## 6. Not modelled

- **Metrics and pprof endpoints:** library handlers with no state of boots.
- **The X-Forwarded-For rewrite of the remote address:** `BootsServer` models the wrapper's construction and its fatal error. `BootsHTTP` abstracts the address to forms.
- **The flatcar `configureInstaller` and the ignition JSON encoding:** not in `src/`.
- **The iPXE script builder (`src/unnamed/part_000`):** fixed text in a fixed order.
- **The rest of the kickstart text:** it is fixed, apart from the network device MAC.
- **The installer registry and the job package:** not in `src/`. Job resolution is modelled from spec section 4.1.
- **The deployment manifests and the otel collector configuration.**
- **A backend call that never returns:** the model assumes every call returns, with an answer or an error.
