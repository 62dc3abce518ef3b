# Verification project for networkservicemesh

This directory holds TLA+ models of the concurrent parts of the Network
Service Mesh code under `src/`, the TLC configurations that check them, and
TLAPS proofs of their main invariants. `PROJECT.json` lists:

- every component, modelled or not;
- every TLC run, with the mutants that show each checked property can fail;
- the map from each TLA+ definition to the source lines it translates;
- the findings, the hazards and the theorems.

## 1. The system and its parts

Network Service Mesh (spec.md) connects workloads to network services. The
spec describes these parts:

- the Model (4.1);
- the registry client (4.2);
- the workspace manager (4.3);
- the connection manager (4.4);
- the dataplane coordinator (4.5);
- the healer (4.6);
- the restorer (4.7).

Of these, only some have code under `src/`:

| Part | Code under src/ | What it does | Concurrency |
|---|---|---|---|
| Workspace manager | `controlplane/pkg/nsmd/workspace.go` | NewWorkSpace builds a per-client directory, a unix-socket listener and a gRPC server. It starts a serve goroutine and checks the socket. Close and cleanup tear all of this down. | The constructor, its deferred cleanup, the serve goroutine and its deferred Close, and the owner's Close all act on one `Workspace`. Each workspace name is reused by later workspaces. |
| Registry NSM cache | `k8s/pkg/registryserver/resource_cache/{resource_cache,nsm_cache}.go` | A map of NetworkServiceManager records. Every operation is an event on a buffered channel (capacity 40) that one `run()` goroutine applies. | The informer goroutine's handlers, Get callers and `run()` all touch it. `stopFunc` closes the stop channels. |
| Cross-connect monitor | `k8s/cmd/crossconnect-monitor/crossconnect_monitor.go` | Lists the NSMs every second and starts one stream-monitor goroutine per new URL. | The lookup loop, the monitor goroutines and the signal goroutine share the `managers` map and the `closing` flag without locks. |
| SDK endpoint chain | `sdk/endpoint/monitor.go`, `sdk/common/configuration.go` | MonitorEndpoint updates the connection monitor after `next.Request` and deletes from it before `next.Close`. | Requests run on concurrent gRPC handlers. |
| Tools | `pkg/tools/tools.go` | Socket checks, `WaitForPortAvailable`, and parsers for `k=v` lists and NS URLs. | Only `WaitForPortAvailable` loops. |
| Dataplane egress | `dataplane/pkg/common/egress_interface.go` | Parses `/proc/net/route` and `/proc/net/arp`. | None. |
| Proxy probe goals | `controlplane/cmd/proxy-nsmd/proxy_nsmd_probe_goals.go` | A bit set of readiness goals. | None. |
| Test harness and tests | `controlplane/pkg/tests/*`, `k8s/pkg/tests/*`, `test/integration/*` | Fakes of the registry, the dataplane and a local NSE, and the scenarios of the connection manager, heal and restore. | The harness fakes run on the test goroutines and the daemon's. |
| Deployment tools | `k8s/cmd/nsmd-k8s/main.go`, `scripts/aws/*`, `test/kube_testing/*`, `dataplane/vppagent/cmd/*` | Process wiring and cloud setup. | None that the model could check. |

These parts interact as follows:

- The connection manager creates a workspace for each client.
- The registry server answers from the NSM cache.
- The cross-connect monitor reads the same CRDs through the API server.
- Most of the control plane is not under `src/`. This includes the connection manager, the healer, the restorer and the Model; only their tests and test fakes are. Where a later module models them, it does so from spec.md and marks the definitions `spec_modelled` in the map.

## 2. Modules

### Workspace (`Workspace.tla`, `MCWorkspace.tla`, `WorkspaceProofs.tla`)

**Constants.**

- `Incarnations` workspaces are built one after another under one name. Each one is requested only after the previous one failed or was closed by its owner.
- `MaxClose` bounds the owner's Close calls.

**State.**

- `dir`: whether the shared directory `NsmBaseDir()+name` exists.
- Per incarnation:
  - `state` (NEW/RUNNING/CLOSED) is `w.state`;
  - `listener` and `grpc` are the two resources;
  - `ctor` is the constructor's program counter, one value per step of NewWorkSpace;
  - `srv` is the serve goroutine's program counter;
  - `err` is the variable that the constructor and its goroutine share;
  - `result` is what NewWorkSpace returned;
  - `closes` counts the owner's Close calls.

**Actions.** One action per step of NewWorkSpace:

- `ClearContents`, `MkdirAll`, `NewCustomListener`: each has its error return, which runs the deferred `cleanup` through `Return`;
- `StartServing`: lines 84-108, including `state = RUNNING` and the `go` statement;
- `SocketOperationCheck`;
- `Decide`: the return at lines 117-124.

The serve goroutine has these actions:

- `ServeStart`: Serve on a stopped server or a closed or broken listener returns at once;
- `ServeReturns`: Serve returns after Stop or a fatal Accept error. Either way grpc closes the listener before Serve returns;
- `GoroutineClose`: the deferred `w.Close()`.

The owner's `Close` is an action, and so is `ListenerFails`, an Accept error of the environment that grpc does not retry (it retries temporary ones). `Cleanup(i, st)` models `cleanup` together with `clearContents`. It reads the value `st` of `w.state` that its caller saw. The deferred call reads the state unlocked, and Close reads it under the lock after setting CLOSED.

**Properties.**

- `WorkspaceConsistent` (run `workspace`): a CLOSED workspace holds no live server or listener, and a built RUNNING one holds both until its Serve returns. Between Serve's return (which closes the listener) and the deferred Close, a workspace is RUNNING with a closed listener, and the property leaves that window out.
- `ServeEndsAfterClose` (run `workspace`): after CLOSED, the serve goroutine finishes.
- `RunningWorkspaceKeepsDirectory` (run `workspace_directory`, expected violation): a running workspace's directory is not removed under it.

**Findings.** The violation is a real bug, in two parts. `SocketOperationCheck` can fail after `w.state = RUNNING`. The deferred cleanup then skips the teardown, and the server, listener and goroutine are leaked. When Accept later fails, that goroutine's deferred Close removes the directory by name. By then the directory belongs to the next workspace.

### Registry NSM cache (`NsmCacheCopy.tla`, `ResourceCache.tla`, `MCResourceCache.tla`, `ResourceCacheProofs.tla`)

**Abstraction.** A record is abstracted to a version number (0 = absent).

**State.**

- `store`: the API server.
- `seen`: what the informer last reported per key.
- `eventCh`: a bounded FIFO sequence.
- `cache`: the map.
- `run`, `stopped`, and the Get callers' `client`, `reply` and `gets`.

**Actions.**

- `WriteStore`: the API server, modelled from the spec.
- `Start`: `Start`/`StartWithResync`, including `replace` (`Replace`). `replace` passes `&r`, the address of the range loop's single variable, so every listed name ends up mapped to the record listed last. The list order is any order.
- `InformerDeliver`: one informer callback, whichever of Add, Update or Delete applies. The send blocks while the channel is full.
- `Get`.
- `RunReceive`: one iteration of `run()` with `accept`.
- `RunExit`: the stop branch of the select.
- `Stop`: `stopFunc`.

**Properties.**

- `CacheTracksInformer`: once no event of a key is pending, the map holds the informer's last report. It depends on the FIFO order and the single reader. It is proved for Start(f) in `ResourceCacheProofs.tla` (section 4).
- `CacheRefinesCopy`: the cache implements `NsmCacheCopy`. That is the abstract specification of what a Get caller may rely on, and it backs spec 4.2's eventual consistency on the safety side. A step of run() never puts back an older record of an NSM than the map holds, because a catch-up never goes back. Its state is the API server (`store`, `writes`), a copy of it (`cache`) and the Get replies (`reply`), and its steps are:
  - `Write(k)`: a write to the API server;
  - `CatchUp(k)`: one NSM's copy moves to a version no older than it holds and no newer than the API server's, or the NSM is dropped;
  - `Answer(c, k)`: a Get returns the copy's record.

  `ResourceCache` instantiates it with every variable under its own name (`Copy == INSTANCE NsmCacheCopy`), and `CacheRefinesCopy == Copy!Spec`. The channel, the informer's view and the goroutines' states are hidden. The mutant `RunReceiveAny` lets run() accept any queued event rather than the oldest, as two readers of `eventCh` would, and it breaks the refinement. So does `Resync` TRUE: `replace`'s `&r` gives a listed name another NSM's newer record, which puts the copy ahead of the API server. The `cache` run checks the refinement with Start(f), and it is proved for Start(f).
- `CacheConverges`: the map eventually equals the API server, unless the cache is stopped.
- `GetEventuallyReturns`: every Get is answered. No run checks it at present. With `Stop` enabled TLC violates it: a Get sent after `stopFunc` waits for ever on a channel nobody reads. This is listed as a hazard.

**Findings.** The resync run shows that StartWithResync can keep a deleted NSM for ever. Two more defects are listed as hazards, with no run claiming them:

- `replace`'s `&r` aliasing (nsm_cache.go:75). Three steps after the initial state, TLC shows the map giving two names the same record. This lasts until the informer's own list reports each name.
- The informer's `UpdateFunc` returns unless the old object is a `*v1.NetworkServiceManager` (resource_cache.go:115). That check drops every update in the NSE and NS caches, which share this code.

### Cross-connect monitor (`CrossConnectMonitor.tla`, `MCCrossConnectMonitor.tla`, `CrossConnectMonitorProofs.tla`)

**State.**

- `registry`: the URLs that the NSM List returns.
- `up[u]`: whether the NSM at `u` serves its stream.
- `managers`: the keys of the package-level map.
- `mon[u]`: the monitor goroutine's position (`started`, `streaming`, `returned`).
- `starts[u]`: a history counter of the goroutines started for `u`.
- `closing`, the signal goroutine, and `main`.

**Actions.**

- `Scan`: one iteration of the `for !closing` loop. It lists, records the new URLs and starts their goroutines.
- `OpenStream`: `grpc.Dial` is lazy, so the stream call is the one that fails on a server that is down.
- `RecvFails`.
- `Signal`.
- `Exit`: `wg.Wait` returns and the process ends.
- `Environment`: registrations, removals and server restarts, bounded by `MaxChanges`.

`main` always passes `continuousMonitor = true`, so the branch that deletes from `managers` (line 63) is unreachable and is not modelled. The lookup loop is therefore the only writer of the map.

**Properties.**

- `MonitorStartedOnce`: at most one monitor goroutine per URL for the life of the process. The same fact means that an NSM whose stream failed, for example because it restarted, is never monitored again. It is proved for any URLs and any `MaxChanges` in `CrossConnectMonitorProofs.tla` (section 4).
- `RegisteredGetsMonitor`: every listed NSM gets a monitor unless it is removed or the process is closing.
- `ExitsAfterSignal`: a signal ends the process.

### Connection manager with its peer (`ConnectionLifecycle.tla`, `ConnectionManager.tla`, `MCConnectionManager.tla`, `ConnectionManagerProofs.tla`)

The connection manager's own code is not under `src/`, so its steps are modelled from spec.md 4.4-4.6, 5 and 8 and marked `spec_modelled`. The test harness that the controlplane tests run it against is under `src/` (`controlplane/pkg/tests/nsmd_test_utils.go`), and its fakes are modelled from their code. The model is the tests' setting: a Master NSM whose clients request one network service, whose endpoints live on the Master (local) or on a Worker NSM (remote).

**State.**

- `regEps`: the endpoints in the tests' shared registry storage.
- `dpReady[n]`: whether NSM `n`'s dataplane has `MechanismsConfigured`.
- `state[c]`, `pc[c]`: the Master's ClientConnection `c` and the step of the one task that handles it (spec 5: Request, Close and Heal of one connection exclude one another).
- `ep[c]`, `dst[c]`, `vni[c]`: the endpoint, the Worker's connection id of the remote half, and the VNI.
- `vniUsed`, `nextDst`: the VNI allocator and the Worker's id counter, shared by all tasks.
- `worker[d]`, `xconM`, `xconW`: the Worker's connections and the cross-connects programmed in each dataplane.
- `deleted[c]`: the `ClientConnectionDeleted` events emitted for `c`.

**Actions.** `Request`, then `SelectEndpoint` (prefers a local endpoint, fails with NoEndpoint), `WaitDataplane` / `DataplaneTimeout`, `InvokeLocal` (the local NSE fake, whose prefix-pool `Extract` may fail) or `InvokeRemote` (the peer builds its half; a VNI is drawn), and `Install` (the dataplane fake). Any failure goes through `Unwind`, which closes a remote half already built and releases the VNI. `Close` and the heal's final close share `CloseConnection`. The heal is `HealDstDown` (the endpoint left the registry), then `HealRenegotiate` (a new endpoint, a new remote half, the old one closed, the source id and VNI kept) or `HealTimeout`. The environment removes and registers endpoints (`RemoveNSE`, `RegisterNSE` of the fake registry) and configures a dataplane's mechanisms (as `TestNSMDDelayRemoteMechanisms` does), at most `MaxEnv` times.

**Properties.**

- `ReadyConnectionInstalled`: a READY connection is programmed on the Master and, when remote, has a READY, programmed half on the Worker.
- `NoOrphanRemoteHalf`: every READY or programmed half on the Worker belongs to a live connection of the Master, through unwinding, close, heal and final close.
- `VniUnique`: no two connections hold one VNI.
- `HealEnds`: a heal ends READY or CLOSED with its deletion event.
- `LifecycleRefined`: the manager implements `ConnectionLifecycle`.

**The abstract specification.** `ConnectionLifecycle.tla` states what the manager promises about each ClientConnection (spec 3, 4.4, 4.6, 8), whatever endpoints, dataplanes and peers do. Its state is the lifecycle state `life[c]` and the deletion events `events[c]`. Its steps:

- `Request`: `none` to REQUESTING;
- `Established` or `Failed`: REQUESTING to READY or to failed;
- `HealStart`: READY to HEALING;
- `Healed`: HEALING to READY;
- `Close`: READY or HEALING to CLOSED, with one event.

`ConnectionManager` instantiates it with `life <- state, events <- deleted` (`LC`), and `LifecycleRefined == LC!Spec` is checked by the `connections` run and proved in `ConnectionManagerProofs.tla`. The mapping is the identity on these two variables; everything else (endpoints, halves, VNIs, tasks) is hidden. Every step that moves only a task, an endpoint, a half or the environment is therefore a stutter of the lifecycle.

### EKS teardown script (`AwsTeardown.tla`, `MCAwsTeardown.tla`, `AwsTeardownProofs.tla`)

`scripts/aws/destroy-kubernetes-cluster.go` deletes, in order, the worker nodes' CloudFormation stack, the EKS cluster, the VPC stack, the service role (after detaching two policies) and the key pair, polling the stacks and the cluster until their deletion ends. `checkDeferError` decides what each AWS error means: go on (no error, Throttling), return harmlessly (NoSuchEntity, ResourceNotFoundException, ValidationError) or return and exit 1 at the end (anything else).

**State.** `pc` (one value per statement that calls AWS, plus `done` and `panic`), `deferError`, and the resources: `stack[s]` (its StackStatus), `cluster`, `role`, `attached`, `keypair`. `transient` records whether the last call failed transiently; it serves the fairness condition only.

**Actions.** One per AWS call site: `DescribeStack(s)`, `DeleteStack(s)`, `PollStack(s)` for both stacks, `DeleteCluster`, `PollCluster`, `DetachClusterPolicy`, `DetachServicePolicy`, `DeleteRole`, `DeleteKeyPair`. Each call gets AWS's answer for the resource's state, or a transient `InternalFailure`, or (when the constant `Throttle` is TRUE) `Throttling`. AWS's side is `StackDeletionEnds` (the VPC stack fails while the cluster exists) and `ClusterDeletionEnds`. The initial state is any set of existing resources, since the script is rerun after partial teardowns.

**Properties.**

- `ExitZeroMeansClean`: exit status 0 means every resource is gone.
- `ScriptEnds`: every poll loop ends.

`ExitZeroMeansClean` is proved without throttling in `AwsTeardownProofs.tla` (section 4).

The script's one panic path is not a run of its own. `NeverPanics` (`pc # "panic"`) fails with `Throttle` TRUE in the script's first step. A throttled first DescribeStacks passes `checkDeferError` (line 23), and `resp.Stacks[0]` is then taken from an empty list. The same happens at lines 104, 175 and 192, and at `resp.Cluster.Status` (142). Its cause is the one the `aws_throttle_exit` finding shows. Without throttling, every error is checked before the response is used, so a passing run of it would tell nothing. `PROJECT.json` lists the panic as a hazard, and `NeverPanics` serves only as a conjunct of the inductive invariant of the proof. `Step(s, x)` names a stack function's statements through the record `StackPc` rather than by string concatenation, because the prover treats strings as opaque.

### SDK monitor endpoint (`MonitorEndpoint.tla`, `MCMonitorEndpoint.tla`)

`sdk/endpoint/monitor.go`: `MonitorEndpoint.Request` fails without a next endpoint, otherwise calls `next.Request` and, if that succeeds, `monitorConnectionServer.Update`s the connection. `Close` `Delete`s it from the monitor first and then returns `next.Close` (or nothing without a next endpoint). Each call runs on its own gRPC handler goroutine. The caller is the NSM, which serialises the calls of one connection (spec 5) but, when a Request's deadline expires, unwinds by closing the endpoint invocation while the endpoint's handler still runs: the handler never looks at its context.

**State.** `inner` (the connections the next endpoint holds), `monitor` (the connections the local connection monitor reports), `req[c]` and `cls[c]` (where each handler of connection `c` is), `nsm[c]` (the NSM's view of `c`).

**Actions.** `RequestNext(c)` (lines 39-49, with the failure of next), `RequestUpdate(c)` (51-54), `CloseDelete(c)` (58-60, 63-64), `CloseNext(c)` (61-62, next.Close may fail and keep the connection); the NSM's side, from the spec: `NsmRequest`, `NsmClose`, and `NsmTimeout` (only when the constant `Cancel` is TRUE).

**Properties.**

- `MonitorShowsOnlyLive` (run `monitor_ghost`, expected violation): the monitor never reports a connection the endpoint does not hold.
- `GhostOnlyClosed` (run `monitor`): a connection the monitor reports while next does not hold it is one whose NSM has finished closing it. So the deadline's ghost is never a connection the NSM still uses. The mutant `RequestNextUpdateFirst` Updates the monitor before `next.Request` and does not undo the Update when next fails. The monitor then reports a connection whose Request failed, and TLC finds the property violated. It is proved for every instance, with the deadline.

With `Cancel` TRUE, `MonitorShowsOnlyLive` fails in six steps: Request passes `next.Request`; the NSM's deadline expires and it closes; Close Deletes (nothing yet) and closes downstream; the Request handler then Updates the monitor with a connection that is gone (monitor.go:52).

### Network service annotation and labels (`NsUrl.tla`, `MCNsUrl.tla`)

A client's network service annotation goes through four functions:

- `ParseAnnotationValue` (`pkg/tools/tools.go`) splits it on `,` and parses each part with `parseNsUrl`: `url.Parse`, the path split on `/` into the service name and an optional interface of at most 15 characters, and `url.Query()` for the parameters.
- `NSConfigurationFromUrl` (`sdk/common/configuration.go`) writes a URL's parameters as `OutgoingNscLabels`, "k=v" pairs joined by commas, taking the first value of each key in Go's random map order. It writes them into a copy of the client's configuration, with the URL's service as `OutgoingNscName`.
- `CompleteNSConfiguration` (same file) fills every empty string option from its environment variable. It always overwrites `TracerEnabled` with `ParseBool(TRACER_ENABLED)` and drops the parse error. Its caller, the client constructor, is not under `src/` and is modelled from the SDK's flow. `getEnv` is not in the repository and is taken as the variable's text.
- `ParseKVStringToMap` (`tools.go`) reads such labels back: split on `,`, split each pair on `=`, a pair that is not exactly two fields becomes `("", "")`, trim blanks, last key wins.

The properties are about the text, so strings are sequences of one-character strings over a small alphabet without `:`, `#`, `%`, `+` or `;`: `url.Parse` then finds no scheme, fragment or escape and splits only at the first `?`. `Split`, `Cut`, `Trim`, `ParseKV`, `ParseKVStringToMap`, `ParseQuery`, `parseNsUrl`, `ParseAnnotationValue` `LabelsText`, `ParseBool` and `Complete` translate the Go functions; a configuration is a record with one field per option (`NSConfigurations`). The reference is the list of URLs (`items`) the annotation is written from. The client's configuration (`base`, from `Confs`) and the environment (`env`, from `Envs`) are chosen initially: one configuration is empty, the other sets a name, labels, a workspace and the tracer; one environment sets nothing, the other sets every variable, with a name and labels of another service. The actions are the four calls in order; `NSConfigurationFromUrl` picks any iteration order of each map. The module is for TLC only (it uses `SequencesExt`).

**Properties.**

- `AnnotationRoundTrip`: parsing fails exactly when some interface is longer than 15 characters, and otherwise gives back every URL's name, interface and the first value of each query key.
- `LabelsRoundTrip`: each client asks for its URL's service, whatever `OUTGOING_NSC_NAME` says. A URL with a query gives exactly the first values of its keys as labels, whatever the map order and whatever `OUTGOING_NSC_LABELS` says. A URL without a query gives empty labels, which `CompleteNSConfiguration` takes as unset. The client then gets the labels of `OUTGOING_NSC_LABELS`, and when that is unset too, the one label `{"": ""}` that `ParseKVStringToMap` makes of an empty string. So a client never asks with no labels. Its mutant reads the labels from the environment even when set.

### Dataplane egress interface (`Egress.tla`, `MCEgress.tla`, `EgressProofs.tla`)

`NewEgressInterface` (`dataplane/pkg/common/egress_interface.go`) does three things in order:

1. `findDefaultGateway4` reads `/proc/net/route`; `parseProcFile` takes the first line whose destination is `00000000`, and `parseGatewayIP` reads its gateway back from hexadecimal, reversing the bytes.
2. `getArpEntries` reads `/proc/net/arp`, skipping the header; a missing file is not an error.
3. The interfaces are searched for one holding the source IP.

The model keeps the kernel's tables (`routes`, `arp`, `arpExists`, `addrs`) and writes the files from them as the kernel does: addresses as `%08X` of a little-endian `__be32`, so the last byte comes first. The code's parsers then read these files. The actions are `FindDefaultGateway`, `GetArpEntries` and `FindInterface`.

**Property.** `EgressMatchesKernel`: the call succeeds exactly when a default route and an interface with the source IP exist. It then reports the first default route's interface and gateway, an interface holding the source IP, and the ARP table.

## 3. Runs, bounds and fairness

| run | model | result | states |
|---|---|---|---|
| workspace | 2 incarnations, MaxClose 2 | pass | 908 |
| workspace_directory | same | violation in 18 steps | |
| cache | 2 keys, 1 client, 3 writes, 2 Gets, channel capacity 2, Resync FALSE | pass | 10104 |
| cache_resync | same, Resync TRUE | violation | |
| crossconnect | 2 URLs, 3 environment changes | pass | 864 |
| connections | 2 clients, 1 local and 2 remote endpoints, 2 VNIs, 4 Worker ids, 3 environment changes | pass | 18796 |
| aws_teardown | every initial set of resources, transient failures, Throttle FALSE | pass | 7177 |
| aws_throttle_exit | same, Throttle TRUE | violation in 8 steps | |
| monitor | 3 connections, next fails or not, Cancel TRUE, no symmetry | pass | 9261 |
| monitor_ghost | same, Cancel TRUE | violation in 7 states | |
| nsurl | 1 or 2 URLs, interfaces of 0, 1, 15 and 16 characters, 0 to 2 query pairs over 2 keys and 3 values, every map order, 2 client configurations, 2 environments | pass | 642112 |
| egress | up to 2 routes over 2 interfaces and 2 addresses, ARP table of up to 1 entry or missing, every address assignment | pass | 80000 |

**Why these bounds are enough.**

- *Workspace.* Two incarnations are the least that shows the shared directory; a third adds nothing new, because incarnation 3 depends only on incarnation 2. MaxClose 2 allows the double Close. The inductive invariant was also checked with three incarnations.
- *Cache.*
  - A channel of capacity 2 makes "full" reachable, and that is when the informer blocks.
  - Three writes cover create, update and delete of one key.
  - Two keys show that keys do not interfere.
- *Connection manager.* Two clients make the VNI allocator and the Worker's ids shared. One local and two remote endpoints give every kind of heal: remote to remote, remote to local, local to remote. Three environment changes allow an endpoint to be removed and another to come back while a heal waits, or a dataplane to come up late. Two VNIs and four Worker ids are enough for two connections with one heal each; when they run out the request fails, which the model also explores.
- *Monitor endpoint.* Three connections let two handlers of different connections interleave with a third's; the handlers of one connection interleave with each other only through the NSM's deadline. Symmetry over connections is used only for the ghost run; the passing run is small enough without it.
- *Annotation and labels.* Interfaces of 15 and 16 characters sit on both sides of the limit. Two pairs over two keys repeat a key, so "first value wins" matters. An empty value and one with a blank inside exercise `Trim` and `parseKV`. Two URLs exercise the comma split, and a URL without a query exercises the empty labels.
- *Egress.* Two routes let a table hold two default routes, or a default route after another one. The address 192.168.1.1 has distinct bytes with hexadecimal letters, so a byte-order error shows. Two interfaces make the search order matter.
- *Teardown.* The script is sequential, so the state space is the initial resources times the answers; nothing is bounded except that AWS's transient failures are finite in each run (fairness forces only AWS's own answer).

**Fairness.**

- *Workspace.* The constructor and the serve goroutine of each workspace are weakly fair; they are goroutines the Go scheduler runs. The owner's Close and the environment's listener failure are not fair: nothing forces them.
- *Cache.* `Start` is fair, because the daemon calls it at start-up. The informer's deliveries and `run()`'s receive and exit are weakly fair, because they are goroutines. Writers, Get callers and the owner of `stopFunc` are not fair.

- *Cross-connect monitor.* `Scan`, `Exit` and the monitor goroutines are weakly fair. The environment and the signal are not.
- *Connection manager.* The request and heal tasks of each connection are weakly fair; they are the NSM's goroutines, and the heal timer always fires. Clients (Request, Close) and the environment are not fair.
- *Monitor endpoint.* The handlers' steps are weakly fair (gRPC handler goroutines); the NSM's calls and its deadline are not. No property of the monitor runs depends on this fairness: both are invariants.
- *Teardown.* The script's steps that get AWS's own answer are weakly fair (the script runs until it ends); transient failures may happen but are never forced. AWS's completion of an accepted deletion is weakly fair.

**Deadlock checking.** Every cfg says `CHECK_DEADLOCK FALSE`, because every modelled part really stops:

- a workspace whose owner never closes it sits idle;
- the cache stops after `stopFunc`;
- the cross-connect monitor's process exits;
- a client of the connection manager makes finitely many requests;
- the teardown script exits;
- the monitor endpoint is idle once the NSM stops calling;
- an annotation is parsed once;
- `NewEgressInterface` returns once.

**Mutants.** Every property of a passing run has a mutant in `PROJECT.json`. A mutant is a plausible bug in a mapped definition, and it makes TLC fail the property:

- an off-by-one on the Close bound;
- a cleanup that tears down only NEW workspaces;
- a cleanup that leaves the server and the listener open;
- a send that ignores the channel capacity;
- an UpdateFunc that drops updates;
- no DeleteFunc;
- a map lookup dropped or inverted, a signal handler that forgets `wg.Done`;
- an unwind that forgets the remote half, a VNI drawn without checking use, a Close that does not check READY, a heal that forgets to program the new half, a final close without its event, a request that reuses a failed connection's id;
- a `checkDeferError` that never sets `deferError`, a poll loop that waits on a failed stack;
- a DescribeStacks whose error is not checked, a lost monitor Update;
- an interface limit of `>= 15`, labels written without their comma separator;
- the gateway's bytes read in the order they are written.

## 4. What is proved

`WorkspaceProofs.tla` proves, for every number of incarnations and every MaxClose:

- `TypeCorrect`: `Spec => []TypeOK`.
- `Consistent`: `Spec => []WorkspaceConsistent`.

Neither invariant is inductive on its own. Consider the case where `Decide` or the deferred cleanup reads `state`: whether resources are released depends on the constructor's position and on whether the goroutine has already run. The strengthening `IInv` is `TypeOK` plus `WsInv(i)` for every incarnation, and `WsInv(i)` ties these together:

- before the gRPC server is built (`ctor` in `Early`), the workspace is NEW, idle, has no server and has returned nothing;
- the listener exists exactly from `build` on;
- NEW means no server;
- RUNNING means a created server and a listener that is not closed;
- CLOSED means neither.

TLC checked `IInv` as an invariant before it was proved. The proof has these parts:

- `InitIInv`.
- `NextIInv`, with one step per action.
- Three lemmas:
  - `CleanupEffect`: what cleanup does for each value of the state it reads;
  - `ReturnIInv`: every return of NewWorkSpace, including its deferred cleanup, preserves `IInv`;
  - `CloseBodyIInv`: the body of Close preserves `IInv`.
- The temporal step, `PTL`.

The proofs assume only `WorkspaceAssumption`: `Incarnations` is a positive natural and `MaxClose` a natural.

`MonitorEndpointProofs.tla` proves `NoGhostWithoutDeadline`: if the NSM never gives up on a Request (`~Cancel`), then `Spec => []MonitorShowsOnlyLive`, for every set of connections and with or without a next endpoint. The ghost run shows the invariant failing once the deadline may expire, so the deadline is the whole cause. The invariant is not inductive alone, because an Update or a next.Close may follow a step of the other handler. The strengthening adds, for each connection `c`:

- a running Request handler means the NSM is `requesting`;
- a running Close handler means the NSM is `closing`;
- a Request about to Update holds a connection that next still has;
- a Close about to call `next.Close` has already Deleted `c` from the monitor.

Without the deadline, the first two keep the two handlers of one connection from running at once. The last two then give `monitor \subseteq inner` after every step. TLC checked the strengthening on three connections, with and without a next endpoint, before it was proved.

`GhostOnlyClosedHolds` (`Spec => []GhostOnlyClosed`) drops the assumption on the deadline, and on the next endpoint too. With the deadline the two handlers of a connection do run at once, so `ConnInv` no longer holds. The strengthening `GInv` needs only one more fact: a Request handler about to Update holds a connection that next still has, unless the NSM has already finished closing it. `NextGInv` has one step per action and rests on three facts:

- a connection enters the monitor only through that Update;
- it leaves `inner` only through `next.Close`, which marks the NSM closed;
- no step takes the NSM out of `closed`.

TLC checked `GInv` on three connections, with and without a next endpoint, before it was proved.

`ConnectionManagerProofs.tla` proves three invariants for every set of connections, endpoints and VNIs and every bound: `VniUniqueHolds`, `ReadyConnectionInstalledHolds` and `NoOrphanRemoteHalfHolds`, each of the form `Spec => []P` for the invariant of the `connections` run. None of these invariants is inductive as it stands, so the proof uses two strengthenings. TLC checked both on the `connections` model before they were proved.

- **`IInv`, for the allocator and the events.**
  - A drawn VNI is fresh only because every held VNI is in `vniUsed` (`VniAllocated`).
  - A second deletion event is impossible only because a deleted connection stays CLOSED with no task running, and a task waiting to heal belongs to a HEALING connection (`DeletedInv`).
- **`HInv`, for the halves.**
  - `HalfInv(c)` ties c's task to its half: a half c points to is READY, programmed and below `nextDst`, and c is live. Before InvokeRemote c has no half. A READY or installing connection to a remote endpoint has one. READY and HEALING connections are programmed on the Master. A READY connection has no task running.
  - `HalvesOwned`: every half the Worker holds is some connection's.
  - `DstUnique`: no two connections share a half.

  Together these show three things. A new half at `nextDst` clobbers nobody's. Closing c's half leaves every other connection's alone. A heal keeps the Master cross-connect.

The proof of each `Next*` lemma has one step per action. Each step that builds or closes a half goes through a lemma of its own: `UnwindHInv`, `CloseHInv`, `InvokeRemoteOkHInv`, `InstallOkHInv`, `HealRemoteHInv` and `HealLocalHInv`. Each of these has one step per conjunct and a case split on whether the connection is the one acting. The mutants of the `connections` run break exactly the steps these lemmas prove: a VNI drawn without looking at the values in use, an unwind that keeps the remote half, a heal that does not program the new half. The proofs use only `ConnectionManagerAssumption`.

`LifecycleRefinedHolds` (`Spec => LifecycleRefined`) is the refinement proof. The initial state maps to the lifecycle's initial state. Lemma `StepRefines` shows that under `HInv` every step is a lifecycle step or a stutter on `(state, deleted)`. `HInv` provides the state each task runs in: a request task's connection is REQUESTING (so its unwinding is `Failed` and its install `Established`), and a heal task's is HEALING (so a renegotiation is `Healed` and a heal timeout is `Close`). The mutant that lets a failed connection's id be requested again breaks the refinement.

`ResourceCacheProofs.tla` proves `CacheTracksInformerHolds`: under `~Resync` (Start(f), which the `cache` run uses), `Spec => []CacheTracksInformer` for every set of keys and callers, every MaxWrites, MaxGets and channel capacity. The invariant says nothing while an event of the key is queued, so it is not inductive: when run() takes the last such event off, the map must get exactly the informer's current view. The strengthening `IInv` adds:

- for each key, the newest informer event for it still in `eventCh` carries `seen[k]` (`KeyInv`);
- a delete event carries no record (value 0), so accepting any informer event sets the map to the event's value;
- before Start the informer is off, has seen nothing, and only get events are queued, so Start's empty map agrees with `seen`.

`NextTypeOK` proves the types first, under `Resync` too, with the lemma `ReplaceType` (replace's map holds versions). `TypeOKHolds` (`Spec => []TypeOK`) follows from it for both starts: eventCh never holds more than its capacity. `NextIInv` has one step per action; the informer's send and run()'s receive are split per key, with the index shift of `Append` and `Tail` stated as steps. TLC checked `IInv` on two keys, four writes and a channel of three before it was proved. Under `Resync` the theorem is false: `StartWithResync` fills the map with records the informer has not reported.

The refinement below rests on the invariant `OInv`, which orders the versions of each key as they travel. Writing `Before(x, y)` for "x <= y, or one of them is 0 (absent)", `OInv` says that for every key:

- the map's record is `Before` every queued informer event for the key;
- the queued events for the key are `Before` one another in channel order;
- each of them is `Before` the API server's record, and so is the map's;
- every version is at most `writes`, and a delete event carries 0.

`NextOInv` has one step per action:

- A write gives its key `writes + 1` or 0, so the order holds whatever came before.
- The informer appends the API server's current record, which is `Before` what is already queued and what the map holds.
- run() moves the oldest event's version into the map. The lemma `AcceptHead`, shared with the other proof, states that move. The remaining events shift down by one index.
- Start(f) empties the map.

With it, run()'s new record is the head event's, and `OInv` puts the old record `Before` it, so the copy never moves back. TLC checked `OInv` on the `cache` run's instance before it was proved.

`CacheRefinesCopyHolds` (`Spec => CacheRefinesCopy`, under `~Resync`) is the cache's refinement proof.

- **Initial state.** `Init` maps to `NsmCacheCopy`'s initial state.
- **Steps.** Lemma `StepRefinesCopy` shows that, under `TypeOK /\ OInv /\ RInv`, every step is one of the following:
  - `Write` (a write to the API server);
  - `CatchUp` of the head event's key (run() taking an informer event). `AcceptHead` gives the new record, and `OInv`'s first conjunct puts it between the old record and the API server's;
  - `Answer` (run() taking a get event);
  - a stutter (the informer's and the callers' sends, run()'s exit, `stopFunc`, and Start(f)).
- **The extra invariant `RInv`.** It supplies two facts:
  - before Start the map is empty and run() is idle, so Start(f)'s empty map changes nothing;
  - a get event carries its caller's id, so the reply goes to a client.

TLC checked `OInv` and `RInv` on the `cache` run's instance, and the TLAPS proof checks `RInv` for every instance.

`CrossConnectMonitorProofs.tla` proves `MonitorStartedOnceHolds` (`Spec => []MonitorStartedOnce`) for every set of URLs and every `MaxChanges`. `starts[u] <= 1` alone is not inductive: a Scan would start a second goroutine for a URL with one already started if that URL were missing from `managers`. The strengthening `UrlInv(u)` says that `u` is in `managers` exactly when one goroutine was started for it (`starts[u] = 1`, `mon[u] # "none"`), and otherwise none was. The SMT backend does not handle the Boolean flags `closing` and `up[u]`, so their type steps are proved by Zenon, apart from the rest of `TypeOK` (`TypeRest`).

`AwsTeardownProofs.tla` proves `ExitZeroMeansCleanHolds` under `~Throttle`, from every starting set of resources. `ExitZeroMeansClean` speaks only of the final statement, so it is not inductive. The strengthening `Cleaned` says, for each step the script has finished, that its resource is gone (`AfterNodes`, `AfterCluster`, `AfterVpc`, `AfterRole`). It is required only while `deferError` is unset. `IInv` also carries `NeverPanics`: without throttling no step reads a field of a nil answer. The argument for each step has three cases:

- the call succeeded and the resource is gone (a poll returns only on DELETE_COMPLETE or a missing cluster);
- AWS's own answer was the harmless "not found", which it gives only for a missing resource;
- any other error sets `deferError`.

AWS's own steps never bring back a stack that is gone or a cluster that is absent. Under `Throttle` the theorem is false, as the `aws_throttle_exit` run shows: a throttled DeleteKeyPair or DeleteRole reads as success.

`EgressProofs.tla` proves `EgressMatchesKernelHolds` (`Spec => []EgressMatchesKernel`) for every interface list, every set of IPv4 addresses and all bounds on the tables. It assumes only `EgressAssumption`. The proof has two parts.

The first part shows that the parsers invert what the kernel writes.

- `ParseTwo`: `ParseHexByte(Hex2(b)) = b` for every byte. `ParseHexByte` defines its prefix values by a function local to a LET, and the provers see that function as a `CHOOSE`. `PrefixValue` names it, and an explicit function satisfying the defining equation pins it down on the two-character domain. No induction is needed.
- `KernelHexRoundTrip`: `parseGatewayIP(KernelHex(ip)) = ip`. This uses `Concat4` for the four slices `g[0:2]`, `g[2:4]`, `g[4:6]` and `g[6:]`, with the slices taken in reverse byte order.
- `DefaultDestIff`: a line's destination is `00000000` exactly for the route to 0.0.0.0.
- `HeaderNotDefault`: the header line never matches.
- `RouteFileParse`: `parseProcFile` over `RouteFile(rt)` fails without a default route. Otherwise it returns the first default route's interface and gateway. The hits are the default routes' positions shifted by the header (`RouteHitsShift`, `MinShift`). The least element exists by the well-foundedness of `<` on `Nat` (`MinExists`, from `WFMin`).
- `ArpFileParse`: `getArpEntries(ArpFile(rows))` returns the rows.

The second part is the induction. `EgressMatchesKernel` speaks only of the final states, so it is not inductive. The strengthening `IInv` records what each finished step has computed from the tables, which never change:

- after `findDefaultGateway4`, `gateway` is `parseProcFile` of the route file, and it is `ok` on every path that goes on;
- after `getArpEntries`, `arpEntries` is the parsed ARP file, or empty when the file is missing;
- a failure has a reason: no default route, or no interface hit;
- a success is the record built from the first interface that holds `srcIp`.

`InitIInv` and `NextIInv` (one step per action) show it inductive. `IInvMatch` derives the property from the first part's lemmas. `IInv` was first checked by TLC on the `egress` instance. Concatenation (`\o`) is beyond the SMT backend here, so lemmas about it go through `ConcatProperties` with Zenon, behind the opaque operators `Cat4` and `Cons`.

**What is only model-checked.**

- The liveness properties (`ServeEndsAfterClose`, `CacheConverges`) are out of the prover's reach.
- `AnnotationRoundTrip` and `LabelsRoundTrip` (`NsUrl.tla`) are checked by TLC only. They state what `Split`, `SelectSeq`, `SetToSortSeq` and the folds behind them compute for strings of every length. That is induction over data, and the library's induction theorems take an operator parameter, which none of the installed provers can instantiate. `EgressMatchesKernel` escapes this: every field `parseGatewayIP` reads has a fixed width.

## 5. What is not modelled, and why

- **Process wiring and deployment.** This covers `nsmd-k8s/main.go`, `vppagent-dataplane.go` and the kube_testing helpers. They are wiring and I/O with no state machine of their own. (The AWS teardown script is modelled.)
- **The connection manager's other heals.** Dataplane-down, source-side and NSM-restart heals (spec 4.6, 4.7) are not yet in `ConnectionManager.tla`.
- **The proxy NSMD probe goals** (`proxy_nsmd_probe_goals.go`). Two flags set once each with `|=`. Their callers are not under `src/`, so whether the two sets can race cannot be asked of this code.
- **The restore and NSE cache tests.** They drive code that is not under `src/` (`RestoreConnections`, the NSE cache; the latter shares `resource_cache.go` with the modelled NSM cache).
- **Tracing, logging and message formatting.** A property never tells these apart.
- **The informer's watch/relist machinery and the API server.** These are abstracted to `WriteStore` and a per-key view `seen`. Tombstones are not modelled.
- **`cleanup`'s removal of the directory is assumed to succeed.** The code ignores its error.

## 6. Plan for the following sittings

Done so far:

- every component under `src/` that has state is modelled, apart from those listed in section 5;
- the abstract connection lifecycle, refined by `ConnectionManager`, and the abstract NSM cache copy `NsmCacheCopy`, refined by `ResourceCache` under Start(f). Both refinements are proved;
- the parsing algorithms of `NsUrl.tla` and `Egress.tla`;
- proofs of every safety invariant of the passing runs except `AnnotationRoundTrip` and `LabelsRoundTrip`. Those two would need induction over strings of every length (section 5). `EgressMatchesKernel` is proved, since its parser reads fixed-width fields.

Next:

1. The dataplane-down heal and the restorer (spec 4.6, 4.7; `restore_state_test.go`) in `ConnectionManager.tla`. The proofs of `ConnectionManagerProofs.tla` must then be extended to the new actions.
2. A run for `GetEventuallyReturns` or for a Get returning another NSM's record after StartWithResync, if one of the present runs can give way.
