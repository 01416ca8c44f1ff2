# A TLA+ model of the federation controller

The federation controller makes Services of one Kubernetes cluster available in
the meshes of other clusters. One controller runs in every cluster. It exports
the Services that match its export rules, and it imports what the other
controllers export. This directory models the controller, checks the model with
TLC and proves the main results with TLAPS.

## The system

| part | source (under `src/`) | what it does |
|---|---|---|
| export rules, generator | `internal/pkg/common`, `internal/pkg/config`, `internal/pkg/legacy/fds/exported_service_generator.go` | decide which Services are exported and list them as `FederatedService` resources |
| Service controller | `internal/pkg/legacy/informer` | informer, work queue, one worker; an event that changes the exports becomes push requests on two unbuffered channels |
| discovery server | `internal/pkg/legacy/xds/adss` | gRPC: a snapshot for every new subscriber, a broadcast for every push request |
| discovery client | `internal/pkg/legacy/xds/adsc` | one per remote peer: subscribe, receive, reconnect with a timer |
| import handler and store | `internal/pkg/legacy/fds` | keep the last response of every remote, then send three push requests to the reconciler manager |
| reconciler manager and reconcilers | `internal/pkg/legacy/kube` | for every push request, make the Istio or OpenShift resources of one kind equal to what the config factory returns |
| config factories | `internal/pkg/istio`, `internal/pkg/openshift` | functions from export rules, lister and import store to resources |
| remote IP resolver | `cmd/federation-controller/main.go`, `internal/pkg/networking` | ask DNS every second, request WorkloadEntries when an address changed |
| startup | `cmd/federation-controller/main.go` | informer first, then server, resolver, clients, an initial `ReconcileAll`, and the manager |
| MeshFederation controller | `internal/controller` | sets a condition of every MeshFederation, with retries on conflict; brings a finalizer handler that nothing calls yet |
| FederatedService controller | `internal/controller/federatedservice` | does nothing yet |
| API types, chart, build | `api`, `internal/api`, `chart`, `build` | declarations, generated code, packaging |

The parts interact like this. A change of a Service reaches the informer's store
and, as an event, the worker. The worker sends push requests to the local
reconciler manager and then to the discovery server. The server generates the
resources from the informer's store and sends them to every subscriber. In the
peer, the client stores the response and asks the peer's reconciler manager to
write the resources. Behind an openshift-router the resolver sends requests to the
same manager. The MeshFederation controller is separate from all this: it runs
under controller-runtime, behind a feature flag, and meets other writers of its
objects in the API server only.

## Modules

| module | models |
|---|---|
| `ExportRules` | `MatchExportRules`, `GetLabelSelectors`, a round of `GenerateResponse` |
| `ServiceController` | `resource_controller.go`, `service_export_event_handler.go` |
| `AdsServer` | `adss_handler.go`, `grpc_server.go` |
| `AdsClient` | `adsc.go`, `import_handler.go`, `imported_service_store.go` |
| `Discovery` | one exporting controller, its peers, the streams between them and their faults |
| `ConfigFactory` | `istio/config_factory.go`, `openshift/config_factory.go`: operators; the loops over the selectors are in `ReconcilerManager` |
| `RemoteResolver` | `resolveRemoteIP` of `main.go`; `networking/resolve.go` is in `ConfigFactory` |
| `ReconcilerManager` | `reconciler_manager.go`, the seven reconcilers, `startReconciler` |
| `MeshConfig` | one controller in its own cluster: Service events, discovery clients, the resolver, the manager and the API server |
| `KubeObject` | a MeshFederation object in the API server, and the mutations that the controller asks for |
| `AtomicUpdates` | abstract: what `RetryUpdate` and `RetryStatusUpdate` promise |
| `RetryCall` | `retry.go` against the API server and a cache that lags behind |
| `MeshFederationController` | `meshfederation_controller.go`, `finalizer/types.go`, `predicate.go`, among users and another controller |
| `MCDiscovery`, `MCMeshConfig`, `MCFederation` | instances for TLC |
| `DiscoveryTypes` | proof of type correctness, lemmas about the export rules |
| `DiscoveryInvariant` | the inductive invariants `FreshInv` and `StableInv` |
| `DiscoveryProofs` | the proof that every step keeps `FreshInv`, and the theorem `NoUpdateIsLost` |
| `RestartProofs` | the theorem `StableExportsAreNotLost` |
| `RetryProofs` | types of `MeshFederationController`, and the refinement `RetryImplementsAtomicUpdates` |
| `FinalizerProofs` | the theorem `FinalizerHolds` |
| `MeshInvariant` | the inductive invariants `SyncInv` and `EntryInv` |
| `ManagerProofs` | lemmas about the factories and the calls of a `Reconcile` |
| `MeshTypes` | types of `MeshConfig`, and the theorem `EntriesStay` |
| `MeshProofs` | the theorems `ResourcesMatch` and `CallsAreWanted` |

The legacy mode has two compositions. `Discovery` follows an export across the network and
takes the reconciler managers to be receivers that never fail. `MeshConfig`
follows Services and imports to the resources of the cluster, and takes the
discovery servers to be ones that accept every push request and send any of a set
of responses. They meet in `ServiceController` and `AdsClient`, which both use.
`MeshFederationController` composes the controller with `RetryCall`.

`ServiceController`, `AdsServer`, `AdsClient`, `RemoteResolver`, `RetryCall` and
`ReconcilerManager` each declare the variables of their component, and actions that
constrain those variables only. A composition extends them and conjoins an action
with `UNCHANGED` for the rest. A send on an unbuffered channel is one joint step of
sender and receiver: `FdsPush` is `SendFdsPush /\ ReceivePush`, `McpPush` is
`SendMcpPush /\ ReceiveRequest`, `ResolverPush` is `SendResolverPush /\ ReceiveRequest`.

### How state and actions correspond to the code

* **Services.** `cluster` is the API server and `store` the informer's store that
  the `ServiceLister` reads. `InformerStep` brings one Service of the store up to
  date and queues the event (`AddFunc`, `UpdateFunc`, `DeleteFunc`). Several
  changes of a Service may reach the informer as one.
* **Events.** `queue` is the informer's pending notifications followed by the
  work queue, both FIFO. `ProcessNextItem` takes an event and computes the push
  requests that `triggerXDSPush` sends one at a time (`pushes`). `processItem`
  never returns an error, so there is no requeueing.
* **Streams.** A stream is a connection number, which also stands for the
  subscriber id. `open` says whether it is alive, `request` whether the client's
  request is on its way, `responses` what the client has not read yet. `Window`
  is HTTP/2 flow control: `Send` blocks while the stream holds that many
  responses. Two goroutines send on one stream; gRPC does not order them, and
  the model appends their responses in either order.
* **Snapshots and pushes.** Generating and sending are separate steps in both
  `recvFromStream` (`RecvRequest`, `SendSnapshot`) and `push` (`GeneratePush`,
  `PushSend`). Generating is one step per label selector (`ListNextSelector`, the
  rounds of `GeneratePush`), because `GenerateResponse` lists the informer's store
  once for each of them while the informer goes on; `listed` and `loopListed` count
  the rounds. A subscriber stored while `Range` runs may or may not be visited,
  as `sync.Map` allows. Sending on a broken stream may go unnoticed.
* **Requests.** The client leaves `VersionInfo` empty, so every request is
  answered.
* **Clients.** A client is one thread of control: `Run`, then `handleRecv`, then
  the timer (`phase`). A response is handled and the three push requests are sent
  before the next `Recv`.
* **Restarts.** `ExporterRestarts` and `PeerRestarts` are a crash and the new
  start in one step: memory is gone, the informer has listed again (`RunAndWait`
  returns before the server is started), the old streams are broken.
* **Losing data in flight.** When a stream breaks, what was already sent may
  arrive or be lost from the end (`ResponseLost`).
* **Config factories.** A resource is a key (namespace and name) and a spec. Names
  are sequences of words, so that joining with dashes is concatenation and loses
  where a name ends. A factory's list depends on the order in which the lister and
  the store are read, and the reconciler keeps the last resource of every key; the
  operator is the set of possible results.
* **Resolver.** `dns` is what the names of the remotes resolve to, and no IPs while
  lookups fail. `prevIPs` and `rsPc` are the variable and the position of
  `resolveRemoteIP`. `Tick` is a tick that finds other IPs; a tick that finds the
  same ones changes nothing. `Reconcile` of WorkloadEntries looks the names up by
  itself, once per import, and gets the IPs in any order.
* **Manager.** `rmPc` is `ReconcileAll` or the loop of `Start`, `initial` the kinds
  that `ReconcileAll` has not come to (a Go map, any order), `current` and `plan`
  the running `Reconcile` and the calls it has not made. Calls are separate steps,
  those of one kind in any order, all `Apply` before all `Delete`. The factories of
  Gateways, EnvoyFilters and Routes list the exported Services once per label
  selector, while the informer goes on: `round` is the selector to be listed next,
  `found` what the lists before have returned, and `ListSelector` one round. The step
  that lists the last selector, or for another kind the one that starts the
  `Reconcile`, also reads the other inputs and lists the old resources. An error ends
  the `Reconcile`; in `ReconcileAll` it ends the process after the last kind. The
  failure of a list is the exception: the factory of EnvoyFilters prints it and goes
  on with the next selector (`ListFails`).
* **Restart in `MeshConfig`.** The process starts again with an empty import store;
  the resources in the API server stay. Nobody else writes resources.
* **MeshFederation objects.** `history` are the versions of one object name in the
  API server, an index is a resourceVersion, and `seen` is the version in the cache
  of a process. `Watch` brings the next version, `Relist` skips some. `EventFilter`
  decides whether the key is queued. `useFinalizer` chooses between the reconcile
  loop that exists (no finalizer) and the one that the comment of
  `finalizer.Handler` documents. `ReconcileNotFound`, `ReconcileFinalizes`,
  `ReconcileAdds` and `ReconcileMain` are the ways through that loop; the cleanup
  (`cleaning`), every read of the cache and every write are steps of their own.
  An API server write is refused with a conflict, which is retried, if the copy is not
  of the latest version or the object is gone (the copy carries its UID), and with
  another error if it would add a finalizer to an object marked for deletion.
  A status write changes the conditions only, an update everything else.
* **History variables.** In `MeshConfig`, `unseen` are the kinds whose last
  `Reconcile` failed, whose lists have missed a Service that moved from one selector
  to another, or whose inputs changed in a way that the code does not watch
  (a local Service of an imported name appears or goes; ports of a Service that
  stays exported change; the DNS changes when the resolver cannot notice), and
  `entered` the imports whose entry was written.
  In `Discovery`, `heldStale`, `lastStale`, `lostPush`, `dropped`,
  `received` and `stable` record the past for the properties. In
  `MeshFederationController`, `dirty` are the objects for which the main logic has
  run without a cleanup since, and `overlooked` marks a new object whose creation
  the event filter has dropped. No action reads them to decide anything.

Abstractions of data: a Service is its labels and its ports. Ports are opaque, so
`detectProtocol` is part of the value. A response is the set of its resources.
Versions, nonces, logging and message sizes are left out. SNI strings, networks,
gateway ports and selectors are fixed by the configuration and left out of specs.
In `MeshConfig` responses are well formed. A MeshFederation is its
metadata, one opaque spec and two conditions, `Available` and one of another writer.
The TODO main logic of the controller is the fact that it has run.

## Properties and runs

| run | constants | checks | result |
|---|---|---|---|
| `discovery_safety` | 1 service, 2 selectors, 1 peer, 2 streams, window 2, 1 change, 1 fault of any kind | `TypeOK`, `SettledPeersMirrorExports`, `StableExportsStayImported` | holds, 482,610 states |
| `discovery_liveness` | 1 service, 2 peers, 4 streams, window 1, no change after the initial events, 1 fault but `serve` | `PeersConverge` | holds, 106,609 states |
| `discovery_overtaken` | 1 service, 1 peer, 1 change, no fault | `FromReturnsExports` | violated |
| `discovery_serve_fails` | 1 service, 1 peer, 1 change, `Serve` fails | `EventsAreProcessed` | violated |
| `mesh_exports` | openshift-router, 1 service, 2 selectors, 1 change, 1 failed list, failed call or restart | `SettledResourcesMatch`, `CallsServeWanted` | holds, 1,858,636 states |
| `mesh_ports` | openshift-router, 1 service with two port lists, 2 selectors, 1 change, no fault | `SettledResourcesMatch`, `CallsServeWanted` | holds, 475,100 states |
| `mesh_imports` | 1 remote behind a router whose name has two IPs, 1 change, 2 updates, 1 failed call, broken stream or restart | `TypeOK`, `SettledResourcesMatch`, `EnteredImportsStay` | holds, 2,143,182 states |
| `mesh_liveness` | 2 remotes, no change after the initial events, 1 update, 1 failed call or broken stream | `ResourcesConverge` | holds, 316,660 states |
| `mesh_resolver` | openshift-router, 1 remote with a name that has one of two IPs or none, 1 change of the DNS or a Service, 1 update | `SettledResourcesMatch`, `ResourcesConverge` | holds, 226,226 states |
| `mesh_torn_list` | 1 service, 2 selectors, 1 change, no fault | `MatchingServicesAreExposed` | violated |
| `federation_faults` | 1 process, 2 objects one after the other, 2 edits, 2 tries, 1 fault of any kind | `TypeOK`, `NothingIsLeftBehind`, `RetryIsAtomic`, `FederationsSettle` | holds, 146,306 states |
| `federation_relist` | the same, the fault is an expired watch | `NewFederationsAreReconciled` | violated |

* **`SettledPeersMirrorExports`.** A peer is *settled* when the informer has
  caught up, no push is pending, and the peer has read everything on its live
  stream. A settled peer knows exactly the exported services, unless one of the
  losses that the code has happened to the last update: the snapshot failed or was
  overtaken by a push, the push could not be generated, the response could not be
  unmarshalled, or a Service was missed between the lists of two selectors. The
  last one is this: selector A has been listed, the Service still carries the
  label of selector B only, and an update moves it from B to A before B is listed.
  The update is not pushed, because the Service was exported before and after.
* **`StableExportsStayImported`.** As long as `ServiceLister.List` does not fail, a
  service that is exported all along, by the same selectors, never disappears from a
  peer that has imported from this exporter. It rests on the server being started
  after the informer has synced, on nothing being sent before the last selector is
  listed, and on the store being kept while the stream is down. After a failed list
  the empty snapshot is sent all the same and the peer drops everything.
* **`PeersConverge`.** Once faults and changes end, every peer becomes settled and
  stays so. This says that every failure path arms a timer, that no peer blocks
  the push loop for ever, and that nobody waits in a cycle on the unbuffered
  channels.
* **`SettledResourcesMatch`.** A kind is *settled* when the manager is idle in its
  loop, the informer has caught up and no request for the kind is under way
  (`Requested`): in the queue, in the worker, in a client, in the resolver or in
  `ReconcileAll`. The resources of a settled kind are exactly those that its factory
  returns now, unless the kind is in `unseen`. For Routes only the wanted ones are
  required; old ones are never deleted (see below). With two selectors this says that
  a torn list, in which the Services of the selectors come from different states of
  the store, is repaired by a later request. The one loss is the one described for
  `SettledPeersMirrorExports`; a list that has it puts the kind into `unseen`.
* **`CallsServeWanted`.** An action property about the time before a kind is settled.
  The calls of a `Reconcile` follow a plan made from earlier inputs. Still, every call
  writes only resources that are wanted at the moment of the call, and removes none
  whose key is wanted, unless another request for the kind is under way or the kind is
  in `unseen`.
* **`EnteredImportsStay`.** Once the ServiceEntry of an import is written, it stays
  while the remote exports the service and there is no local Service, whatever is
  reconciled, fails or breaks in between, up to a restart of this process. After a
  restart `ReconcileAll` runs with an empty store and deletes the entries until
  the remote answers.
* **`ResourcesConverge`.** Once changes, updates and faults end, every push request
  is taken, and every kind becomes settled, with the wanted resources, and stays so.
  In `mesh_resolver` this includes that a remote whose lookups failed for a while
  gets its WorkloadEntries back.
* **`RetryIsAtomic`.** `RetryCall` implements `AtomicUpdates` (the refinement mapping
  takes the latest version for the object and the mutation of a running call for what
  is asked): every mutation is applied to the latest object in one step, at most once
  per call, and nil means that it was, whatever the cache, conflicts, lost responses
  and restarts do. It says nothing of what the mutation itself carries:
  `ReconcileMain` puts all conditions of the object that it has read into it, and so
  sets a condition that another writer has changed since back to its old status.
* **`NothingIsLeftBehind`.** If Reconcile uses the finalizer handler as documented, an
  object for which the main logic has run keeps its finalizer, and so exists, until a
  cleanup has succeeded.
* **`FederationsSettle`.** Once users and faults are quiet, the controller rests; an
  object marked for deletion is gone and any other one is Available and carries the
  finalizer, unless it is the `overlooked` one.

The violated properties are statements of the repository's own comments and
README; the counterexamples are in `findings` of `PROJECT.json`:

* a push overtakes the snapshot of a new subscriber, whose older contents are
  stored last and stay;
* after `Serve` fails, `Run` returns nil, the process lives on, and the worker
  blocks for ever on `fdsPushRequests`;
* a Service that moves from one selector to another between the two lists of
  `IngressGateway` is missing in the Gateway, and nothing requests it again;
* a MeshFederation that is deleted and created anew while the watch has expired looks
  like an update that changes nothing to the event filter, and is never reconciled.

Two defects that the model contains are not stated as properties, because one step
shows them. Two imports whose names join to the same words (service `a-b` in `c` and
`a` in `b-c`) share a ServiceEntry, and one of the hosts gets none. Old Routes are
listed by a label that Routes do not carry, so they are never deleted; `InSync` asks
for the wanted Routes only.

Two limits of the code are part of the model and are no findings. An update of a
Service that matches the rules before and after is not pushed, as
`service_export_event_handler_test.go` asks, so that peers, EnvoyFilters and Routes
keep its old ports and labels until another push. The choice between ServiceEntry and
WorkloadEntry is made when a remote's update is reconciled, and not again when a local
Service appears or goes.

Two more comments of `istio/config_factory.go` do not match the code, and the model
follows the code: the entries of different remotes for one host are never merged
(line 292), because their names differ, and the map that should make a
DestinationRule be created once (line 101) is never written.

### Bounds

`MaxConns`, `MaxFaults` and `MaxChanges` bound a behaviour, `Window` a stream.
Two streams per peer let it connect, lose the stream and connect again. The initial
events act like one more change (see below), so that one change already lets a
service be exported and withdrawn (or the reverse) while the first event is on its
way. One fault suffices for each kind; `discovery_safety` allows every kind. A window
of two lets a snapshot and a push be in flight together. Two selectors are enough for
a change to fall between two lists. With two changes `discovery_safety` has 8,408,162
states and holds as well, but takes longer than is convenient.

In `MeshConfig`, `MaxUpdates` bounds the responses that arrive. Two updates let an
import come and go while the requests of the first are still waiting for the
manager. One service suffices because its EnvoyFilters,
Routes and WorkloadEntries are already several resources of one kind, so that a
`Reconcile` can fail between two calls. Two selectors, each with a label of its own,
let one change move the Service between them, into both or out of both while a factory
is between its two lists. Faults and changes of ports are in separate runs,
`mesh_exports` and `mesh_ports`; with both in one run there are more than 8 million states.
Exports and imports have runs of their own: they meet only in the channel to the
manager, which `mesh_imports` covers with changes and updates together. In
`mesh_resolver` the name resolves to either of two IPs or to none, so that a change
keeps or changes their number; with two changes (a name that changes and changes
back) `SettledResourcesMatch` holds in 889,545 states. The order of several IPs is
covered by `mesh_imports`, where every lookup returns two of them in any order.

In `MeshFederationController`, `MaxObjects` lets an object be replaced by another one
of its name, `MaxEdits` lets two changes come between a read and a write, and
`MaxTries` = 2 stands for the four steps of `retry.DefaultBackoff`: one conflict that
is retried and one that is not.

In both compositions the Services that exist at the start are arbitrary and their
initial events are still to be processed, at any later time. They act like one
more change, and the liveness runs rely on them for the pushes.

Deadlock is not checked: the system rests once the bounds are used up and
everything is delivered.

### Fairness

`FairSpec` gives weak fairness to every goroutine: the informer, the worker, the
channel between worker and server, every stream's goroutine, the push loop and
every client with its timer. The Go scheduler runs a goroutine that stays ready.
In `MeshConfig` the manager and the three kinds of joint sends to it are fair as well,
and the resolver, whose ticker goes on firing:
the manager selects on a single channel, and a sender that waits on a Go channel
is served in order. Kubernetes starts a container again that has ended
(`FatalRestart`). Users, remotes and faults have no fairness. A broken stream is
noticed in the end, because `Recv` fails on both sides. `conns` is bounded, so
`PeersConverge` is checked with more streams than the faults can break. In
`MeshFederationController` the worker and the watch of every process are fair, errors
come back through the work queue, and the other controller removes its finalizer in
the end; without that the object would rightly stay.

## Proofs

Ten theorems are proved, for every value of the constants that the named assumptions
allow (finite `Services`, rules over `Labels`, natural bounds, at least one try; for
`MeshConfig` also remotes with distinct names, because the import store is keyed by
them, and with at least one address, because the startup panics otherwise).
About `Discovery`:

* `TypeCorrect` (`DiscoveryTypes`): `Spec => []TypeOK`.
* `NoUpdateIsLost` (`DiscoveryProofs`): `Spec => []SettledPeersMirrorExports`.
* `StableExportsAreNotLost` (`RestartProofs`): `Spec => []StableExportsStayImported`.

About `MeshConfig`:

* `TypeCorrect` (`MeshTypes`): `Spec => []TypeOK`.
* `EntriesStay` (`MeshTypes`): `Spec => []EnteredImportsStay`.
* `ResourcesMatch` (`MeshProofs`): `Spec => []SettledResourcesMatch`.
* `CallsAreWanted` (`MeshProofs`): `Spec => CallsServeWanted`.

About `MeshFederationController`:

* `FederationTypes` (`RetryProofs`): `Spec => []TypeOK`.
* `RetryImplementsAtomicUpdates` (`RetryProofs`): `Spec => RetryIsAtomic`, the
  refinement of `AtomicUpdates`, for any number of processes.
* `FinalizerHolds` (`FinalizerProofs`): `Spec => []NothingIsLeftBehind`, assuming one
  process (`Workers = {w}`). The assumption is needed: leader election is off by
  default, and with two processes one with an older cache can run the main logic
  after the other has cleaned up, which TLC finds.

`SettledPeersMirrorExports` is not inductive: it speaks of settled states only.
The inductive invariant is `FreshInv`. It says that whatever is held anywhere on
the way to a peer is *fresh*, that is, lists the services exported according to
`store`, or that something newer follows it:

* `Behind`: an event that changes the exports is still in the queue, in `pushes`
  or about to be generated;
* `LoopIsFresh`: what the push loop is sending is fresh, or the loop is behind;
* `LoopListsFresh`, `ListedIsFresh`: what has been listed so far, by the loop or for a
  snapshot, is `FreshSoFar`: it names exported services only, and every exported one
  that it lacks is matched by a selector still to be listed, or the loop is behind, or
  the loss is recorded;
* `HeldIsFresh`: a snapshot that is held is fresh, or a push to the same stream
  will come after it, or it is marked stale;
* `LastIsFresh`: the last response on the way to a peer, or what it has imported
  when nothing is on the way, is fresh, under the same conditions;
* `ServedAreSubscribed`, `NewAreRequested`, `StreamsAreOwned`: a stream that has
  been answered is subscribed while it is open, a new stream still has its
  request, and no two clients share a stream.

There is one lemma per group of actions, and `NextFresh` combines them. The key
lemma `ExportChangeTriggers` says that a step of the informer that changes the
exports queues an event that triggers a push.

The invariant behind `StableExportsAreNotLost` is `StableInv`: the cluster, the
informer's store, what the push loop sends, every snapshot held, every response
under way and every store of a peer cover the services exported all along. What is
only partly listed covers those among them that a listed selector matches
(`CoversSoFar`), which is why `stable` asks for the same selectors. The
set of these services only shrinks, and every step moves resources from one of
these places to the next.

The invariant behind `ResourcesMatch` and `CallsAreWanted` is `SyncInv`.
`SettledResourcesMatch` says nothing while a request is under way or a `Reconcile`
runs, so it is not inductive. `SyncInv` says at every time and of every kind that a
request for it is under way, or it is in `unseen`, or it is `UpToDate`. While the factory
of the kind is listing, that is `FoundSoFar`: what has been found are exported Services
with their current ports, and every exported Service that was not found is matched by a
selector still to be listed. Otherwise it is `PlansReach`: the calls still to be made
lead to what is wanted now (no calls are left when the manager is idle). `Reaches`
describes this for a set of calls made in any order: what is to be applied is wanted,
what is wanted is there or to be applied, nothing wanted is deleted, and whatever else
is there is deleted or overwritten. `FixedKeys` is needed for Gateways and
PeerAuthentications: their reconcilers never delete, and nothing but one resource of
a fixed key is ever created. The argument is this:

* `PlansReachDesired`: the plan of every `Reconcile` reaches what the factory returned.
  It rests on `DesiredFacts`: no result of a factory holds two resources of one key. For
  ServiceEntries this takes the shape of the names (`EntryNames`, `RemoteEntryNames`):
  the entry of a remote's controller and the entry of an import never share a name.
* `FoundNothing`, `FoundNext`, `FoundAll`: `FoundSoFar` holds before the first list, a
  list keeps it, and after the last one the factory returns what is wanted.
* `ApplyReaches`, `DeleteReaches`: a call takes a plan that reaches `d` to one that
  reaches `d` from the new resources.
* `DesiredInputs`: which inputs the result of every factory depends on. A step changes
  what is wanted of a kind only by changing one of them, and then a request for the
  kind is on its way after the step: `InformerReach` (by `ExportChangeTriggers`, as in
  `Discovery`), `ReceiveReach` for imports, `ResolverReach` for the DNS, `FaultReach`
  for the new process, or the step puts the kind into `unseen`. A step of the informer
  in the middle of the lists keeps `FoundSoFar` in the same cases.
* `RequestReach`, `ManagerReach`: a request leaves the system only when the manager
  starts a `Reconcile` for it, which reads the inputs of that moment.

The invariant behind `EntriesStay` is `EntryInv`: the entry of every pair in `entered`
is in the API server, the running `Reconcile` is not about to delete it
(`EntryIsKept`), nothing that a plan applies is also deleted by it, and all entries are
in the namespace of the control plane, so that names decide. It needs no request: the
plan of a `Reconcile` spares the entry because the factory returns one for the same key
(`ServiceEntriesCover`, `EntryPlan`), whatever the imports of other services are.

The invariant behind the refinement is `RetryInv`: the copy that a call is about to
write is the mutation of the version that it names as its base. When the API server
accepts it, that version is the latest one, so the write is the mutation of the
latest object. Every action of the controller then maps to a step of `AtomicUpdates`
or to a stutter.

The invariant behind `FinalizerHolds` is `FinalizerInv`. `NothingIsLeftBehind` speaks of
the latest version, while the controller decides by the cached one, so the invariant
says how the versions from the cached to the latest one are related: a finalizer that
one of them carries is lost only after a mark for deletion, and the ones that carry it
are versions of one object (`HeldVersions`); while a cleanup runs they are all marked
for deletion (`CleaningIsLast`), and while the finalizer is being removed nothing is
dirty (`RemovingIsClean`).

Every invariant and action property that a run finds to hold has a theorem. TLC was
asked first whether the inductive invariants hold on the instances of the runs.
Induction over the naturals is done by least elements (`LeastNat`, `GreatestNat` of
`ManagerProofs`, from the well-foundedness of `<`).

Only model-checked: the liveness properties `PeersConverge`, `ResourcesConverge` and
`FederationsSettle`, which need fairness and ENABLED and are outside the prover's
reach; and the violated properties. What the recursive functions compute (the
sequences that `Resolve` returns, the result of `Sorted`) is not proved for every input
either. The proofs do not need it: `ResolverTypeOK` says of `prevIPs` only that it is the
result of some lookup (`LookupResults`), and `Notices` compares results as they are.

## Not modelled

Because there is nothing to check: configuration parsing (JSON flags without state),
API types, generated code, scheme registration, the FederatedService controller
(which only logs), the chart and the build.

Left out of parts that are modelled: flags and fatal errors before anything runs;
leader election, which is off by default; delta xDS, which the code does not
implement; a remote with an empty list of addresses, for which `resolveRemoteIP` and
`startFDSClient` panic on `Addresses[0]` at startup; remotes with equal names, which
would share an entry of the import store; an import with more than three addresses
(`Indices`); TLS and transport security.
