----------------------------- MODULE MeshConfig -----------------------------
(***************************************************************************)
(* One federation controller as its own cluster sees it: the Service       *)
(* events, the discovery clients of its remotes, the resolver of their IPs *)
(* and the manager that turns all three into Istio and OpenShift           *)
(* resources.                                                              *)
(*                                                                         *)
(* The worker of ServiceController, the discovery clients and the resolver *)
(* send on the unbuffered meshConfigPushRequests, which the manager reads  *)
(* between two reconciles; a send is a joint step. The discovery servers,  *)
(* local and remote, are those of Discovery: here the local one takes      *)
(* every push request, and a remote one sends any of Responses.            *)
(***************************************************************************)
EXTENDS ServiceController, AdsClient, RemoteResolver, ReconcilerManager

CONSTANTS
    Responses,    \* the responses that remotes send
    Faults,       \* the kinds of faults that may happen
    MaxChanges,   \* bound: how many times a Service or the DNS changes
    MaxUpdates,   \* bound: how many responses arrive
    MaxFaults     \* bound: how many faults happen

ASSUME MeshAssumption ==
    /\ Clients = Peers
    /\ Responses \subseteq SUBSET FederatedService
    /\ Faults \subseteq {"stream", "api", "list", "restart"}
    /\ MaxChanges \in Nat /\ MaxUpdates \in Nat /\ MaxFaults \in Nat

VARIABLES
    changes, updates, faults,   \* how many of them have happened
    entered    \* history: the remote-service pairs whose ServiceEntry was
               \* applied, and which have been imported, without a local Service,
               \* in every state since

boundVars == <<changes, updates, faults>>
vars == <<controllerVars, clientVars, resolverVars, managerVars, boundVars, entered>>

TypeOK ==
    /\ ControllerTypeOK
    /\ ClientTypeOK
    /\ ResolverTypeOK
    /\ ManagerTypeOK
    /\ changes \in 0..MaxChanges
    /\ updates \in 0..MaxUpdates
    /\ faults \in 0..MaxFaults
    /\ entered \subseteq Clients \X Services

Init ==
    /\ ControllerInit
    /\ ClientInit
    /\ ResolverInit
    /\ ManagerInit
    /\ changes = 0
    /\ updates = 0
    /\ faults = 0
    /\ entered = {}

-----------------------------------------------------------------------------
Fault(f) ==
    /\ f \in Faults
    /\ faults < MaxFaults
    /\ faults' = faults + 1
    /\ UNCHANGED <<changes, updates>>

UserChanges(s, obj) ==
    /\ changes < MaxChanges
    /\ changes' = changes + 1
    /\ ChangeService(s, obj)
    /\ UNCHANGED <<clientVars, resolverVars, managerVars, updates, faults, entered>>

\* The informer brings an update of Service s that is not pushed, because the old
\* and the new object match the export rules.
StaysExported(s) ==
    /\ NoService \notin {store[s], cluster[s]}
    /\ MatchExportRules(store[s]) /\ MatchExportRules(cluster[s])

\* The factory of kind k is listing and will come to Service s, which it has not
\* found yet.
WillFind(k, s) ==
    /\ Listing(k)
    /\ s \notin Found(found)
    /\ \E n \in Selected(cluster[s]) : n >= round

\* The factory of kind k is listing and misses Service s, which has moved from a
\* selector still to be listed to one that has been listed.
Misses(k, s) ==
    /\ Listing(k)
    /\ s \notin Found(found)
    /\ ~WillFind(k, s)

\* The kinds that a change of Service s in the store leaves behind: whether an
\* import needs a ServiceEntry or WorkloadEntries follows the existence of the
\* Service, EnvoyFilters and Routes follow its ports, and only a change of what
\* the rules match is pushed, to the kinds of TriggerXDSPush.
Unwatched(s) ==
    {k \in {"ServiceEntry", "WorkloadEntry"} :
        (store[s] = NoService) # (cluster[s] = NoService)}
    \cup {k \in {"EnvoyFilter", "Route"} :
            /\ StaysExported(s)
            /\ store[s].ports # cluster[s].ports
            /\ ~WillFind(k, s)}
    \cup {k \in ListingKinds : StaysExported(s) /\ Misses(k, s)}

InformerStep(s) ==
    /\ AddFunc(s) \/ UpdateFunc(s) \/ DeleteFunc(s)
    /\ unseen' = unseen \cup Unwatched(s)
    /\ entered' = {e \in entered : e[2] # s \/ cluster[s] = NoService}
    /\ UNCHANGED <<clientVars, resolverVars, resources, rmPc, initial, failed,
                   current, round, found, plan, boundVars>>

\* The worker takes an event, or hands a request to the discovery server.
WorkerStep ==
    /\ ProcessNextItem \/ SendFdsPush
    /\ UNCHANGED <<clientVars, resolverVars, managerVars, boundVars, entered>>

\* The worker hands a request to the manager.
McpPush ==
    /\ SendMcpPush
    /\ ReceiveRequest(Head(pushes), store, imported, dns)
    /\ UNCHANGED <<clientVars, resolverVars, boundVars, entered>>

\* A client connects, or is started again by its timer.
Connect(c) ==
    /\ Run(c, 1) \/ Restart(c)
    /\ UNCHANGED <<controllerVars, resolverVars, managerVars, boundVars, entered>>

\* A response of remote c arrives.
Receive(c, res) ==
    /\ updates < MaxUpdates
    /\ updates' = updates + 1
    /\ Handle(c, res)
    /\ entered' = {e \in entered : e[1] # c \/ e[2] \in Hosts(res)}
    /\ UNCHANGED <<controllerVars, resolverVars, managerVars, changes, faults>>

\* Client c hands a request to the manager.
ImportPush(c) ==
    /\ SendImportPush(c)
    /\ ReceiveRequest(Head(sends[c]), store, imported, dns)
    /\ UNCHANGED <<controllerVars, resolverVars, boundVars, entered>>

\* The resolver makes its lookups.
ResolverStep ==
    /\ StartResolver \/ Tick
    /\ UNCHANGED <<controllerVars, clientVars, managerVars, boundVars, entered>>

\* The resolver hands a request to the manager.
ResolverPush ==
    /\ SendResolverPush
    /\ ReceiveRequest("WorkloadEntry", store, imported, dns)
    /\ UNCHANGED <<controllerVars, clientVars, boundVars, entered>>

\* The DNS changes. The resolver misses it before its first lookups, if the name
\* is no first address, and if the IPs are again those of its last lookups.
DnsChanges(name, ips) ==
    /\ changes < MaxChanges
    /\ changes' = changes + 1
    /\ ChangeRecords(name, ips)
    /\ unseen' = IF /\ name \in Range(FirstAddresses)
                    /\ Notices(dns')
                 THEN unseen ELSE unseen \cup {"WorkloadEntry"}
    /\ UNCHANGED <<controllerVars, clientVars, resources, rmPc, initial, failed,
                   current, round, found, plan, updates, faults, entered>>

\* The remote-service pairs whose entry r is.
EnteredBy(r) ==
    {e \in Clients \X Services :
        /\ e[2] \in Hosts(imported[e[1]])
        /\ store[e[2]] = NoService
        /\ r.key[2] = EntryName([hostname |-> e[2]], e[1])}

ManagerStep ==
    /\ \/ \E k \in initial : ReconcileNext(k, store, imported, dns)
       \/ ListSelector(store, imported, dns)
       \/ \E r \in plan.apply : ApplyResource(r)
       \/ \E r \in plan.delete : DeleteResource(r)
       \/ ReconcileReturns
       \/ Start
    /\ entered' = IF current = "ServiceEntry"
                  THEN entered \cup UNION {EnteredBy(r) : r \in plan.apply \ plan'.apply}
                  ELSE entered
    /\ UNCHANGED <<controllerVars, clientVars, resolverVars, boundVars>>

-----------------------------------------------------------------------------
(* Faults.                                                                 *)

StreamFails(c) ==
    /\ Fault("stream")
    /\ RunFails(c) \/ RecvFails(c)
    /\ UNCHANGED <<controllerVars, resolverVars, managerVars, entered>>

CallFails ==
    /\ Fault("api")
    /\ ReconcileFails
    /\ UNCHANGED <<controllerVars, clientVars, resolverVars, entered>>

ListerFails ==
    /\ Fault("list")
    /\ ListFails(store, imported, dns)
    /\ UNCHANGED <<controllerVars, clientVars, resolverVars, entered>>

NewProcess ==
    /\ ControllerRestart
    /\ ManagerRestart
    /\ ResolverRestart
    /\ phase' = [c \in Clients |-> "run"]
    /\ stream' = [c \in Clients |-> 0]
    /\ imported' = [c \in Clients |-> {}]
    /\ received' = [c \in Clients |-> FALSE]
    /\ sends' = [c \in Clients |-> <<>>]
    /\ dropped' = [c \in Clients |-> FALSE]
    /\ entered' = {}

\* Kubernetes starts the container again after Fatalf.
FatalRestart ==
    /\ Fatal
    /\ NewProcess
    /\ UNCHANGED boundVars

ProcessRestarts ==
    /\ Fault("restart")
    /\ NewProcess

EnvironmentStep ==
    \/ \E s \in Services, obj \in Object \cup {NoService} : UserChanges(s, obj)
    \/ \E name \in Names, ips \in Answers : DnsChanges(name, ips)
    \/ \E c \in Clients, res \in Responses : Receive(c, res)
    \/ \E c \in Clients : StreamFails(c)
    \/ CallFails
    \/ ListerFails
    \/ ProcessRestarts

Next ==
    \/ \E s \in Services : InformerStep(s)
    \/ WorkerStep
    \/ McpPush
    \/ \E c \in Clients : Connect(c) \/ ImportPush(c)
    \/ ResolverStep
    \/ ResolverPush
    \/ ManagerStep
    \/ FatalRestart
    \/ EnvironmentStep

Spec == Init /\ [][Next]_vars

\* Every goroutine that can take a step takes one in the end.
Fairness ==
    /\ \A s \in Services : WF_vars(InformerStep(s))
    /\ WF_vars(WorkerStep)
    /\ WF_vars(McpPush)
    /\ \A c \in Clients : WF_vars(Connect(c)) /\ WF_vars(ImportPush(c))
    /\ WF_vars(ResolverStep)
    /\ WF_vars(ResolverPush)
    /\ WF_vars(ManagerStep)
    /\ WF_vars(FatalRestart)

FairSpec == Spec /\ Fairness

-----------------------------------------------------------------------------
(* Properties.                                                             *)

\* Something is under way that makes the manager reconcile kind k once more.
Requested(k) ==
    \/ rmPc = "all" /\ k \in initial
    \/ k \in Range(TriggerXDSPush) /\ \E j \in DOMAIN queue : Triggers(queue[j])
    \/ k \in Range(pushes)
    \/ \E c \in Clients : k \in Range(sends[c])
    \/ k = "WorkloadEntry" /\ Notices(dns)

\* Nothing that concerns kind k is going on.
Settled(k) ==
    /\ rmPc = "loop"
    /\ current = "none"
    /\ store = cluster
    /\ ~Requested(k)
    /\ k = "WorkloadEntry" => rsPc # "start"

\* What the factory of kind k returns if nothing changes meanwhile.
Wanted(k) == Desired(k, ExportedServices(store), store, imported, dns)

\* The API server has exactly the wanted resources; old Routes may be left.
InSync(k) ==
    \E d \in Wanted(k) :
        IF k = "Route" THEN d \subseteq resources[k] ELSE d = resources[k]

\* Once nothing is under way for a kind, its resources are those that the factory
\* derives from the current Services and imports, unless the last Reconcile
\* failed, an input changed that the code does not watch, or a Service moved from
\* a selector still to be listed to one that had been: no push request is lost
\* between the senders, the startup and the manager, and no stale resource
\* survives a delete, a crash in the middle of a Reconcile or a restart.
SettledResourcesMatch ==
    \A k \in Reconcilers : Settled(k) /\ k \notin unseen => InSync(k)

\* Every call to the API server serves what is wanted when it is made: it writes
\* only wanted resources and takes away no key of a wanted one, not even for the
\* time until a later call, unless the kind is about to be reconciled again or
\* is behind already. The calls follow a plan that was made from earlier inputs,
\* and the inputs change at any time.
CallsServeWanted ==
    [][\A k \in Reconcilers :
          \/ resources'[k] = resources[k]
          \/ Requested(k) \/ k \in unseen
          \/ \E d \in Wanted(k) :
                /\ resources'[k] \ resources[k] \subseteq d
                /\ \A q \in resources[k], r \in d :
                      q.key = r.key => \E n \in resources'[k] : n.key = r.key]_vars

\* While a service stays imported from a remote and has no local Service, its
\* ServiceEntry stays: no later Reconcile, finished or failed, and no broken
\* stream takes it away.
EnteredImportsStay ==
    \A e \in entered :
        \E r \in resources["ServiceEntry"] :
            r.key[2] = EntryName([hostname |-> e[2]], e[1])

\* Once users, remotes and faults are quiet, every push request is taken and every
\* kind becomes settled for ever, with the resources that are wanted: the worker,
\* the clients and the manager, which meet on one unbuffered channel, never wait
\* for each other for ever.
ResourcesConverge ==
    <>[](/\ pushes = <<>>
         /\ \A c \in Clients : sends[c] = <<>>
         /\ \A k \in Reconcilers : Settled(k) /\ (k \in unseen \/ InSync(k)))

-----------------------------------------------------------------------------
(* What comments and documents say and the code does not do.               *)

\* "When a controller receives an update from Kubernetes about a `Service` matching
\* export rules, it is exposed on a federation ingress gateway": once nothing is
\* under way, the Gateway has the hosts of all exported Services. A Service whose
\* labels change between the lists of two selectors may be in neither.
MatchingServicesAreExposed ==
    Settled("Gateway") =>
        \A g \in resources["Gateway"] : Exported(store) \subseteq g.spec

=============================================================================
