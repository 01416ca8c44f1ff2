-------------------------- MODULE ReconcilerManager --------------------------
(***************************************************************************)
(* ReconcilerManager and the reconcilers of the seven kinds of resources.  *)
(*                                                                         *)
(* At startup ReconcileAll runs every reconciler once, in the order of a   *)
(* Go map; then Start runs one reconciler per push request. A Reconcile    *)
(* computes the resources of its kind, lists those of the API server and   *)
(* makes its calls one by one; an error ends it, and nothing repeats it.   *)
(* The exported Services are listed one label selector at a time, a step   *)
(* each, because the informer may change its store in between.             *)
(* Actions take the Services of the lister, the imported services and the  *)
(* answers of the DNS as parameters and constrain the variables of this    *)
(* module only.                                                            *)
(***************************************************************************)
EXTENDS ConfigFactory

Kinds == {"Gateway", "ServiceEntry", "WorkloadEntry", "PeerAuthentication",
          "DestinationRule", "EnvoyFilter", "Route"}

\* The reconcilers that startReconciler creates.
Reconcilers ==
    {"Gateway", "ServiceEntry", "WorkloadEntry", "PeerAuthentication"}
    \cup (IF \E r \in Peers : Remotes[r].router THEN {"DestinationRule"} ELSE {})
    \cup (IF Local.router THEN {"EnvoyFilter", "Route"} ELSE {})

\* The kinds whose factories list the exported Services.
ListingKinds == {"Gateway", "EnvoyFilter", "Route"}

VARIABLES
    resources,   \* the resources of every kind in the API server (external)
    rmPc,        \* "all": in ReconcileAll; "loop": in the loop of Start
    initial,     \* the kinds that ReconcileAll has not come to yet
    failed,      \* whether an error was returned in ReconcileAll
    current,     \* the kind that is being reconciled, or "none"
    round,       \* the selector that it lists next, 0 if it is not listing
    found,       \* the Services, with their ports, that its lists have returned
    plan,        \* the calls that this Reconcile has not made yet
    unseen       \* history: the kinds whose inputs have changed, without a push
                 \* request, since they were read, which have missed a Service
                 \* between two lists, or whose Reconcile failed

managerVars ==
    <<resources, rmPc, initial, failed, current, round, found, plan, unseen>>

NoPlan == [apply |-> {}, delete |-> {}]

UniqueKeys(set) == \A r, q \in set : r.key = q.key => r = q

ManagerTypeOK ==
    /\ DOMAIN resources = Kinds
    /\ \A k \in Kinds : UniqueKeys(resources[k])
    /\ rmPc \in {"all", "loop"}
    /\ initial \subseteq Reconcilers
    /\ failed \in BOOLEAN
    /\ current \in Reconcilers \cup {"none"}
    /\ round \in Nat
    /\ found \subseteq Services \X PortLists
    /\ round # 0 => current \in ListingKinds /\ plan = NoPlan
    /\ DOMAIN plan = {"apply", "delete"}
    /\ current = "none" => plan = NoPlan
    /\ unseen \subseteq Kinds

ManagerInit ==
    /\ resources = [k \in Kinds |-> {}]
    /\ rmPc = "all"
    /\ initial = Reconcilers
    /\ failed = FALSE
    /\ current = "none"
    /\ round = 0
    /\ found = {}
    /\ plan = NoPlan
    /\ unseen = {}

\* The initial events of the informer are relied upon to reconcile everything.
ManagerRestartWithoutReconcileAll ==
    /\ rmPc' = "loop"
    /\ initial' = {}
    /\ failed' = FALSE
    /\ current' = "none"
    /\ round' = 0
    /\ found' = {}
    /\ plan' = NoPlan
    /\ unseen' = {}
    /\ UNCHANGED resources

\* A new process. The resources of the API server stay.
ManagerRestart ==
    /\ rmPc' = "all"
    /\ initial' = Reconcilers
    /\ failed' = FALSE
    /\ current' = "none"
    /\ round' = 0
    /\ found' = {}
    /\ plan' = NoPlan
    /\ unseen' = {}
    /\ UNCHANGED resources

-----------------------------------------------------------------------------
(* The calls of every reconciler. Resources carry PeerLabel.               *)

PeerLabel == "federation.openshift-service-mesh.io/peer"

ListByLabel(k, label) == {r \in resources[k] : label = PeerLabel}

\* Nothing is deleted.
SyncWithoutDelete(desired, old) == [apply |-> desired \ old, delete |-> {}]

\* What is missing or different is applied, what is no longer wanted deleted.
Sync(desired, old) ==
    [apply |-> desired \ old,
     delete |-> {o \in old : \A d \in desired : d.key # o.key}]

GatewayPlans(all) ==
    {[apply |-> {IngressGateway(all)}, delete |-> {}]}

PeerAuthenticationPlans ==
    {[apply |-> {Resource(Local.pod, <<"fds", "strict", "mtls">>, "STRICT")},
      delete |-> {}]}

ServiceEntryPlans(services, imports) ==
    {Sync(d, ListByLabel("ServiceEntry", PeerLabel)) :
        d \in ServiceEntries(services, imports)}

WorkloadEntryPlans(services, imports, dns) ==
    {Sync(d, ListByLabel("WorkloadEntry", PeerLabel)) :
        d \in WorkloadEntries(services, imports, dns)}

DestinationRulePlans(imports) ==
    {IF d = {} THEN NoPlan
     ELSE Sync(d, ListByLabel("DestinationRule", PeerLabel)) :
        d \in DestinationRules(imports)}

EnvoyFilterPlans(all) ==
    {IF d = {} THEN NoPlan ELSE Sync(d, ListByLabel("EnvoyFilter", PeerLabel)) :
        d \in EnvoyFilters(all)}

\* Routes are listed by another label, one that they do not carry.
RoutePlans(all) ==
    {Sync(d, ListByLabel("Route", "federation.openshift.io/peer")) :
        d \in Routes(all)}

\* all is what the lists of all selectors have returned.
Plans(k, all, services, imports, dns) ==
    CASE k = "Gateway"            -> GatewayPlans(all)
      [] k = "PeerAuthentication" -> PeerAuthenticationPlans
      [] k = "ServiceEntry"       -> ServiceEntryPlans(services, imports)
      [] k = "WorkloadEntry"      -> WorkloadEntryPlans(services, imports, dns)
      [] k = "DestinationRule"    -> DestinationRulePlans(imports)
      [] k = "EnvoyFilter"        -> EnvoyFilterPlans(all)
      [] k = "Route"              -> RoutePlans(all)

-----------------------------------------------------------------------------
(* One Reconcile.                                                          *)

\* The rounds before round n have found set. The factory goes on with round n, or
\* returns, and the Reconcile knows its calls.
Loop(k, set, n, services, imports, dns) ==
    IF k \in ListingKinds /\ n <= Len(GetLabelSelectors)
    THEN /\ round' = n
         /\ found' = set
         /\ plan' = NoPlan
    ELSE /\ round' = 0
         /\ found' = {}
         /\ plan' \in Plans(k, set, services, imports, dns)

Reconcile(k, services, imports, dns) ==
    /\ current = "none"
    /\ current' = k
    /\ Loop(k, {}, 1, services, imports, dns)
    /\ unseen' = unseen \ {k}

\* A list replaces the ones before instead of being appended to them.
ListSelectorOnly(services, imports, dns) ==
    /\ round # 0
    /\ Loop(current, ListServices(services, round), round + 1, services, imports, dns)
    /\ UNCHANGED <<resources, rmPc, initial, failed, current, unseen>>

\* A round of the loop over the selectors.
ListSelector(services, imports, dns) ==
    /\ round # 0
    /\ Loop(current, found \cup ListServices(services, round), round + 1,
            services, imports, dns)
    /\ UNCHANGED <<resources, rmPc, initial, failed, current, unseen>>

\* An update deletes the old resource and creates the new one.
ApplyRecreates(r) ==
    /\ r \in plan.apply
    /\ IF \E q \in resources[current] : q.key = r.key
       THEN /\ resources' = [resources EXCEPT ![current] = {q \in @ : q.key # r.key}]
            /\ UNCHANGED plan
       ELSE /\ resources' = [resources EXCEPT ![current] = @ \cup {r}]
            /\ plan' = [plan EXCEPT !.apply = @ \ {r}]
    /\ UNCHANGED <<rmPc, initial, failed, current, round, found, unseen>>

ApplyResource(r) ==
    /\ r \in plan.apply
    /\ resources' = [resources EXCEPT ![current] =
                        {q \in @ : q.key # r.key} \cup {r}]
    /\ plan' = [plan EXCEPT !.apply = @ \ {r}]
    /\ UNCHANGED <<rmPc, initial, failed, current, round, found, unseen>>

DeleteResource(r) ==
    /\ plan.apply = {}
    /\ r \in plan.delete
    /\ resources' = [resources EXCEPT ![current] = {q \in @ : q.key # r.key}]
    /\ plan' = [plan EXCEPT !.delete = @ \ {r}]
    /\ UNCHANGED <<rmPc, initial, failed, current, round, found, unseen>>

ReconcileReturns ==
    /\ current # "none"
    /\ round = 0
    /\ plan = NoPlan
    /\ current' = "none"
    /\ UNCHANGED <<resources, rmPc, initial, failed, round, found, plan, unseen>>

\* The error of the factory is not returned: nothing is wanted.
ReconcileIgnoresError ==
    /\ current # "none"
    /\ round = 0
    /\ plan' = Sync({}, ListByLabel(current, PeerLabel))
    /\ failed' = (failed \/ rmPc = "all")
    /\ unseen' = unseen \cup {current}
    /\ UNCHANGED <<resources, rmPc, initial, current, round, found>>

\* The list of the exported Services fails in the loop over the selectors. The
\* factories of Gateways and Routes return the error; that of EnvoyFilters prints
\* it and goes on, without the Services of this selector.
ListFails(services, imports, dns) ==
    /\ round # 0
    /\ IF current = "EnvoyFilter"
       THEN /\ Loop(current, found, round + 1, services, imports, dns)
            /\ UNCHANGED <<current, failed>>
       ELSE /\ current' = "none"
            /\ round' = 0
            /\ found' = {}
            /\ failed' = (failed \/ rmPc = "all")
            /\ UNCHANGED plan
    /\ unseen' = unseen \cup {current}
    /\ UNCHANGED <<resources, rmPc, initial>>

\* Another factory, the list of the old resources or a call fails. ReconcileAll
\* collects the error; Start logs it.
ReconcileFails ==
    /\ current # "none"
    /\ round = 0
    /\ current' = "none"
    /\ plan' = NoPlan
    /\ failed' = (failed \/ rmPc = "all")
    /\ unseen' = unseen \cup {current}
    /\ UNCHANGED <<resources, rmPc, initial, round, found>>

-----------------------------------------------------------------------------
(* ReconcileAll and Start.                                                 *)

ReconcileNext(k, services, imports, dns) ==
    /\ rmPc = "all"
    /\ k \in initial
    /\ Reconcile(k, services, imports, dns)
    /\ initial' = initial \ {k}
    /\ UNCHANGED <<resources, rmPc, failed>>

Start ==
    /\ rmPc = "all"
    /\ initial = {}
    /\ current = "none"
    /\ ~failed
    /\ rmPc' = "loop"
    /\ UNCHANGED <<resources, initial, failed, current, round, found, plan, unseen>>

\* initial Istio resource reconciliation failed: the process exits.
Fatal ==
    /\ rmPc = "all"
    /\ initial = {}
    /\ current = "none"
    /\ failed

\* Only requests for kinds that have a reconciler are received.
ReceiveRegisteredOnly(k, services, imports, dns) ==
    /\ rmPc = "loop"
    /\ current = "none"
    /\ k \in Reconcilers
    /\ Reconcile(k, services, imports, dns)
    /\ UNCHANGED <<resources, rmPc, initial, failed>>

\* The kind is not looked up in the map of the reconcilers.
ReceiveUnchecked(k, services, imports, dns) ==
    /\ rmPc = "loop"
    /\ current = "none"
    /\ Reconcile(k, services, imports, dns)
    /\ UNCHANGED <<resources, rmPc, initial, failed>>

\* A push request arrives; a kind without a reconciler is logged.
ReceiveRequest(k, services, imports, dns) ==
    /\ rmPc = "loop"
    /\ current = "none"
    /\ IF k \in Reconcilers
       THEN Reconcile(k, services, imports, dns)
       ELSE UNCHANGED <<current, round, found, plan, unseen>>
    /\ UNCHANGED <<resources, rmPc, initial, failed>>

-----------------------------------------------------------------------------
(* What the calls of a Reconcile lead to.                                  *)

\* The sets of resources that the factory of kind k may return.
Desired(k, all, services, imports, dns) ==
    CASE k = "Gateway"            -> {{IngressGateway(all)}}
      [] k = "PeerAuthentication" -> {p.apply : p \in PeerAuthenticationPlans}
      [] k = "ServiceEntry"       -> ServiceEntries(services, imports)
      [] k = "WorkloadEntry"      -> WorkloadEntries(services, imports, dns)
      [] k = "DestinationRule"    -> DestinationRules(imports)
      [] k = "EnvoyFilter"        -> EnvoyFilters(all)
      [] k = "Route"              -> Routes(all)

\* The factory of kind k is in its loop over the selectors.
Listing(k) == current = k /\ round # 0

\* The calls that are yet to be made for kind k.
PlanOf(k) == IF current = k THEN plan ELSE NoPlan

\* The calls of p turn the resources old into d, or, of Routes, into d and more.
Reaches(k, p, old, d) ==
    /\ p.apply \subseteq d
    /\ d \ p.apply \subseteq old
    /\ \A o \in p.delete, r \in d : o.key # r.key
    /\ k # "Route" =>
          \A q \in old : q \in d \cup p.delete \/ \E r \in p.apply : r.key = q.key

\* The key of a kind that has one resource.
FixedKey(k) ==
    IF k = "Gateway"
    THEN <<Local.controlPlane, <<"federation", "ingress", "gateway">>>>
    ELSE <<Local.pod, <<"fds", "strict", "mtls">>>>

\* Of these kinds nothing but the one resource is ever created.
FixedKeys ==
    \A k \in {"Gateway", "PeerAuthentication"} :
        \A q \in resources[k] \cup PlanOf(k).apply : q.key = FixedKey(k)

=============================================================================
