----------------------------- MODULE MeshProofs -----------------------------
(***************************************************************************)
(* The proofs of SettledResourcesMatch and CallsServeWanted from the       *)
(* invariant SyncInv.                                                      *)
(***************************************************************************)
EXTENDS MeshTypes

-----------------------------------------------------------------------------
(* What is wanted, and which steps change it.                              *)

LEMMA FoundExported ==
    ASSUME NEW st
    PROVE  Found(ExportedServices(st)) = Exported(st)
<1>1. ASSUME NEW t PROVE t \in Found(ExportedServices(st)) <=> t \in Exported(st)
  <2>1. \A x \in Exported(st) : <<x, st[x].ports>>[1] = x
    OBVIOUS
  <2> QED
    BY <2>1, Zenon DEF Found, ExportedServices
<1> QED
  BY <1>1, Zenon

\* What is wanted follows the inputs of a kind.
LEMMA WantedInputs ==
    ASSUME NEW k \in Reconcilers,
           k \in ListingKinds => Exported(store') = Exported(store),
           k \in {"EnvoyFilter", "Route"} => \A t \in Exported(store) : store'[t].ports = store[t].ports,
           k = "ServiceEntry" => Missing(store', imported') = Missing(store, imported),
           k = "WorkloadEntry" => /\ Present(store', imported') = Present(store, imported)
                                  /\ dns' = dns,
           k = "DestinationRule" => imported' = imported
    PROVE  Wanted(k)' = Wanted(k)
<1>1. k = "Gateway" =>
          Found(ExportedServices(store')) = Found(ExportedServices(store))
  BY FoundExported, Zenon DEF ListingKinds
<1>2. ASSUME k \in {"EnvoyFilter", "Route"}
      PROVE  ExportedServices(store') = ExportedServices(store)
  BY <1>2, Zenon DEF ListingKinds, ExportedServices
<1>3. k \in {"EnvoyFilter", "Route"} =>
          ExposedPorts(ExportedServices(store')) = ExposedPorts(ExportedServices(store))
  BY <1>2, Zenon
<1> QED
  BY <1>1, <1>3, DesiredInputs DEF Wanted

\* A change that the handler of its event does not push leaves the exported
\* Services as they are.
LEMMA ExportChangeTriggers ==
    ASSUME ControllerTypeOK, NEW s \in Services,
           AddFunc(s) \/ UpdateFunc(s) \/ DeleteFunc(s)
    PROVE  \E event \in Event :
             /\ queue' = Append(queue, event)
             /\ ~Triggers(event) => Exported(store') = Exported(store)
<1> USE DEF ControllerTypeOK, ServiceMap
<1>1. store' = [store EXCEPT ![s] = cluster[s]]
  BY Zenon DEF AddFunc, UpdateFunc, DeleteFunc, Enqueue
<1>2. \A t \in Services : t # s => store'[t] = store[t]
  BY <1>1
<1>3. store'[s] = cluster[s]
  BY <1>1
<1> DEFINE Is(st) == st[s] # NoService /\ MatchExportRules(st[s])
<1>4. (Is(store) <=> Is(store')) => Exported(store') = Exported(store)
  <2>1. ASSUME Is(store) <=> Is(store'), NEW t
        PROVE  t \in Exported(store') <=> t \in Exported(store)
    BY <1>2, <2>1, Zenon DEF Exported
  <2> QED
    BY <2>1, Zenon
<1> HIDE DEF Is
<1>5. CASE AddFunc(s)
  <2> DEFINE event == [eventType |-> "create", key |-> s, obj |-> cluster[s],
                       oldObj |-> NoService]
  <2>1. event \in Event /\ queue' = Append(queue, event)
    BY <1>5 DEF AddFunc, Enqueue, Event
  <2>2. Triggers(event) <=> MatchExportRules(cluster[s])
    BY DEF Triggers, TriggerXDSPushIfMatchRules
  <2>3. ~Is(store) /\ (Is(store') => Triggers(event))
    BY <1>3, <1>5, <2>2, Zenon DEF AddFunc, Is
  <2> QED
    BY <1>4, <2>1, <2>3, Zenon
<1>6. CASE UpdateFunc(s)
  <2> DEFINE event == [eventType |-> "update", key |-> s, obj |-> cluster[s],
                       oldObj |-> store[s]]
  <2>1. event \in Event /\ queue' = Append(queue, event)
    BY <1>6 DEF UpdateFunc, Enqueue, Event
  <2>2. Triggers(event) <=>
          (MatchExportRules(store[s]) # MatchExportRules(cluster[s]))
    BY DEF Triggers, TriggerXDSPushIfMatchRules
  <2>3. (Is(store) <=> MatchExportRules(store[s]))
        /\ (Is(store') <=> MatchExportRules(cluster[s]))
    BY <1>3, <1>6 DEF UpdateFunc, Is
  <2>4. MatchExportRules(store[s]) \in BOOLEAN
        /\ MatchExportRules(cluster[s]) \in BOOLEAN
    BY Zenon DEF MatchExportRules
  <2>5. ~Triggers(event) => (Is(store) <=> Is(store'))
    BY <2>2, <2>3, <2>4
  <2> QED
    BY <1>4, <2>1, <2>5, Zenon
<1>7. CASE DeleteFunc(s)
  <2> DEFINE event == [eventType |-> "delete", key |-> s, obj |-> store[s],
                       oldObj |-> NoService]
  <2>1. event \in Event /\ queue' = Append(queue, event)
    BY <1>7 DEF DeleteFunc, Enqueue, Event
  <2>2. Triggers(event) <=> MatchExportRules(store[s])
    BY DEF Triggers, TriggerXDSPushIfMatchRules
  <2>3. ~Is(store') /\ (Is(store) => Triggers(event))
    BY <1>3, <1>7, <2>2, Zenon DEF DeleteFunc, Is
  <2> QED
    BY <1>4, <2>1, <2>3, Zenon
<1> QED
  BY <1>5, <1>6, <1>7, Zenon

-----------------------------------------------------------------------------
(* What the lists of the selectors find.                                   *)

\* Nothing has been listed yet.
LEMMA FoundNothing ==
    ASSUME NEW k PROVE FoundSoFar(k, {}, 1)
<1>1. Found({}) = {}
  BY Zenon DEF Found
<1>2. ASSUME NEW t \in Exported(store) PROVE \E m \in Selected(store[t]) : m >= 1
  <2>1. PICK m : m \in Selected(store[t])
    BY ExportedSelected, Zenon DEF Exported
  <2>2. m \in Nat /\ m >= 1
    BY <2>1, SelectorNumbers DEF Selected
  <2> QED
    BY <2>1, <2>2, Zenon
<1> QED
  BY <1>1, <1>2, Zenon DEF FoundSoFar

\* One more selector.
LEMMA FoundNext ==
    ASSUME NEW k, NEW set, NEW n \in Nat, FoundSoFar(k, set, n)
    PROVE  FoundSoFar(k, set \cup ListServices(store, n), n + 1)
<1> DEFINE new == ListServices(store, n)
           next == n + 1
<1>1. /\ Found(set) \subseteq Exported(store)
      /\ k # "Gateway" => \A f \in set : f[2] = store[f[1]].ports
      /\ \A t \in Exported(store) \ Found(set) : \E m \in Selected(store[t]) : m >= n
  BY Zenon DEF FoundSoFar
<1> HIDE DEF next
<1>2. /\ \A f \in new :
            /\ f[1] \in Services /\ store[f[1]] # NoService /\ n \in Selected(store[f[1]])
            /\ f[2] = store[f[1]].ports
      /\ \A t \in Services :
            store[t] # NoService /\ n \in Selected(store[t]) => t \in Found(new)
  BY ListServicesFacts, Zenon
<1>3. \A t \in Services : t \in Exported(store) <=>
          store[t] # NoService /\ Selected(store[t]) # {}
  BY ExportedSelected, Zenon
<1> HIDE DEF new
<1>4. Found(set \cup new) = Found(set) \cup Found(new)
  BY Zenon DEF Found
<1>5. Found(new) \subseteq Exported(store)
  BY <1>2, <1>3, Zenon DEF Found
<1>6. ASSUME NEW t \in Exported(store), t \notin Found(set), t \notin Found(new)
      PROVE  \E m \in Selected(store[t]) : m >= next
  <2>1. PICK m \in Selected(store[t]) : m >= n
    BY <1>1, <1>6, Zenon
  <2>2. m # n
    BY <1>2, <1>3, <1>6, <2>1, Zenon DEF Exported
  <2>3. m \in Nat
    BY <2>1, SelectorNumbers DEF Selected
  <2>4. m >= next
    BY <2>1, <2>2, <2>3 DEF next
  <2> QED
    BY <2>1, <2>4, Zenon
<1> QED
  BY <1>1, <1>2, <1>4, <1>5, <1>6, Zenon DEF FoundSoFar, new, next

\* After the last selector the factory returns what is wanted.
LEMMA FoundAll ==
    ASSUME NEW k \in Reconcilers, NEW set, NEW n \in Nat, n > Len(GetLabelSelectors),
           k \in ListingKinds => FoundSoFar(k, set, n)
    PROVE  Desired(k, set, store, imported, dns) = Wanted(k)
<1> DEFINE all == ExportedServices(store)
<1>1. ASSUME k \in ListingKinds PROVE Found(set) = Exported(store)
  <2>1. ASSUME NEW t \in Exported(store) PROVE t \in Found(set)
    <3>1. \A m \in Selected(store[t]) : ~(m >= n)
      BY SelectorNumbers DEF Selected
    <3> QED
      BY <1>1, <3>1, Zenon DEF FoundSoFar
  <2> QED
    BY <1>1, <2>1, Zenon DEF FoundSoFar
<1>2. ASSUME k \in {"EnvoyFilter", "Route"} PROVE ExposedPorts(set) = ExposedPorts(all)
  <2> DEFINE of(f) == {f[1]} \X f[2]
  <2>1. Found(set) = Exported(store) /\ \A f \in set : f[2] = store[f[1]].ports
    BY <1>1, <1>2 DEF FoundSoFar, ListingKinds
  <2>2. ASSUME NEW f \in set PROVE \E g \in all : of(g) = of(f)
    <3>1. f[1] \in Exported(store) /\ f[2] = store[f[1]].ports
      BY <2>1, Zenon DEF Found
    <3>2. PICK g \in all : g = <<f[1], store[f[1]].ports>>
      BY <3>1, Zenon DEF ExportedServices
    <3>3. g[1] = f[1] /\ g[2] = f[2]
      BY <3>1, <3>2
    <3> QED
      BY <3>3, Zenon
  <2>3. ASSUME NEW g \in all PROVE \E f \in set : of(f) = of(g)
    <3>1. PICK x \in Exported(store) : g = <<x, store[x].ports>>
      BY Zenon DEF ExportedServices
    <3>2. PICK f \in set : f[1] = x
      BY <2>1, <3>1, Zenon DEF Found
    <3>3. f[1] = g[1] /\ f[2] = g[2]
      BY <2>1, <3>1, <3>2
    <3> QED
      BY <3>2, <3>3, Zenon
  <2>4. \A x : ExposedPorts(x) =
                   {<<DiscoveryService(Local.name, IstioSystem), DiscoveryPort>>}
                   \cup UNION {of(f) : f \in x}
    BY DEF ExposedPorts
  <2> HIDE DEF of, all
  <2>5. {of(f) : f \in set} = {of(f) : f \in all}
    <3>1. \A y : (\E f \in set : y = of(f)) <=> (\E f \in all : y = of(f))
      BY <2>2, <2>3, Zenon
    <3> QED
      BY <3>1, Zenon
  <2> QED
    BY <2>4, <2>5, Zenon
<1>3. k = "Gateway" => Found(set) = Found(all)
  BY <1>1, FoundExported, Zenon DEF ListingKinds
<1> HIDE DEF all
<1> QED
  BY <1>2, <1>3, DesiredInputs DEF Wanted, all

-----------------------------------------------------------------------------
(* Every kind has a request under way or reaches what is wanted.           *)

KindsReach == \A k \in Reconcilers : Pending(k) \/ UpToDate(k)

\* The resources of a kind are still on their way if neither they, nor the calls,
\* nor what is wanted change.
LEMMA SameReach ==
    ASSUME NEW k, PlansReach(k), Wanted(k)' = Wanted(k), PlanOf(k)' = PlanOf(k),
           resources'[k] = resources[k]
    PROVE  PlansReach(k)'
  BY Zenon DEF PlansReach

LEMMA SameInputs ==
    ASSUME UNCHANGED <<store, imported, dns>>, NEW k
    PROVE  Wanted(k)' = Wanted(k)
  BY Zenon DEF Wanted

\* A kind that is not being listed stays on its way.
LEMMA SameUpToDate ==
    ASSUME NEW k, UpToDate(k), UNCHANGED <<store, imported, dns>>,
           PlanOf(k)' = PlanOf(k), resources'[k] = resources[k],
           \/ ~Listing(k) /\ ~Listing(k)'
           \/ UNCHANGED <<current, round, found>>
    PROVE  UpToDate(k)'
<1>1. CASE ~Listing(k) /\ ~Listing(k)'
  BY <1>1, SameInputs, SameReach, Zenon DEF UpToDate
<1>2. CASE UNCHANGED <<current, round, found>>
  <2>1. Listing(k)' <=> Listing(k)
    BY <1>2, Zenon DEF Listing
  <2>2. FoundSoFar(k, found, round)' <=> FoundSoFar(k, found, round)
    BY <1>2, Zenon DEF FoundSoFar
  <2> QED
    BY <2>1, <2>2, SameInputs, SameReach, Zenon DEF UpToDate
<1> QED
  BY <1>1, <1>2, Zenon

\* A Reconcile goes on with the next selector, or has a plan that leads to what is
\* wanted.
LEMMA LoopReach ==
    ASSUME TypeOK, FixedKeys, NEW k \in Reconcilers, NEW set, NEW n \in Nat, n # 0,
           Loop(k, set, n, store, imported, dns), current' = k,
           UNCHANGED <<resources, store, imported, dns>>
    PROVE  /\ FixedKeys'
           /\ (k \in ListingKinds => FoundSoFar(k, set, n)) => UpToDate(k)'
<1>1. NoPlan.apply = {}
  BY DEF NoPlan
<1>2. CASE k \in ListingKinds /\ n <= Len(GetLabelSelectors)
  <2>1. round' = n /\ found' = set /\ plan' = NoPlan
    BY <1>2, Zenon DEF Loop
  <2>2. FixedKeys'
    <3>1. \A j : PlanOf(j)' = NoPlan
      BY <2>1, Zenon DEF PlanOf
    <3> QED
      BY <1>1, <3>1, Zenon DEF FixedKeys, FixedKey
  <2>3. FoundSoFar(k, set, n) => FoundSoFar(k, found, round)'
    BY <2>1, Zenon DEF FoundSoFar
  <2>4. Listing(k)'
    BY <2>1, Zenon DEF Listing
  <2> QED
    BY <1>2, <2>2, <2>3, <2>4, Zenon DEF UpToDate
<1>3. CASE ~(k \in ListingKinds /\ n <= Len(GetLabelSelectors))
  <2>1. round' = 0 /\ plan' \in Plans(k, set, store, imported, dns)
    BY <1>3, Zenon DEF Loop
  <2>2. /\ imported \in [Peers -> SUBSET FederatedService]
        /\ ManagerTypeOK
    BY MeshAssumption, Zenon DEF TypeOK, ClientTypeOK
  <2>3. PICK d \in Desired(k, set, store, imported, dns) : Reaches(k, plan', resources[k], d)
    BY <2>1, <2>2, PlansReachDesired, Zenon
  <2>4. PlanOf(k)' = plan' /\ \A j : j # k => PlanOf(j)' = NoPlan
    BY Zenon DEF PlanOf
  <2>5. FixedKeys'
    <3>1. ASSUME k \in {"Gateway", "PeerAuthentication"}, NEW q \in plan'.apply
          PROVE  q.key = FixedKey(k)
      <4>1. q \in d
        BY <2>3, Zenon DEF Reaches
      <4> QED
        BY <2>3, <3>1, <4>1, DesiredFixedKeys
    <3> QED
      BY <1>1, <2>4, <3>1, Zenon DEF FixedKeys, FixedKey
  <2>6. ASSUME k \in ListingKinds => FoundSoFar(k, set, n) PROVE UpToDate(k)'
    <3>1. d \in Wanted(k)
      <4>1. CASE k \in ListingKinds
        <5>1. n > Len(GetLabelSelectors)
          BY <1>3, <4>1, SelectorNumbers
        <5> QED
          BY <2>3, <2>6, <5>1, FoundAll, Zenon
      <4>2. CASE k \notin ListingKinds
        BY <2>3, <4>2, DesiredInputs DEF Wanted, ListingKinds
      <4> QED
        BY <4>1, <4>2, Zenon
    <3>2. PlansReach(k)'
      BY <2>3, <2>4, <3>1, SameInputs, Zenon DEF PlansReach
    <3>3. ~Listing(k)'
      BY <2>1, Zenon DEF Listing
    <3> QED
      BY <3>2, <3>3, Zenon DEF UpToDate
  <2> QED
    BY <2>5, <2>6, Zenon
<1> QED
  BY <1>2, <1>3, Zenon

\* A new Reconcile reads the current inputs; every other kind keeps its requests.
LEMMA ReconcileReach ==
    ASSUME SyncInv, NEW k, current = "none",
           UNCHANGED <<resources, store, imported, dns>>,
           \/ k \in Reconcilers /\ Reconcile(k, store, imported, dns)
           \/ k \notin Reconcilers /\ UNCHANGED <<current, round, found, plan>>,
           \A j \in Reconcilers : j # k /\ Pending(j) => Pending(j)'
    PROVE  KindsReach' /\ FixedKeys'
<1>0. TypeOK /\ ManagerTypeOK /\ FixedKeys /\ KindsReach
  BY Zenon DEF SyncInv, TypeOK, KindsReach
<1>1. \A j : PlanOf(j) = NoPlan
  BY <1>0, Zenon DEF ManagerTypeOK, PlanOf
<1>2. ASSUME NEW j \in Reconcilers, j # k PROVE Pending(j)' \/ UpToDate(j)'
  <2>1. current' \in {k, "none"} /\ j # "none"
    BY DEF Reconcile, Reconcilers
  <2>2. PlanOf(j)' = NoPlan
    BY <1>0, <1>2, Zenon DEF PlanOf, Reconcile, ManagerTypeOK
  <2>3. ~Listing(j) /\ ~Listing(j)'
    BY <1>2, <2>1 DEF Listing
  <2> QED
    BY <1>0, <1>1, <1>2, <2>2, <2>3, SameUpToDate, Zenon DEF KindsReach
<1>3. CASE k \in Reconcilers
  <2>1. current' = k /\ Loop(k, {}, 1, store, imported, dns)
    BY <1>3, Zenon DEF Reconcile
  <2>2. 1 \in Nat /\ 1 # 0
    OBVIOUS
  <2>3. FixedKeys' /\ UpToDate(k)'
    BY <1>0, <1>3, <2>1, <2>2, FoundNothing, LoopReach, Zenon
  <2> QED
    BY <1>2, <2>3, Zenon DEF KindsReach
<1>4. CASE k \notin Reconcilers
  <2>1. FixedKeys'
    BY <1>0, <1>4, Zenon DEF FixedKeys, FixedKey, PlanOf
  <2> QED
    BY <1>2, <1>4, <2>1, Zenon DEF KindsReach
<1> QED
  BY <1>3, <1>4, Zenon

\* The next selector is listed.
LEMMA ListSelectorReach ==
    ASSUME SyncInv, ListSelector(store, imported, dns),
           UNCHANGED <<store, imported, dns, queue, pushes, sends, prevIPs, rsPc>>
    PROVE  KindsReach' /\ FixedKeys'
<1> DEFINE next == round + 1
           set == found \cup ListServices(store, round)
<1>0. TypeOK /\ ManagerTypeOK /\ FixedKeys /\ KindsReach
  BY Zenon DEF SyncInv, TypeOK, KindsReach
<1>1. /\ round # 0 /\ Loop(current, set, next, store, imported, dns)
      /\ UNCHANGED <<resources, rmPc, initial, current, unseen>>
  BY Zenon DEF ListSelector
<1>2. PICK k \in Reconcilers : k = current /\ k \in ListingKinds
  BY <1>0, <1>1 DEF ManagerTypeOK, ListingKinds
<1>3. round \in Nat /\ next \in Nat /\ next # 0
  BY <1>0 DEF ManagerTypeOK
<1>4. \A j : Pending(j)' <=> Pending(j)
  BY <1>1, Zenon DEF Pending, Requested, Notices
<1>5. FoundSoFar(k, found, round) => FoundSoFar(k, set, next)
  BY <1>3, FoundNext, Zenon
<1> HIDE DEF set, next
<1>6. /\ FixedKeys'
      /\ FoundSoFar(k, set, next) => UpToDate(k)'
  BY <1>0, <1>1, <1>2, <1>3, LoopReach, Zenon
<1>7. Pending(k)' \/ UpToDate(k)'
  <2>1. Listing(k)
    BY <1>1, <1>2, Zenon DEF Listing
  <2> QED
    BY <1>0, <1>4, <1>5, <1>6, <2>1, Zenon DEF KindsReach, UpToDate
<1>8. ASSUME NEW j \in Reconcilers, j # k PROVE Pending(j)' \/ UpToDate(j)'
  <2>1. PlanOf(j) = NoPlan /\ PlanOf(j)' = NoPlan
    BY <1>1, <1>2, <1>8, Zenon DEF PlanOf
  <2>2. ~Listing(j) /\ ~Listing(j)'
    BY <1>1, <1>2, <1>8, Zenon DEF Listing
  <2> QED
    BY <1>0, <1>1, <1>4, <2>1, <2>2, SameUpToDate, Zenon DEF KindsReach
<1> QED
  BY <1>6, <1>7, <1>8, Zenon DEF KindsReach

\* A call brings its kind closer to what is wanted.
LEMMA CallReach ==
    ASSUME SyncInv, NEW r, ApplyResource(r) \/ DeleteResource(r),
           UNCHANGED <<store, imported, dns, queue, pushes, sends, prevIPs, rsPc>>
    PROVE  KindsReach' /\ FixedKeys'
<1>0. TypeOK /\ ManagerTypeOK /\ FixedKeys /\ KindsReach
  BY Zenon DEF SyncInv, TypeOK, KindsReach
<1>1. PICK k \in Reconcilers : k = current /\ k \in Kinds /\ round = 0
  <2>1. r \in plan.apply \/ r \in plan.delete
    BY Zenon DEF ApplyResource, DeleteResource
  <2>2. plan # NoPlan
    BY <2>1 DEF NoPlan
  <2> QED
    BY <1>0, <2>2 DEF ManagerTypeOK, Reconcilers, Kinds
<1>2. UNCHANGED <<current, round, rmPc, initial, unseen>>
  BY Zenon DEF ApplyResource, DeleteResource
<1>3. \A j : Pending(j)' <=> Pending(j)
  BY <1>2, Zenon DEF Pending, Requested, Notices
<1>4. \A j \in Kinds : j # k => resources'[j] = resources[j]
  BY <1>0, <1>1 DEF ApplyResource, DeleteResource, ManagerTypeOK
<1>5. \A j : j # k => PlanOf(j) = NoPlan /\ PlanOf(j)' = NoPlan
  BY <1>1, <1>2, Zenon DEF PlanOf
<1>6. PlanOf(k) = plan /\ PlanOf(k)' = plan'
  BY <1>1, <1>2, Zenon DEF PlanOf
<1>7. \/ /\ r \in plan.apply
         /\ plan'.apply = plan.apply \ {r} /\ plan'.delete = plan.delete
         /\ resources'[k] = {q \in resources[k] : q.key # r.key} \cup {r}
      \/ /\ plan.apply = {} /\ r \in plan.delete
         /\ plan'.apply = plan.apply /\ plan'.delete = plan.delete \ {r}
         /\ resources'[k] = {q \in resources[k] : q.key # r.key}
  BY <1>0, <1>1 DEF ApplyResource, DeleteResource, ManagerTypeOK
<1>8. Reconcilers \subseteq Kinds /\ {"Gateway", "PeerAuthentication"} \subseteq Kinds
  BY DEF Reconcilers, Kinds
<1>9. \A j : ~Listing(j) /\ ~Listing(j)'
  BY <1>1, <1>2, Zenon DEF Listing
<1>10. ASSUME NEW j \in Reconcilers, j # k PROVE Pending(j)' \/ UpToDate(j)'
  BY <1>0, <1>3, <1>4, <1>5, <1>8, <1>10, <1>9, SameUpToDate, Zenon DEF KindsReach
<1>11. ASSUME PlansReach(k) PROVE PlansReach(k)'
  <2>1. PICK d \in Wanted(k) : Reaches(k, plan, resources[k], d)
    BY <1>6, <1>11, Zenon DEF PlansReach
  <2>2. imported \in [Peers -> SUBSET FederatedService]
    BY <1>0, MeshAssumption, Zenon DEF TypeOK, ClientTypeOK
  <2>3. UniqueKeys(d)
    BY <1>1, <2>1, <2>2, DesiredFacts, Zenon DEF Wanted
  <2>4. Reaches(k, plan', resources'[k], d)
    <3>1. CASE r \in plan.apply
      <4>1. /\ plan'.apply = plan.apply \ {r} /\ plan'.delete = plan.delete
            /\ resources'[k] = {q \in resources[k] : q.key # r.key} \cup {r}
        BY <1>7, <3>1, Zenon
      <4> QED
        BY <2>1, <2>3, <3>1, <4>1, ApplyReaches
    <3>2. CASE r \notin plan.apply
      <4>1. /\ plan.apply = {} /\ r \in plan.delete
            /\ plan'.apply = {} /\ plan'.delete = plan.delete \ {r}
            /\ resources'[k] = {q \in resources[k] : q.key # r.key}
        BY <1>7, <3>2, Zenon
      <4> QED
        BY <2>1, <4>1, DeleteReaches
    <3> QED
      BY <3>1, <3>2, Zenon
  <2> QED
    BY <1>6, <2>1, <2>4, SameInputs, Zenon DEF PlansReach
<1>12. KindsReach'
  <2>1. Pending(k)' \/ UpToDate(k)'
    BY <1>0, <1>3, <1>11, <1>9, Zenon DEF KindsReach, UpToDate
  <2> QED
    BY <1>10, <2>1, Zenon DEF KindsReach
<1>13. FixedKeys'
  <2> SUFFICES ASSUME NEW j \in {"Gateway", "PeerAuthentication"},
                      NEW q \in resources'[j] \cup PlanOf(j)'.apply
               PROVE  q.key = FixedKey(j)
    BY Zenon DEF FixedKeys, FixedKey
  <2>1. q \in resources[j] \cup PlanOf(j).apply
    <3>1. CASE j = k
      <4>1. q \in resources'[k] \cup plan'.apply
        BY <1>6, <3>1, Zenon
      <4> QED
        BY <1>6, <1>7, <3>1, <4>1, Zenon
    <3>2. CASE j # k
      BY <1>4, <1>5, <1>8, <3>2, Zenon
    <3> QED
      BY <3>1, <3>2, Zenon
  <2> QED
    BY <1>0, <2>1, Zenon DEF FixedKeys
<1> QED
  BY <1>12, <1>13, Zenon

\* A step that leaves resources, calls and lists alone keeps a kind on its way if
\* it keeps the requests, and makes one for a kind whose inputs it changes.
LEMMA QuietReach ==
    ASSUME SyncInv, UNCHANGED <<resources, current, round, found, plan>>,
           \A k \in Reconcilers : Pending(k) => Pending(k)',
           \A k \in Reconcilers :
              \/ Pending(k)'
              \/ Wanted(k)' = Wanted(k) /\ (store' = store \/ ~Listing(k))
              \/ Listing(k) /\ (FoundSoFar(k, found, round) => FoundSoFar(k, found, round)')
    PROVE  KindsReach' /\ FixedKeys'
<1>1. \A k : PlanOf(k)' = PlanOf(k) /\ (Listing(k)' <=> Listing(k))
  BY Zenon DEF PlanOf, Listing
<1>2. KindsReach'
  <2> SUFFICES ASSUME NEW k \in Reconcilers, ~Pending(k)', UpToDate(k)
               PROVE  UpToDate(k)'
    BY Zenon DEF SyncInv, KindsReach
  <2>1. store' = store => (FoundSoFar(k, found, round)' <=> FoundSoFar(k, found, round))
    BY Zenon DEF FoundSoFar
  <2> QED
    BY <1>1, <2>1, SameReach, Zenon DEF UpToDate
<1>3. FixedKeys'
  BY <1>1, Zenon DEF SyncInv, FixedKeys, FixedKey
<1> QED
  BY <1>2, <1>3, Zenon

\* The worker takes an event, or hands the last request of one to the discovery
\* server.
LEMMA WorkerReach ==
    ASSUME SyncInv, WorkerStep
    PROVE  KindsReach' /\ FixedKeys'
<1>1. /\ UNCHANGED <<resources, current, round, found, plan, store, imported, dns, rmPc,
                     initial, sends, prevIPs, rsPc, unseen>>
      /\ ProcessNextItem \/ SendFdsPush
  BY Zenon DEF WorkerStep, ProcessNextItem, SendFdsPush, SendPush, clientVars,
               resolverVars, managerVars
<1>2. queue \in Seq(Event) /\ pushes \in Seq(TypeUrls)
  BY Zenon DEF SyncInv, TypeOK, ControllerTypeOK
<1>3. ASSUME NEW k \in Reconcilers, Pending(k) PROVE Pending(k)'
  <2>1. CASE ProcessNextItem
    <3>1. /\ pushes = <<>> /\ queue # <<>> /\ queue' = Tail(queue)
          /\ pushes' = IF Triggers(Head(queue)) THEN TriggerXDSPush ELSE <<>>
      BY <2>1, Zenon DEF ProcessNextItem
    <3>2. k \notin Range(pushes)
      BY <3>1 DEF Range
    <3>3. ASSUME k \in Range(TriggerXDSPush), NEW j \in DOMAIN queue, Triggers(queue[j])
          PROVE  Pending(k)'
      <4>1. CASE j = 1
        <5>1. k \in Range(pushes')
          BY <1>2, <3>1, <3>3, <4>1
        <5> QED
          BY <5>1, Zenon DEF Pending, Requested
      <4>2. CASE j # 1
        <5>1. j - 1 \in DOMAIN queue' /\ queue'[j - 1] = queue[j]
          BY <1>2, <3>1, <4>2
        <5> QED
          BY <3>3, <5>1, Zenon DEF Pending, Requested
      <4> QED
        BY <4>1, <4>2, Zenon
    <3> QED
      BY <1>1, <1>3, <3>2, <3>3, Zenon DEF Pending, Requested, Notices
  <2>2. CASE SendFdsPush
    <3>1. /\ pushes # <<>> /\ Head(pushes) = "ExportedService"
          /\ pushes' = Tail(pushes) /\ queue' = queue
      BY <2>2, Zenon DEF SendFdsPush, SendPush
    <3>2. k # "ExportedService"
      BY DEF Reconcilers
    <3>3. k \in Range(pushes) => k \in Range(pushes')
      BY <1>2, <3>1, <3>2, TailRange, Zenon
    <3> QED
      BY <1>1, <1>3, <3>1, <3>3, Zenon DEF Pending, Requested, Notices
  <2> QED
    BY <1>1, <2>1, <2>2, Zenon
<1> QED
  BY <1>1, <1>3, QuietReach, SameInputs, Zenon

\* A change of a Service is pushed, or is unseen, or changes nothing for a kind.
LEMMA InformerReach ==
    ASSUME SyncInv, NEW s \in Services, InformerStep(s)
    PROVE  KindsReach' /\ FixedKeys'
<1>0. TypeOK /\ ControllerTypeOK
  BY Zenon DEF SyncInv, TypeOK
<1>1. /\ UNCHANGED <<resources, current, round, found, plan, imported, dns, rmPc, initial,
                     sends, prevIPs, rsPc, pushes>>
      /\ AddFunc(s) \/ UpdateFunc(s) \/ DeleteFunc(s)
      /\ unseen' = unseen \cup Unwatched(s)
      /\ store' = [store EXCEPT ![s] = cluster[s]]
  BY Zenon DEF InformerStep, clientVars, resolverVars, AddFunc, UpdateFunc, DeleteFunc,
               Enqueue
<1>2. PICK event \in Event :
          /\ queue' = Append(queue, event)
          /\ ~Triggers(event) => Exported(store') = Exported(store)
  BY <1>0, <1>1, ExportChangeTriggers, Zenon
<1>3. /\ store'[s] = cluster[s]
      /\ \A t \in Services : t # s => store'[t] = store[t]
  BY <1>0, <1>1 DEF ControllerTypeOK, ServiceMap
<1>4. /\ \A j \in DOMAIN queue : j \in DOMAIN queue' /\ queue'[j] = queue[j]
      /\ Len(queue) + 1 \in DOMAIN queue' /\ queue'[Len(queue) + 1] = event
  BY <1>0, <1>2 DEF ControllerTypeOK
<1>5. \A k \in Reconcilers : Pending(k) => Pending(k)'
  BY <1>1, <1>4, Zenon DEF Pending, Requested, Notices
<1>6. ListingKinds \subseteq Range(TriggerXDSPush)
  <2>1. /\ 1 \in DOMAIN TriggerXDSPush /\ TriggerXDSPush[1] = "Gateway"
        /\ 2 \in DOMAIN TriggerXDSPush /\ TriggerXDSPush[2] = "EnvoyFilter"
        /\ 3 \in DOMAIN TriggerXDSPush /\ TriggerXDSPush[3] = "Route"
    BY DEF TriggerXDSPush
  <2> QED
    BY <2>1, Zenon DEF Range, ListingKinds
<1>7. ASSUME NEW k \in Reconcilers, ~Pending(k)'
      PROVE  /\ k \notin Unwatched(s)
             /\ k \in ListingKinds =>
                   /\ Exported(store') = Exported(store)
                   /\ s \in Exported(store) => StaysExported(s)
  <2>1. k \notin Unwatched(s)
    BY <1>1, <1>7, Zenon DEF Pending, Requested
  <2>2. k \in ListingKinds => Exported(store') = Exported(store)
    BY <1>2, <1>4, <1>6, <1>7, Zenon DEF Pending, Requested
  <2>3. ASSUME Exported(store') = Exported(store), s \in Exported(store)
        PROVE  StaysExported(s)
    <3>1. /\ store[s] # NoService /\ MatchExportRules(store[s])
          /\ store'[s] # NoService /\ MatchExportRules(store'[s])
      BY <2>3, Zenon DEF Exported
    <3> QED
      BY <1>3, <3>1, Zenon DEF StaysExported
  <2> QED
    BY <2>1, <2>2, <2>3, Zenon
<1>8. ASSUME NEW k \in Reconcilers, ~Pending(k)', Listing(k),
             FoundSoFar(k, found, round)
      PROVE  FoundSoFar(k, found, round)'
  <2>1. k \in ListingKinds
    BY <1>0, <1>8, Zenon DEF Listing, TypeOK, ManagerTypeOK
  <2>2. /\ Exported(store') = Exported(store)
        /\ s \in Exported(store) => StaysExported(s)
        /\ k \notin Unwatched(s)
    BY <1>7, <1>8, <2>1, Zenon
  <2>3. /\ Found(found) \subseteq Exported(store)
        /\ k # "Gateway" => \A f \in found : f[2] = store[f[1]].ports
        /\ \A t \in Exported(store) \ Found(found) :
              \E m \in Selected(store[t]) : m >= round
    BY <1>8, Zenon DEF FoundSoFar
  <2>4. Exported(store) \subseteq Services
    BY Zenon DEF Exported
  <2>5. ASSUME k # "Gateway", NEW f \in found PROVE f[2] = store'[f[1]].ports
    <3>1. f[1] \in Found(found)
      BY <2>5, Zenon DEF Found
    <3>2. CASE f[1] = s
      <4>1. StaysExported(s) /\ ~WillFind(k, s)
        BY <2>2, <2>3, <3>1, <3>2, Zenon DEF WillFind
      <4>2. store[s].ports = cluster[s].ports
        BY <2>1, <2>2, <2>5, <4>1 DEF Unwatched, ListingKinds
      <4> QED
        BY <1>3, <2>3, <2>5, <3>2, <4>2, Zenon
    <3>3. CASE f[1] # s
      BY <1>3, <2>3, <2>4, <2>5, <3>1, <3>3, Zenon
    <3> QED
      BY <3>2, <3>3, Zenon
  <2>6. ASSUME NEW t \in Exported(store), t \notin Found(found)
        PROVE  \E m \in Selected(store'[t]) : m >= round
    <3>1. CASE t = s
      <4>1. StaysExported(s) /\ ~Misses(k, s)
        BY <2>1, <2>2, <2>6, <3>1, Zenon DEF Unwatched
      <4> QED
        BY <1>3, <1>8, <2>6, <3>1, <4>1, Zenon DEF Misses, WillFind
    <3>2. CASE t # s
      BY <1>3, <2>3, <2>4, <2>6, <3>2, Zenon
    <3> QED
      BY <3>1, <3>2, Zenon
  <2> QED
    BY <1>1, <2>2, <2>3, <2>5, <2>6, Zenon DEF FoundSoFar
<1>9. ASSUME NEW k \in Reconcilers, ~Pending(k)', ~Listing(k)
      PROVE  Wanted(k)' = Wanted(k)
  <2>1. k \notin Unwatched(s) /\ ~WillFind(k, s)
    BY <1>7, <1>9, Zenon DEF WillFind
  <2>2. k \in ListingKinds => Exported(store') = Exported(store)
    BY <1>7, <1>9, Zenon
  <2>3. ASSUME k \in {"EnvoyFilter", "Route"}, NEW t \in Exported(store)
        PROVE  store'[t].ports = store[t].ports
    <3>1. CASE t = s
      <4>1. StaysExported(s)
        BY <1>7, <1>9, <2>3, <3>1, Zenon DEF ListingKinds
      <4>2. store[s].ports = cluster[s].ports
        BY <2>1, <2>3, <4>1 DEF Unwatched
      <4> QED
        BY <1>3, <3>1, <4>2, Zenon
    <3>2. CASE t # s
      BY <1>3, <2>3, <3>2, Zenon DEF Exported
    <3> QED
      BY <3>1, <3>2, Zenon
  <2>4. ASSUME k \in {"ServiceEntry", "WorkloadEntry"}
        PROVE  /\ Missing(store', imported') = Missing(store, imported)
               /\ Present(store', imported') = Present(store, imported)
    <3>1. store[s] = NoService <=> cluster[s] = NoService
      BY <2>1, <2>4 DEF Unwatched
    <3>2. \A t \in Services : store[t] = NoService <=> store'[t] = NoService
      BY <1>3, <3>1, Zenon
    <3>3. imported \in [Peers -> SUBSET FederatedService]
      BY <1>0, MeshAssumption, Zenon DEF TypeOK, ClientTypeOK
    <3> QED
      BY <1>1, <3>2, <3>3, SameExistence, Zenon
  <2> QED
    BY <1>1, <2>2, <2>3, <2>4, WantedInputs, Zenon
<1> QED
  BY <1>1, <1>5, <1>8, <1>9, QuietReach, Zenon

\* A response is followed by requests for the three kinds that depend on imports.
LEMMA ReceiveReach ==
    ASSUME SyncInv, NEW c \in Clients, NEW res \in Responses, Receive(c, res)
    PROVE  KindsReach' /\ FixedKeys'
<1>1. /\ UNCHANGED <<resources, current, round, found, plan, store, dns, rmPc, initial,
                     queue, pushes, prevIPs, rsPc, unseen>>
      /\ sends' = [sends EXCEPT ![c] = <<"ServiceEntry", "WorkloadEntry", "DestinationRule">>]
  BY Zenon DEF Receive, Handle, controllerVars, resolverVars, managerVars
<1>2. sends \in [Clients -> Seq(ImportTypeUrls)]
  BY Zenon DEF SyncInv, TypeOK, ClientTypeOK
<1>3. /\ sends'[c] = <<"ServiceEntry", "WorkloadEntry", "DestinationRule">>
      /\ \A x \in Clients : x # c => sends'[x] = sends[x]
  BY <1>1, <1>2
<1>4. ASSUME NEW k \in ImportTypeUrls PROVE Pending(k)'
  <2>1. k \in Range(sends'[c])
    <3>1. /\ 1 \in DOMAIN sends'[c] /\ sends'[c][1] = "ServiceEntry"
          /\ 2 \in DOMAIN sends'[c] /\ sends'[c][2] = "WorkloadEntry"
          /\ 3 \in DOMAIN sends'[c] /\ sends'[c][3] = "DestinationRule"
      BY <1>3
    <3> QED
      BY <3>1, Zenon DEF Range, ImportTypeUrls
  <2> QED
    BY <2>1, Zenon DEF Pending, Requested
<1>5. ASSUME NEW k \in Reconcilers, Pending(k) PROVE Pending(k)'
  <2>1. CASE k \in Range(sends[c])
    <3>1. k \in ImportTypeUrls
      BY <1>2, <2>1 DEF Range
    <3> QED
      BY <1>4, <3>1, Zenon
  <2> QED
    BY <1>1, <1>3, <1>5, <2>1, Zenon DEF Pending, Requested, Notices
<1>6. ASSUME NEW k \in Reconcilers, k \notin ImportTypeUrls PROVE Wanted(k)' = Wanted(k)
  BY <1>1, <1>6, WantedInputs, Zenon DEF ImportTypeUrls
<1> QED
  BY <1>1, <1>4, <1>5, <1>6, QuietReach, Zenon

\* The manager takes a request from one of the three kinds of senders.
LEMMA RequestReach ==
    ASSUME SyncInv, McpPush \/ ResolverPush \/ \E c \in Clients : ImportPush(c)
    PROVE  KindsReach' /\ FixedKeys'
<1>0. /\ pushes \in Seq(TypeUrls)
      /\ sends \in [Clients -> Seq(ImportTypeUrls)]
  BY Zenon DEF SyncInv, TypeOK, ControllerTypeOK, ClientTypeOK
<1>1. ASSUME NEW k, ReceiveRequest(k, store, imported, dns),
             UNCHANGED <<store, imported, dns>>,
             \A j \in Reconcilers : j # k =>
                 /\ j \in Range(pushes) => j \in Range(pushes')
                 /\ \A c \in Clients : j \in Range(sends[c]) => j \in Range(sends'[c])
                 /\ j = "WorkloadEntry" => UNCHANGED <<prevIPs, rsPc>>,
             UNCHANGED queue
      PROVE  KindsReach' /\ FixedKeys'
  <2>1. /\ current = "none" /\ UNCHANGED <<resources, rmPc, initial>>
        /\ \/ k \in Reconcilers /\ Reconcile(k, store, imported, dns)
           \/ k \notin Reconcilers /\ UNCHANGED <<current, round, found, plan, unseen>>
        /\ \A j : j # k /\ j \in unseen => j \in unseen'
    BY <1>1, Zenon DEF ReceiveRequest, Reconcile
  <2>2. \A j \in Reconcilers : j # k /\ Pending(j) => Pending(j)'
    BY <1>1, <2>1, Zenon DEF Pending, Requested, Notices
  <2> QED
    BY <1>1, <2>1, <2>2, ReconcileReach, Zenon
<1>2. CASE McpPush
  <2>1. /\ ReceiveRequest(Head(pushes), store, imported, dns)
        /\ pushes # <<>> /\ pushes' = Tail(pushes)
        /\ UNCHANGED <<store, imported, dns, queue, sends, prevIPs, rsPc>>
    BY <1>2, Zenon DEF McpPush, SendMcpPush, SendPush, clientVars, resolverVars
  <2>2. \A j : j # Head(pushes) /\ j \in Range(pushes) => j \in Range(pushes')
    BY <1>0, <2>1, TailRange, Zenon
  <2> QED
    BY <1>1, <2>1, <2>2, Zenon
<1>3. CASE ResolverPush
  <2>1. /\ ReceiveRequest("WorkloadEntry", store, imported, dns)
        /\ UNCHANGED <<store, imported, dns, queue, pushes, sends>>
    BY <1>3, Zenon DEF ResolverPush, SendResolverPush, controllerVars, clientVars
  <2> QED
    BY <1>1, <2>1, Zenon
<1>4. ASSUME NEW c \in Clients, ImportPush(c)
      PROVE  KindsReach' /\ FixedKeys'
  <2>1. /\ ReceiveRequest(Head(sends[c]), store, imported, dns)
        /\ sends[c] # <<>> /\ sends' = [sends EXCEPT ![c] = Tail(sends[c])]
        /\ UNCHANGED <<store, imported, dns, queue, pushes, prevIPs, rsPc>>
    BY <1>4, Zenon DEF ImportPush, SendImportPush, controllerVars, resolverVars
  <2>2. /\ sends[c] \in Seq(ImportTypeUrls) /\ sends'[c] = Tail(sends[c])
        /\ \A x \in Clients : x # c => sends'[x] = sends[x]
    BY <1>0, <2>1
  <2>3. \A j : j # Head(sends[c]) /\ j \in Range(sends[c]) => j \in Range(sends'[c])
    BY <2>1, <2>2, TailRange, Zenon
  <2>4. \A j \in Reconcilers : j # Head(sends[c]) =>
            \A x \in Clients : j \in Range(sends[x]) => j \in Range(sends'[x])
    BY <2>2, <2>3, Zenon
  <2> QED
    BY <1>1, <2>1, <2>4, Zenon
<1> QED
  BY <1>2, <1>3, <1>4, Zenon

LEMMA ManagerReach ==
    ASSUME SyncInv, ManagerStep
    PROVE  KindsReach' /\ FixedKeys'
<1>0. UNCHANGED <<store, imported, dns, queue, pushes, sends, prevIPs, rsPc>>
  BY Zenon DEF ManagerStep, controllerVars, clientVars, resolverVars
<1>1. ASSUME NEW k \in initial, ReconcileNext(k, store, imported, dns)
      PROVE  KindsReach' /\ FixedKeys'
  <2>1. /\ current = "none" /\ UNCHANGED resources
        /\ Reconcile(k, store, imported, dns)
        /\ rmPc' = rmPc /\ initial' = initial \ {k} /\ unseen' = unseen \ {k}
    BY <1>1, Zenon DEF ReconcileNext, Reconcile
  <2>2. k \in Reconcilers
    BY Zenon DEF SyncInv, TypeOK, ManagerTypeOK
  <2>3. \A j \in Reconcilers : j # k /\ Pending(j) => Pending(j)'
    BY <1>0, <2>1, Zenon DEF Pending, Requested, Notices
  <2> QED
    BY <1>0, <2>1, <2>2, <2>3, ReconcileReach, Zenon
<1>2. ASSUME NEW r, ApplyResource(r) \/ DeleteResource(r)
      PROVE  KindsReach' /\ FixedKeys'
  BY <1>0, <1>2, CallReach, Zenon
<1>3. CASE ListSelector(store, imported, dns)
  BY <1>0, <1>3, ListSelectorReach, Zenon
<1>4. CASE ReconcileReturns \/ Start
  <2>1. /\ UNCHANGED <<resources, plan, round, initial, unseen>> /\ plan = NoPlan
        /\ rmPc' = rmPc \/ initial = {}
    BY <1>4, Zenon DEF ReconcileReturns, Start, SyncInv, TypeOK, ManagerTypeOK
  <2>2. \A k : PlanOf(k)' = PlanOf(k)
    BY <2>1, Zenon DEF PlanOf
  <2>3. \A k : Pending(k) => Pending(k)'
    BY <1>0, <2>1, Zenon DEF Pending, Requested, Notices
  <2>4. ASSUME NEW k \in Reconcilers PROVE ~Listing(k) /\ ~Listing(k)'
    <3>1. k # "none"
      BY DEF Reconcilers
    <3> QED
      BY <1>4, <3>1, Zenon DEF ReconcileReturns, Start, Listing
  <2>5. KindsReach'
    BY <1>0, <2>1, <2>2, <2>3, <2>4, SameUpToDate, Zenon DEF SyncInv, KindsReach
  <2>6. FixedKeys'
    BY <2>1, <2>2, Zenon DEF SyncInv, FixedKeys, FixedKey
  <2> QED
    BY <2>5, <2>6, Zenon
<1> QED
  BY <1>1, <1>2, <1>3, <1>4, Zenon DEF ManagerStep

\* After a failed call the kind is known to be behind; a new process begins with
\* all kinds.
LEMMA FaultReach ==
    ASSUME SyncInv, CallFails \/ NewProcess
    PROVE  KindsReach' /\ FixedKeys'
<1>1. UNCHANGED resources /\ plan' = NoPlan
  BY Zenon DEF CallFails, NewProcess, ReconcileFails, ManagerRestart
<1>2. FixedKeys'
  <2>1. \A k : PlanOf(k)' = NoPlan
    BY <1>1, Zenon DEF PlanOf
  <2>2. NoPlan.apply = {}
    BY DEF NoPlan
  <2> QED
    BY <1>1, <2>1, <2>2, Zenon DEF SyncInv, FixedKeys, FixedKey
<1>3. CASE NewProcess
  <2>1. rmPc' = "all" /\ initial' = Reconcilers
    BY <1>3, Zenon DEF NewProcess, ManagerRestart
  <2> QED
    BY <1>2, <2>1, Zenon DEF KindsReach, Pending, Requested
<1>4. CASE CallFails
  <2>1. /\ UNCHANGED <<store, imported, dns, queue, pushes, sends, prevIPs, rsPc, rmPc, initial>>
        /\ current' = "none" /\ unseen' = unseen \cup {current}
        /\ round = 0 /\ round' = 0
    BY <1>4, Zenon DEF CallFails, ReconcileFails, controllerVars, clientVars, resolverVars
  <2>2. \A k : Pending(k) => Pending(k)'
    BY <2>1, Zenon DEF Pending, Requested, Notices
  <2>3. ASSUME NEW k \in Reconcilers PROVE Pending(k)' \/ UpToDate(k)'
    <3>1. CASE k = current
      BY <2>1, <3>1, Zenon DEF Pending, Requested
    <3>2. CASE k # current
      <4>1. PlanOf(k) = NoPlan /\ PlanOf(k)' = NoPlan
        BY <1>1, <3>2, Zenon DEF PlanOf
      <4>2. ~Listing(k) /\ ~Listing(k)'
        BY <2>1, Zenon DEF Listing
      <4> QED
        BY <1>1, <2>1, <2>2, <4>1, <4>2, SameUpToDate, Zenon DEF SyncInv
    <3> QED
      BY <3>1, <3>2, Zenon
  <2> QED
    BY <1>2, <2>3, Zenon DEF KindsReach
<1> QED
  BY <1>3, <1>4, Zenon

\* A kind whose list has failed is known to be behind.
LEMMA ListFailsReach ==
    ASSUME SyncInv, ListerFails
    PROVE  KindsReach' /\ FixedKeys'
<1>0. TypeOK /\ ManagerTypeOK /\ FixedKeys /\ KindsReach
  BY Zenon DEF SyncInv, TypeOK, KindsReach
<1>1. /\ round # 0 /\ unseen' = unseen \cup {current}
      /\ UNCHANGED <<resources, store, imported, dns, queue, pushes, sends, prevIPs, rsPc, rmPc,
                     initial>>
      /\ \/ current' = "none" /\ plan' = plan
         \/ current' = current /\ Loop(current, found, round + 1, store, imported, dns)
  BY Zenon DEF ListerFails, ListFails, controllerVars, clientVars, resolverVars
<1>2. current \in Reconcilers /\ plan = NoPlan /\ round + 1 \in Nat /\ round + 1 # 0
  BY <1>0, <1>1 DEF ManagerTypeOK, ListingKinds
<1>3. \A k : Pending(k) => Pending(k)'
  BY <1>1, Zenon DEF Pending, Requested, Notices
<1>4. ASSUME NEW k \in Reconcilers PROVE Pending(k)' \/ UpToDate(k)'
  <2>1. CASE k = current
    BY <1>1, <2>1, Zenon DEF Pending
  <2>2. CASE k # current
    <3>1. k # "none"
      BY DEF Reconcilers
    <3>2. PlanOf(k) = NoPlan /\ PlanOf(k)' = NoPlan /\ ~Listing(k) /\ ~Listing(k)'
      BY <1>1, <2>2, <3>1, Zenon DEF PlanOf, Listing
    <3> QED
      BY <1>0, <1>1, <1>3, <3>2, SameUpToDate, Zenon DEF KindsReach
  <2> QED
    BY <2>1, <2>2, Zenon
<1>5. FixedKeys'
  <2>1. CASE current' = "none" /\ plan' = plan
    <3>1. \A k : PlanOf(k)' = NoPlan
      BY <1>2, <2>1, Zenon DEF PlanOf
    <3>2. NoPlan.apply = {}
      BY DEF NoPlan
    <3> QED
      BY <1>0, <1>1, <3>1, <3>2, Zenon DEF FixedKeys, FixedKey
  <2> QED
    BY <1>0, <1>1, <1>2, <2>1, LoopReach, Zenon
<1> QED
  BY <1>4, <1>5, Zenon DEF KindsReach

\* A change of the DNS is noticed by the resolver or unseen, and the resolver does
\* not forget what it has noticed.
LEMMA ResolverReach ==
    ASSUME SyncInv,
           ResolverStep \/ \E name \in Names, ips \in Answers : DnsChanges(name, ips)
    PROVE  KindsReach' /\ FixedKeys'
<1>1. CASE ResolverStep
  <2>1. /\ UNCHANGED <<resources, current, round, found, plan, store, imported, dns, rmPc,
                       initial, queue, pushes, sends, unseen>>
        /\ StartResolver \/ Tick
    BY <1>1, Zenon DEF ResolverStep, StartResolver, Tick, controllerVars, clientVars,
                       managerVars
  <2>2. Notices(dns) => Notices(dns)'
    BY <2>1 DEF Notices, StartResolver, Tick
  <2>3. \A k \in Reconcilers : Pending(k) => Pending(k)'
    BY <2>1, <2>2, Zenon DEF Pending, Requested
  <2> QED
    BY <2>1, <2>3, QuietReach, SameInputs, Zenon
<1>2. ASSUME NEW name \in Names, NEW ips \in Answers, DnsChanges(name, ips)
      PROVE  KindsReach' /\ FixedKeys'
  <2>1. /\ UNCHANGED <<resources, current, round, found, plan, store, imported, rmPc, initial,
                       queue, pushes, sends, prevIPs, rsPc>>
        /\ unseen \subseteq unseen'
        /\ Notices(dns') \/ "WorkloadEntry" \in unseen'
    BY <1>2, Zenon DEF DnsChanges, ChangeRecords, controllerVars, clientVars
  <2>2. Pending("WorkloadEntry")'
    BY <2>1, Zenon DEF Pending, Requested, Notices
  <2>3. \A k \in Reconcilers : Pending(k) => Pending(k)'
    BY <2>1, <2>2, Zenon DEF Pending, Requested
  <2>4. ASSUME NEW k \in Reconcilers, k # "WorkloadEntry" PROVE Wanted(k)' = Wanted(k)
    BY <2>1, <2>4, WantedInputs, Zenon
  <2> QED
    BY <2>1, <2>2, <2>3, <2>4, QuietReach, Zenon
<1> QED
  BY <1>1, <1>2, Zenon

LEMMA SyncInvNext == SyncInv /\ [Next]_vars => SyncInv'
<1> SUFFICES ASSUME SyncInv, [Next]_vars PROVE KindsReach' /\ FixedKeys'
  BY NextType, Zenon DEF SyncInv, KindsReach
<1>1. CASE UNCHANGED <<resources, current, round, found, plan, store, imported, dns, rmPc, initial,
                       queue, pushes, sends, unseen, prevIPs, rsPc>>
  <2>1. \A k \in Reconcilers : Pending(k) => Pending(k)'
    BY <1>1, Zenon DEF Pending, Requested, Notices
  <2> QED
    BY <1>1, <2>1, QuietReach, SameInputs, Zenon
<1>2. CASE \/ \E s \in Services, obj \in Object \cup {NoService} : UserChanges(s, obj)
           \/ \E c \in Clients : Connect(c) \/ StreamFails(c)
           \/ UNCHANGED vars
  <2> USE DEF controllerVars, clientVars, resolverVars, managerVars
  <2>1. CASE \E s \in Services, obj \in Object \cup {NoService} : UserChanges(s, obj)
    BY <1>1, <2>1, Zenon DEF UserChanges, ChangeService
  <2>2. CASE \E c \in Clients : Connect(c) \/ StreamFails(c)
    BY <1>1, <2>2, Zenon DEF Connect, StreamFails, Run, Restart, RunFails, RecvFails
  <2>3. CASE UNCHANGED vars
    BY <1>1, <2>3, Zenon DEF vars
  <2> QED
    BY <1>2, <2>1, <2>2, <2>3, Zenon
<1> QED
  BY <1>2, InformerReach, WorkerReach, RequestReach, ManagerReach, ResolverReach, ReceiveReach,
     FaultReach, ListFailsReach, Zenon DEF Next, EnvironmentStep, FatalRestart, ProcessRestarts

LEMMA SyncInvInit == Init => SyncInv
<1> SUFFICES ASSUME Init PROVE SyncInv
  OBVIOUS
<1>1. /\ resources = [k \in Kinds |-> {}] /\ plan = NoPlan
      /\ rmPc = "all" /\ initial = Reconcilers
  BY Zenon DEF Init, ManagerInit
<1>2. \A k : PlanOf(k) = NoPlan
  BY <1>1, Zenon DEF PlanOf
<1>3. NoPlan.apply = {} /\ \A k \in {"Gateway", "PeerAuthentication"} : resources[k] = {}
  BY <1>1 DEF NoPlan, Kinds
<1>4. FixedKeys
  BY <1>2, <1>3, Zenon DEF FixedKeys
<1> QED
  BY <1>1, <1>4, InitType, Zenon DEF SyncInv, Pending, Requested

\* Once nothing is under way for a kind, its resources are those that its factory
\* derives from the current Services, imports and answers of the DNS, unless its
\* last Reconcile failed or missed a Service between the lists of two selectors,
\* or an input changed that the code does not watch.
THEOREM ResourcesMatch == Spec => []SettledResourcesMatch
<1>1. ASSUME SyncInv PROVE SettledResourcesMatch
  <2> SUFFICES ASSUME NEW k \in Reconcilers, Settled(k), k \notin unseen
               PROVE  InSync(k)
    BY Zenon DEF SettledResourcesMatch
  <2>1. rmPc = "loop" /\ current = "none" /\ ~Requested(k)
    BY Zenon DEF Settled
  <2>2. ~Pending(k)
    BY <2>1, Zenon DEF Pending
  <2>3. PlanOf(k) = NoPlan
    BY <1>1, <2>1, Zenon DEF PlanOf, SyncInv, TypeOK, ManagerTypeOK
  <2>4. ~Listing(k)
    <3>1. k # "none"
      BY DEF Reconcilers
    <3> QED
      BY <2>1, <3>1, Zenon DEF Listing
  <2>5. PICK d \in Wanted(k) : Reaches(k, NoPlan, resources[k], d)
    BY <1>1, <2>2, <2>3, <2>4, Zenon DEF SyncInv, UpToDate, PlansReach
  <2>6. NoPlan.apply = {} /\ NoPlan.delete = {}
    BY DEF NoPlan
  <2>7. d \subseteq resources[k] /\ (k # "Route" => resources[k] \subseteq d)
    BY <2>5, <2>6, Zenon DEF Reaches
  <2>8. IF k = "Route" THEN d \subseteq resources[k] ELSE d = resources[k]
    BY <2>7
  <2> QED
    BY <2>5, <2>8, Zenon DEF InSync
<1> QED
  BY <1>1, SyncInvInit, SyncInvNext, PTL DEF Spec

\* Every call writes only what is wanted when it is made and takes away no key
\* that is wanted, unless the kind is to be reconciled again or is behind.
THEOREM CallsAreWanted == Spec => CallsServeWanted
<1> DEFINE Serves(k) ==
             \/ resources'[k] = resources[k]
             \/ Requested(k) \/ k \in unseen
             \/ \E d \in Wanted(k) :
                   /\ resources'[k] \ resources[k] \subseteq d
                   /\ \A q \in resources[k], r \in d :
                         q.key = r.key => \E n \in resources'[k] : n.key = r.key
<1>1. ASSUME SyncInv, [Next]_vars PROVE [\A k \in Reconcilers : Serves(k)]_vars
  <2> SUFFICES ASSUME NEW k \in Reconcilers, resources'[k] # resources[k], ~Pending(k)
               PROVE  \E d \in Wanted(k) :
                        /\ resources'[k] \ resources[k] \subseteq d
                        /\ \A q \in resources[k], r \in d :
                              q.key = r.key => \E n \in resources'[k] : n.key = r.key
    BY Zenon DEF Pending
  <2>1. PICK r : ApplyResource(r) \/ DeleteResource(r)
    <3>1. resources' # resources
      BY Zenon
    <3> QED
      BY <1>1, <3>1, Zenon
         DEF Next, vars, InformerStep, WorkerStep, McpPush, Connect, ImportPush, ResolverStep,
             ResolverPush, ManagerStep, FatalRestart, NewProcess, EnvironmentStep, UserChanges,
             DnsChanges, Receive, StreamFails, CallFails, ListerFails, ProcessRestarts,
             managerVars, ReceiveRequest, ReconcileFails, ListFails, ReconcileNext, ListSelector,
             ReconcileReturns, Start, ManagerRestart
  <2>2. ManagerTypeOK /\ k \in Kinds
    BY <1>1 DEF SyncInv, TypeOK, Reconcilers, Kinds
  <2>3. /\ current = k
        /\ \/ r \in plan.apply /\ resources'[k] = {q \in resources[k] : q.key # r.key} \cup {r}
           \/ r \in plan.delete /\ resources'[k] = {q \in resources[k] : q.key # r.key}
    BY <2>1, <2>2 DEF ApplyResource, DeleteResource, ManagerTypeOK
  <2>4. PlanOf(k) = plan /\ ~Listing(k)
    <3>1. plan # NoPlan
      BY <2>3 DEF NoPlan
    <3> QED
      BY <2>2, <2>3, <3>1, Zenon DEF PlanOf, Listing, ManagerTypeOK
  <2>5. PICK d \in Wanted(k) : Reaches(k, plan, resources[k], d)
    BY <1>1, <2>4, Zenon DEF SyncInv, UpToDate, PlansReach
  <2>6. plan.apply \subseteq d /\ \A o \in plan.delete, x \in d : o.key # x.key
    BY <2>5, Zenon DEF Reaches
  <2>7. ASSUME NEW x \in resources'[k], x \notin resources[k] PROVE x \in d
    <3>1. x = r /\ r \in plan.apply
      BY <2>3, <2>7, Zenon
    <3> QED
      BY <2>6, <3>1, Zenon
  <2>8. ASSUME NEW q \in resources[k], NEW x \in d, q.key = x.key
        PROVE  \E n \in resources'[k] : n.key = x.key
    <3>1. CASE q.key # r.key
      BY <2>3, <2>8, <3>1, Zenon
    <3>2. CASE q.key = r.key
      <4>1. r \notin plan.delete
        BY <2>6, <2>8, <3>2, Zenon
      <4>2. r \in resources'[k]
        BY <2>3, <4>1, Zenon
      <4> QED
        BY <2>8, <3>2, <4>2, Zenon
    <3> QED
      BY <3>1, <3>2, Zenon
  <2> QED
    BY <2>5, <2>7, <2>8, Zenon
<1> QED
  BY <1>1, SyncInvInit, SyncInvNext, PTL DEF Spec, CallsServeWanted

=============================================================================
