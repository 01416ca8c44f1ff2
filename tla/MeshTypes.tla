------------------------------ MODULE MeshTypes ------------------------------
(***************************************************************************)
(* Type correctness of MeshConfig, and the proof of EnteredImportsStay     *)
(* from the invariant EntryInv.                                            *)
(***************************************************************************)
EXTENDS MeshInvariant, ManagerProofs

-----------------------------------------------------------------------------
(* The components keep their types.                                        *)

LEMMA InitialEventsType ==
    ASSUME NEW st \in ServiceMap, NEW q \in InitialEvents(st)
    PROVE  q \in Seq(Event)
<1> DEFINE present == {t \in Services : st[t] # NoService}
           E == {[eventType |-> "create", key |-> s, obj |-> st[s],
                  oldObj |-> NoService] : s \in present}
<1>1. E \subseteq Event
  BY DEF Event, ServiceMap
<1>2. PICK n \in 0..Cardinality(Services) : q \in Bijection(1..n, E)
  BY Zenon DEF InitialEvents
<1>3. n \in Nat /\ q \in [1..n -> E]
  BY <1>2 DEF Bijection, Injection
<1> HIDE DEF E
<1> QED
  BY <1>1, <1>3

LEMMA ControllerType ==
    ASSUME ControllerTypeOK,
           \/ ControllerRestart
           \/ \E s \in Services :
                 \/ AddFunc(s) \/ UpdateFunc(s) \/ DeleteFunc(s)
                 \/ \E obj \in Object \cup {NoService} : ChangeService(s, obj)
           \/ ProcessNextItem \/ SendMcpPush \/ SendFdsPush
    PROVE  ControllerTypeOK'
<1> USE DEF ControllerTypeOK
<1>1. CASE ControllerRestart
  <2>1. <<>> \in Seq(TypeUrls)
    OBVIOUS
  <2> QED
    BY <1>1, <2>1, InitialEventsType, Zenon DEF ControllerRestart
<1>2. ASSUME NEW s \in Services, NEW obj \in Object \cup {NoService}, ChangeService(s, obj)
      PROVE  ControllerTypeOK'
  BY <1>2 DEF ChangeService, ServiceMap
<1>3. ASSUME NEW s \in Services, AddFunc(s) \/ UpdateFunc(s) \/ DeleteFunc(s)
      PROVE  ControllerTypeOK'
  <2>1. PICK event \in Event : queue' = Append(queue, event)
    BY <1>3 DEF AddFunc, UpdateFunc, DeleteFunc, Enqueue, Event, ServiceMap
  <2>2. store' = [store EXCEPT ![s] = cluster[s]] /\ UNCHANGED <<cluster, pushes>>
    BY <1>3, Zenon DEF AddFunc, UpdateFunc, DeleteFunc, Enqueue
  <2>3. queue' \in Seq(Event)
    BY <2>1
  <2>4. store' \in ServiceMap
    BY <2>2 DEF ServiceMap
  <2> QED
    BY <2>2, <2>3, <2>4, Zenon
<1>4. CASE ProcessNextItem
  <2>1. TriggerXDSPush \in Seq(TypeUrls) /\ <<>> \in Seq(TypeUrls)
    BY DEF TriggerXDSPush, TypeUrls
  <2>2. queue' \in Seq(Event)
    BY <1>4 DEF ProcessNextItem
  <2> QED
    BY <1>4, <2>1, <2>2, Zenon DEF ProcessNextItem
<1>5. CASE SendMcpPush \/ SendFdsPush
  <2>1. pushes # <<>> /\ pushes' = Tail(pushes) /\ UNCHANGED <<cluster, store, queue>>
    BY <1>5, Zenon DEF SendMcpPush, SendFdsPush, SendPush
  <2>2. pushes' \in Seq(TypeUrls)
    BY <2>1
  <2> QED
    BY <2>1, <2>2, Zenon
<1> QED
  BY <1>1, <1>2, <1>3, <1>4, <1>5, Zenon

LEMMA ClientType ==
    ASSUME ClientTypeOK, NEW c \in Clients,
           \/ Run(c, 1) \/ RunFails(c) \/ Restart(c) \/ RecvFails(c)
           \/ \E res \in SUBSET FederatedService : Handle(c, res)
           \/ SendImportPush(c)
    PROVE  ClientTypeOK'
<1> USE DEF ClientTypeOK
<1>1. CASE Run(c, 1)
  BY <1>1 DEF Run
<1>2. CASE RunFails(c) \/ Restart(c) \/ RecvFails(c)
  BY <1>2, Zenon DEF RunFails, Restart, RecvFails
<1>3. ASSUME NEW res \in SUBSET FederatedService, Handle(c, res)
      PROVE  ClientTypeOK'
  <2>1. <<"ServiceEntry", "WorkloadEntry", "DestinationRule">> \in Seq(ImportTypeUrls)
    BY DEF ImportTypeUrls
  <2> QED
    BY <1>3, <2>1, Zenon DEF Handle, Update
<1>4. CASE SendImportPush(c)
  <2>1. Tail(sends[c]) \in Seq(ImportTypeUrls)
    BY <1>4 DEF SendImportPush
  <2>2. sends' = [sends EXCEPT ![c] = Tail(sends[c])]
    BY <1>4 DEF SendImportPush
  <2> QED
    BY <1>4, <2>1, <2>2, Zenon DEF SendImportPush
<1> QED
  BY <1>1, <1>2, <1>3, <1>4, Zenon

LEMMA ResolverType ==
    ASSUME ResolverTypeOK,
           \/ ResolverRestart \/ StartResolver \/ Tick \/ SendResolverPush
           \/ \E name \in Names, ips \in Answers : ChangeRecords(name, ips)
    PROVE  ResolverTypeOK'
<1> DEFINE States == IF Resolves THEN {"start", "wait", "send"} ELSE {"off"}
<1>1. dns' \in [Names -> Answers]
  <2>1. CASE UNCHANGED dns
    BY <2>1, Zenon DEF ResolverTypeOK
  <2>2. ASSUME NEW name \in Names, NEW ips \in Answers, ChangeRecords(name, ips)
        PROVE  dns' \in [Names -> Answers]
    BY <2>2 DEF ResolverTypeOK, ChangeRecords
  <2> QED
    BY <2>1, <2>2, Zenon DEF ResolverRestart, StartResolver, Tick, SendResolverPush
<1>2. prevIPs' # <<>> => prevIPs' \in LookupResults
  <2>1. CurrentIPs(dns) \in LookupResults /\ Resolve(FirstAddresses, dns) \subseteq LookupResults
    <3> DEFINE of(answers) ==
                 {CurrentIPs(answers)} \cup Resolve(FirstAddresses, answers)
    <3>1. LookupResults = UNION {of(answers) : answers \in [Names -> Answers]}
      BY DEF LookupResults
    <3>2. CurrentIPs(dns) \in of(dns) /\ Resolve(FirstAddresses, dns) \subseteq of(dns)
      OBVIOUS
    <3> HIDE DEF of
    <3> QED
      BY <3>1, <3>2, Zenon DEF ResolverTypeOK
  <2> QED
    BY <2>1, Zenon DEF ResolverTypeOK, ResolverRestart, StartResolver, Tick,
                       SendResolverPush, ChangeRecords
<1>3. rsPc' \in States
  BY DEF ResolverTypeOK, ResolverRestart, StartResolver, Tick, SendResolverPush,
         ChangeRecords
<1> QED
  BY <1>1, <1>2, <1>3, Zenon DEF ResolverTypeOK

\* A request starts a Reconcile or is ignored.
LEMMA RequestType ==
    ASSUME TypeOK, NEW k, ReceiveRequest(k, store, imported, dns)
    PROVE  ManagerTypeOK'
<1>0. ManagerTypeOK /\ store \in [Services -> Object \cup {NoService}]
  BY Zenon DEF TypeOK, ControllerTypeOK, ServiceMap
<1>1. CASE k \in Reconcilers
  <2>1. /\ Reconcile(k, store, imported, dns)
        /\ UNCHANGED <<resources, rmPc, failed>>
        /\ initial' \subseteq initial
    BY <1>1, Zenon DEF ReceiveRequest
  <2> QED
    BY <1>0, <1>1, <2>1, ReconcileType, Zenon
<1>2. CASE k \notin Reconcilers
  BY <1>0, <1>2, Zenon DEF ReceiveRequest, ManagerTypeOK
<1> QED
  BY <1>1, <1>2, Zenon

LEMMA NextController ==
    ASSUME TypeOK, [Next]_vars
    PROVE  ControllerTypeOK'
<1>1. CASE UNCHANGED controllerVars
  BY <1>1, Zenon DEF controllerVars, ControllerTypeOK, TypeOK
<1>2. ControllerTypeOK
  BY Zenon DEF TypeOK
<1> QED
  BY <1>1, <1>2, ControllerType, Zenon
     DEF Next, vars, InformerStep, WorkerStep, McpPush, Connect, ImportPush, ResolverStep,
         ResolverPush, ManagerStep, FatalRestart, NewProcess, EnvironmentStep, UserChanges,
         DnsChanges, Receive, StreamFails, CallFails, ListerFails, ProcessRestarts

LEMMA NextClient ==
    ASSUME TypeOK, [Next]_vars
    PROVE  ClientTypeOK'
<1>1. CASE UNCHANGED clientVars
  BY <1>1, Zenon DEF clientVars, ClientTypeOK, TypeOK
<1>2. ClientTypeOK
  BY Zenon DEF TypeOK
<1>3. CASE NewProcess
  <2>1. 0 \in Nat /\ <<>> \in Seq(ImportTypeUrls)
    OBVIOUS
  <2> QED
    BY <1>3, <2>1, Zenon DEF NewProcess, ClientTypeOK
<1>4. ASSUME NEW c \in Clients, NEW res \in Responses, Receive(c, res)
      PROVE  ClientTypeOK'
  <2>1. res \in SUBSET FederatedService
    BY MeshAssumption, Zenon
  <2>2. Handle(c, res)
    BY <1>4, Zenon DEF Receive
  <2> QED
    BY <1>2, <2>1, <2>2, ClientType, Zenon
<1> QED
  BY <1>1, <1>2, <1>3, <1>4, ClientType, Zenon
     DEF Next, vars, InformerStep, WorkerStep, McpPush, Connect, ImportPush, ResolverStep,
         ResolverPush, ManagerStep, FatalRestart, EnvironmentStep, UserChanges,
         DnsChanges, StreamFails, CallFails, ListerFails, ProcessRestarts

LEMMA NextResolver ==
    ASSUME TypeOK, [Next]_vars
    PROVE  ResolverTypeOK'
<1>1. CASE UNCHANGED resolverVars
  BY <1>1, Zenon DEF resolverVars, ResolverTypeOK, TypeOK
<1>2. ResolverTypeOK
  BY Zenon DEF TypeOK
<1> QED
  BY <1>1, <1>2, ResolverType, Zenon
     DEF Next, vars, InformerStep, WorkerStep, McpPush, Connect, ImportPush, ResolverStep,
         ResolverPush, ManagerStep, FatalRestart, NewProcess, EnvironmentStep, UserChanges,
         DnsChanges, Receive, StreamFails, CallFails, ListerFails, ProcessRestarts

LEMMA NextManager ==
    ASSUME TypeOK, [Next]_vars
    PROVE  ManagerTypeOK'
<1>1. CASE UNCHANGED managerVars
  BY <1>1, Zenon DEF managerVars, ManagerTypeOK, TypeOK
<1>2. ManagerTypeOK /\ store \in [Services -> Object \cup {NoService}]
  BY Zenon DEF TypeOK, ControllerTypeOK, ServiceMap
<1>3. CASE \/ \E s \in Services : InformerStep(s)
           \/ \E name \in Names, ips \in Answers : DnsChanges(name, ips)
  <2>1. /\ UNCHANGED <<resources, rmPc, initial, failed, current, round, found, plan>>
        /\ \/ \E s \in Services : unseen' = unseen \cup Unwatched(s)
           \/ unseen' \in {unseen, unseen \cup {"WorkloadEntry"}}
    BY <1>3, Zenon DEF InformerStep, DnsChanges
  <2>2. \A s \in Services : Unwatched(s) \subseteq Kinds
    BY DEF Unwatched, ListingKinds, Kinds
  <2>3. "WorkloadEntry" \in Kinds
    BY DEF Kinds
  <2> QED
    BY <1>2, <2>1, <2>2, <2>3, Zenon DEF ManagerTypeOK
<1>4. CASE ManagerStep
  <2>1. ASSUME NEW k \in initial, ReconcileNext(k, store, imported, dns)
        PROVE  ManagerTypeOK'
    <3>1. /\ Reconcile(k, store, imported, dns)
          /\ UNCHANGED <<resources, rmPc, failed>>
          /\ initial' \subseteq initial
      BY <2>1, Zenon DEF ReconcileNext
    <3>2. k \in Reconcilers
      BY <1>2, Zenon DEF ManagerTypeOK
    <3> QED
      BY <1>2, <3>1, <3>2, ReconcileType, Zenon
  <2> QED
    BY <1>2, <1>4, <2>1, ListSelectorType, CallType, OtherManagerType, Zenon DEF ManagerStep
<1> QED
  BY <1>1, <1>2, <1>3, <1>4, OtherManagerType, ListFailsType, RequestType, Zenon
     DEF Next, vars, WorkerStep, McpPush, Connect, ImportPush, ResolverStep,
         ResolverPush, FatalRestart, NewProcess, EnvironmentStep, UserChanges,
         Receive, StreamFails, CallFails, ListerFails, ProcessRestarts

LEMMA NextBounds ==
    ASSUME TypeOK, [Next]_vars
    PROVE  /\ changes' \in 0..MaxChanges
           /\ updates' \in 0..MaxUpdates
           /\ faults' \in 0..MaxFaults
<1> USE MeshAssumption DEF TypeOK, boundVars
<1>1. CASE UNCHANGED boundVars
  BY <1>1
<1>2. CASE \E f : Fault(f)
  BY <1>2 DEF Fault
<1>3. CASE \/ \E s, obj : UserChanges(s, obj)
           \/ \E name, ips : DnsChanges(name, ips)
  BY <1>3 DEF UserChanges, DnsChanges
<1>4. CASE \E c, res : Receive(c, res)
  BY <1>4 DEF Receive
<1> QED
  BY <1>1, <1>2, <1>3, <1>4, Zenon
     DEF Next, vars, InformerStep, WorkerStep, McpPush, Connect, ImportPush, ResolverStep,
         ResolverPush, ManagerStep, FatalRestart, EnvironmentStep, StreamFails, CallFails,
         ListerFails, ProcessRestarts

LEMMA NextEntered ==
    ASSUME TypeOK, [Next]_vars
    PROVE  entered' \subseteq Clients \X Services
<1>1. entered \subseteq Clients \X Services
  BY Zenon DEF TypeOK
<1>2. CASE ManagerStep
  <2>1. \A r : EnteredBy(r) \subseteq Clients \X Services
    BY Zenon DEF EnteredBy
  <2> HIDE DEF EnteredBy
  <2> QED
    BY <1>1, <1>2, <2>1, Zenon DEF ManagerStep
<1>3. CASE entered' \subseteq entered
  BY <1>1, <1>3, Zenon
<1>4. CASE entered' = {}
  BY <1>4, Zenon
<1> QED
  BY <1>2, <1>3, <1>4, Zenon
     DEF Next, vars, InformerStep, WorkerStep, McpPush, Connect, ImportPush, ResolverStep,
         ResolverPush, FatalRestart, NewProcess, EnvironmentStep, UserChanges,
         DnsChanges, Receive, StreamFails, CallFails, ListerFails, ProcessRestarts

LEMMA NextType == TypeOK /\ [Next]_vars => TypeOK'
  BY NextController, NextClient, NextResolver, NextManager, NextBounds, NextEntered, Zenon
     DEF TypeOK

LEMMA InitType == Init => TypeOK
<1> SUFFICES ASSUME Init PROVE TypeOK
  OBVIOUS
<1>1. ControllerTypeOK
  <2>1. <<>> \in Seq(TypeUrls)
    OBVIOUS
  <2> QED
    BY <2>1, InitialEventsType, Zenon DEF Init, ControllerInit, ControllerTypeOK
<1>2. ClientTypeOK
  <2>1. 0 \in Nat /\ <<>> \in Seq(ImportTypeUrls)
    OBVIOUS
  <2> QED
    BY <2>1, Zenon DEF Init, ClientInit, ClientTypeOK
<1>3. ResolverTypeOK
  BY DEF Init, ResolverInit, ResolverTypeOK
<1>4. ManagerTypeOK
  <2>1. 0 \in Nat
    OBVIOUS
  <2> QED
    BY <2>1, Zenon DEF Init, ManagerInit, ManagerTypeOK, UniqueKeys, NoPlan
<1>5. /\ changes \in 0..MaxChanges /\ updates \in 0..MaxUpdates
      /\ faults \in 0..MaxFaults
  BY MeshAssumption DEF Init
<1> QED
  BY <1>1, <1>2, <1>3, <1>4, <1>5, Zenon DEF Init, TypeOK

\* Every variable of a controller and of its manager keeps its type. In particular
\* no call and no list is left over when no Reconcile is running, no call is made
\* before the lists are complete, and the resolver remembers only what a lookup
\* returned.
THEOREM TypeCorrect == Spec => []TypeOK
  BY InitType, NextType, PTL DEF Spec

-----------------------------------------------------------------------------
(* The entries of imported services stay.                                  *)

\* What a Reconcile of ServiceEntries applies and deletes.
LEMMA EntryPlan ==
    ASSUME TypeOK, NEW all, NEW p \in Plans("ServiceEntry", all, store, imported, dns)
    PROVE  /\ \A q \in p.apply : q.key = <<Local.controlPlane, q.key[2]>>
           /\ \A e \in Clients \X Services :
                 e[2] \in Hosts(imported[e[1]]) /\ store[e[2]] = NoService
                     => \A o \in p.delete : o.key # EntryKey(e)
<1> DEFINE old == ListByLabel("ServiceEntry", PeerLabel)
<1>1. p \in ServiceEntryPlans(store, imported)
  BY DEF Plans
<1>2. PICK d \in ServiceEntries(store, imported) : p = Sync(d, old)
  BY <1>1, Zenon DEF ServiceEntryPlans
<1> HIDE DEF old
<1>3. /\ p.apply = d \ old
      /\ p.delete = {o \in old : \A r \in d : r.key # o.key}
  BY <1>2 DEF Sync
<1>4. imported \in [Peers -> SUBSET FederatedService]
  BY MeshAssumption, Zenon DEF TypeOK, ClientTypeOK
<1>5. /\ \A q \in d : q.key = <<Local.controlPlane, q.key[2]>>
      /\ \A m \in Missing(store, imported) :
            \E q \in d : q.key = <<Local.controlPlane, EntryName(m[1], m[2])>>
  BY <1>4, ServiceEntriesCover
<1>6. \A q \in p.apply : q.key = <<Local.controlPlane, q.key[2]>>
  BY <1>3, <1>5, Zenon
<1>7. ASSUME NEW e \in Clients \X Services, e[2] \in Hosts(imported[e[1]]),
             store[e[2]] = NoService, NEW o \in p.delete
      PROVE  o.key # EntryKey(e)
  <2>1. e[1] \in Peers
    BY MeshAssumption
  <2>2. PICK i \in imported[e[1]] : e[2] = i.hostname
    BY <1>7, Zenon DEF Hosts
  <2>3. Remotes[e[1]].addresses # <<>>
    BY <2>1, RemoteNames, Zenon
  <2>4. <<i, e[1]>> \in Missing(store, imported)
    <3> DEFINE of(r) == {<<j, r>> : j \in {x \in imported[r] : store[x.hostname] = NoService}}
               remotes == {q \in Peers : Remotes[q].addresses # <<>>}
    <3>1. Missing(store, imported) = UNION {of(r) : r \in remotes}
      BY DEF Missing
    <3>2. <<i, e[1]>> \in of(e[1])
      BY <1>7, <2>2, Zenon
    <3>3. e[1] \in remotes
      BY <2>1, <2>3, Zenon
    <3> HIDE DEF of, remotes
    <3> QED
      BY <3>1, <3>2, <3>3, Zenon
  <2> DEFINE m == <<i, e[1]>>
  <2>5. m[1] = i /\ m[2] = e[1]
    OBVIOUS
  <2> HIDE DEF m
  <2>6. PICK q \in d : q.key = <<Local.controlPlane, EntryName(m[1], m[2])>>
    BY <1>5, <2>4, Zenon DEF m
  <2>7. EntryName(m[1], m[2]) = EntryName([hostname |-> e[2]], e[1])
    BY <2>2, <2>5, Zenon DEF EntryName
  <2>8. q.key = EntryKey(e)
    BY <2>6, <2>7, Zenon DEF EntryKey
  <2> QED
    BY <1>3, <2>8, Zenon
<1> QED
  BY <1>6, <1>7, Zenon

\* A Reconcile plans to delete no entry of an import.
LEMMA LoopKeepsEntries ==
    ASSUME EntryInv, NEW k \in Reconcilers, NEW set, NEW n,
           Loop(k, set, n, store, imported, dns), current' = k,
           UNCHANGED <<resources, store, imported, entered>>
    PROVE  EntriesInControlPlane' /\ AppliedAreKept' /\ \A e \in entered' : EntryIsKept(e)'
<1>1. /\ current' = k
      /\ \/ plan' \in Plans(k, set, store, imported, dns)
         \/ plan' = NoPlan /\ k # "ServiceEntry"
  BY DEF Loop, ListingKinds
<1>2. NoPlan.apply = {} /\ NoPlan.delete = {}
  BY DEF NoPlan
<1>3. AppliedAreKept'
  BY <1>1, <1>2, PlanKeys, Zenon DEF AppliedAreKept
<1>4. TypeOK /\ entered \subseteq Clients \X Services
  BY Zenon DEF EntryInv, TypeOK
<1>5. CASE k = "ServiceEntry"
  <2>1. PlanOf("ServiceEntry")' = plan'
    BY <1>1, <1>5, Zenon DEF PlanOf
  <2>2. /\ \A q \in plan'.apply : q.key = <<Local.controlPlane, q.key[2]>>
        /\ \A e \in Clients \X Services :
              e[2] \in Hosts(imported[e[1]]) /\ store[e[2]] = NoService
                  => \A o \in plan'.delete : o.key # EntryKey(e)
    BY <1>1, <1>4, <1>5, EntryPlan, Zenon
  <2>3. EntriesInControlPlane'
    BY <2>1, <2>2, Zenon DEF EntryInv, EntriesInControlPlane
  <2>4. \A e \in entered' : EntryIsKept(e)'
    BY <1>4, <2>1, <2>2, Zenon DEF EntryInv, EntryIsKept, EntryKey
  <2> QED
    BY <1>3, <2>3, <2>4, Zenon
<1>6. CASE k # "ServiceEntry"
  <2>1. PlanOf("ServiceEntry")' = NoPlan
    BY <1>1, <1>6, Zenon DEF PlanOf
  <2> QED
    BY <1>2, <1>3, <2>1, Zenon DEF EntryInv, EntriesInControlPlane, EntryIsKept, EntryKey
<1> QED
  BY <1>5, <1>6, Zenon

\* The steps that change neither resources nor plans nor inputs.
LEMMA SameEntries ==
    ASSUME EntryInv, UNCHANGED <<resources, current, plan, store, imported>>,
           entered' \subseteq entered
    PROVE  EntriesInControlPlane' /\ AppliedAreKept' /\ \A e \in entered' : EntryIsKept(e)'
  BY Zenon DEF EntryInv, EntriesInControlPlane, AppliedAreKept, EntryIsKept, EntryKey, PlanOf

\* A call adds the entries of the pairs that enter, and takes away none that stays.
LEMMA CallKeepsEntries ==
    ASSUME EntryInv, NEW r, ApplyResource(r) \/ DeleteResource(r),
           UNCHANGED <<store, imported>>,
           entered' = IF current = "ServiceEntry"
                      THEN entered \cup UNION {EnteredBy(q) : q \in plan.apply \ plan'.apply}
                      ELSE entered
    PROVE  EntriesInControlPlane' /\ AppliedAreKept' /\ \A e \in entered' : EntryIsKept(e)'
<1> DEFINE old == resources["ServiceEntry"]
           new == resources'["ServiceEntry"]
<1>0. /\ ManagerTypeOK /\ EntriesInControlPlane /\ AppliedAreKept
      /\ \A e \in entered : EntryIsKept(e)
  BY Zenon DEF EntryInv, TypeOK
<1>1. /\ current' = current
      /\ plan'.apply \subseteq plan.apply /\ plan'.delete \subseteq plan.delete
  BY <1>0 DEF ApplyResource, DeleteResource, ManagerTypeOK
<1>2. AppliedAreKept'
  BY <1>0, <1>1, Zenon DEF AppliedAreKept
<1>3. CASE current # "ServiceEntry"
  <2>1. resources'["ServiceEntry"] = resources["ServiceEntry"]
    BY <1>0, <1>3 DEF ApplyResource, DeleteResource, ManagerTypeOK, Kinds
  <2>2. PlanOf("ServiceEntry") = NoPlan /\ PlanOf("ServiceEntry")' = NoPlan
    BY <1>1, <1>3, Zenon DEF PlanOf
  <2>3. entered' = entered
    BY <1>3
  <2> QED
    BY <1>0, <1>2, <2>1, <2>2, <2>3, Zenon DEF EntriesInControlPlane, EntryIsKept, EntryKey
<1>4. CASE current = "ServiceEntry"
  <2>1. PlanOf("ServiceEntry") = plan /\ PlanOf("ServiceEntry")' = plan'
    BY <1>1, <1>4, Zenon DEF PlanOf
  <2>2. CASE ApplyResource(r)
    <3>1. /\ r \in plan.apply
          /\ new = {q \in old : q.key # r.key} \cup {r}
          /\ plan'.apply = plan.apply \ {r} /\ plan'.delete = plan.delete
      BY <1>0, <1>4, <2>2 DEF ApplyResource, ManagerTypeOK, Kinds
    <3> HIDE DEF old, new
    <3>2. r.key = <<Local.controlPlane, r.key[2]>>
      BY <1>0, <2>1, <3>1, Zenon DEF EntriesInControlPlane
    <3>3. EntriesInControlPlane'
      BY <1>0, <1>1, <2>1, <3>1, Zenon DEF EntriesInControlPlane, old, new
    <3>4. ASSUME NEW e \in entered PROVE EntryIsKept(e)'
      <4>1. \E q \in new : q.key = EntryKey(e)
        BY <1>0, <3>1, Zenon DEF EntryIsKept, old
      <4> QED
        BY <1>0, <1>1, <2>1, <4>1, Zenon DEF EntryIsKept, EntryKey, new
    <3>5. ASSUME NEW e \in EnteredBy(r) PROVE EntryIsKept(e)'
      <4>1. /\ e[2] \in Hosts(imported[e[1]])
            /\ store[e[2]] = NoService
            /\ r.key[2] = EntryName([hostname |-> e[2]], e[1])
        BY Zenon DEF EnteredBy
      <4>2. r.key = EntryKey(e)
        BY <3>2, <4>1, Zenon DEF EntryKey
      <4>3. \A o \in plan'.delete : o.key # EntryKey(e)
        BY <1>0, <3>1, <4>2, Zenon DEF AppliedAreKept
      <4> QED
        BY <2>1, <3>1, <4>1, <4>2, <4>3, Zenon DEF EntryIsKept, EntryKey, new
    <3>6. \A q \in plan.apply \ plan'.apply : q = r
      BY <3>1, Zenon
    <3> QED
      BY <1>2, <1>4, <3>3, <3>4, <3>5, <3>6, Zenon
  <2>3. CASE DeleteResource(r)
    <3>1. /\ r \in plan.delete
          /\ new = {q \in old : q.key # r.key}
          /\ plan'.apply = plan.apply
      BY <1>0, <1>4, <2>3 DEF DeleteResource, ManagerTypeOK, Kinds
    <3> HIDE DEF old, new
    <3>2. entered' = entered
      BY <1>4, <3>1, Zenon
    <3>3. EntriesInControlPlane'
      BY <1>0, <1>1, <2>1, <3>1, Zenon DEF EntriesInControlPlane, old, new
    <3>4. ASSUME NEW e \in entered PROVE EntryIsKept(e)'
      <4>1. r.key # EntryKey(e)
        BY <1>0, <2>1, <3>1, Zenon DEF EntryIsKept
      <4>2. \E q \in new : q.key = EntryKey(e)
        BY <1>0, <3>1, <4>1, Zenon DEF EntryIsKept, old
      <4> QED
        BY <1>0, <1>1, <2>1, <4>2, Zenon DEF EntryIsKept, EntryKey, new
    <3> QED
      BY <1>2, <3>2, <3>3, <3>4, Zenon
  <2> QED
    BY <2>2, <2>3, Zenon
<1> QED
  BY <1>3, <1>4, Zenon

LEMMA EntryInvNext == EntryInv /\ [Next]_vars => EntryInv'
<1> SUFFICES ASSUME EntryInv, [Next]_vars
             PROVE  EntriesInControlPlane' /\ AppliedAreKept'
                    /\ \A e \in entered' : EntryIsKept(e)'
  BY NextType, Zenon DEF EntryInv
<1> DEFINE Goal == EntriesInControlPlane' /\ AppliedAreKept'
                   /\ \A e \in entered' : EntryIsKept(e)'
<1>0. /\ TypeOK /\ EntriesInControlPlane /\ AppliedAreKept
      /\ \A e \in entered : EntryIsKept(e)
  BY Zenon DEF EntryInv
<1>00. NoPlan.apply = {} /\ NoPlan.delete = {}
  BY DEF NoPlan
<1>1. ASSUME NEW s \in Services, InformerStep(s) PROVE Goal
  <2>1. /\ UNCHANGED <<resources, current, plan, imported>>
        /\ entered' = {e \in entered : e[2] # s \/ cluster[s] = NoService}
        /\ store' = [store EXCEPT ![s] = cluster[s]]
    BY <1>1, Zenon
       DEF InformerStep, clientVars, AddFunc, UpdateFunc, DeleteFunc, Enqueue
  <2>2. store \in ServiceMap
    BY <1>0, Zenon DEF TypeOK, ControllerTypeOK
  <2>3. ASSUME NEW e \in entered' PROVE store'[e[2]] = NoService
    <3>1. e \in entered /\ (e[2] # s \/ cluster[s] = NoService) /\ store[e[2]] = NoService
      BY <1>0, <2>1, Zenon DEF EntryIsKept
    <3>2. e[2] \in Services
      BY <1>0, <3>1 DEF TypeOK
    <3> QED
      BY <2>1, <2>2, <3>1, <3>2 DEF ServiceMap
  <2> QED
    BY <1>0, <2>1, <2>3, Zenon
       DEF EntriesInControlPlane, AppliedAreKept, EntryIsKept, EntryKey, PlanOf
<1>2. ASSUME NEW c \in Clients, NEW res \in Responses, Receive(c, res) PROVE Goal
  <2>1. /\ UNCHANGED <<resources, current, plan, store>>
        /\ entered' = {e \in entered : e[1] # c \/ e[2] \in Hosts(res)}
        /\ imported' = [imported EXCEPT ![c] = res]
    BY <1>2, Zenon DEF Receive, controllerVars, managerVars, Handle, Update
  <2>2. imported \in [Clients -> SUBSET FederatedService]
    BY <1>0, Zenon DEF TypeOK, ClientTypeOK
  <2>3. ASSUME NEW e \in entered' PROVE e[2] \in Hosts(imported'[e[1]])
    <3>1. e \in entered /\ (e[1] # c \/ e[2] \in Hosts(res))
          /\ e[2] \in Hosts(imported[e[1]])
      BY <1>0, <2>1, Zenon DEF EntryIsKept
    <3>2. e[1] \in Clients
      BY <1>0, <3>1 DEF TypeOK
    <3>3. imported'[e[1]] = IF e[1] = c THEN res ELSE imported[e[1]]
      BY <2>1, <2>2, <3>2
    <3> QED
      BY <3>1, <3>3, Zenon
  <2> QED
    BY <1>0, <2>1, <2>3, Zenon
       DEF EntriesInControlPlane, AppliedAreKept, EntryIsKept, EntryKey, PlanOf
<1>3. CASE McpPush \/ ResolverPush \/ \E c \in Clients : ImportPush(c)
  <2>1. /\ UNCHANGED <<resources, store, imported, entered>>
        /\ \/ \E k \in Reconcilers : Reconcile(k, store, imported, dns)
           \/ UNCHANGED <<current, plan>>
    BY <1>3, Zenon
       DEF McpPush, ResolverPush, ImportPush, ReceiveRequest, SendMcpPush, SendPush,
           SendImportPush, controllerVars, clientVars
  <2> QED
    BY <2>1, LoopKeepsEntries, SameEntries, Zenon DEF Reconcile
<1>4. CASE ManagerStep
  <2>0. /\ UNCHANGED <<store, imported>>
        /\ entered' = IF current = "ServiceEntry"
                      THEN entered \cup UNION {EnteredBy(q) : q \in plan.apply \ plan'.apply}
                      ELSE entered
    BY <1>4, Zenon DEF ManagerStep, controllerVars, clientVars
  <2>1. ASSUME NEW k \in initial, ReconcileNext(k, store, imported, dns) PROVE Goal
    <3>1. current = "none" /\ UNCHANGED resources /\ Reconcile(k, store, imported, dns)
      BY <2>1, Zenon DEF ReconcileNext, Reconcile
    <3>2. entered' = entered /\ k \in Reconcilers
      BY <1>0, <2>0, <3>1 DEF TypeOK, ManagerTypeOK
    <3> QED
      BY <2>0, <3>1, <3>2, LoopKeepsEntries, Zenon DEF Reconcile
  <2>4. CASE ListSelector(store, imported, dns)
    <3>1. /\ current' = current /\ UNCHANGED resources /\ round # 0
          /\ \E set, n : Loop(current, set, n, store, imported, dns)
      BY <2>4, Zenon DEF ListSelector
    <3>2. current \in Reconcilers /\ current # "ServiceEntry"
      BY <1>0, <3>1 DEF TypeOK, ManagerTypeOK, ListingKinds
    <3>3. entered' = entered
      BY <2>0, <3>2, Zenon
    <3> QED
      BY <2>0, <3>1, <3>2, <3>3, LoopKeepsEntries, Zenon
  <2>2. ASSUME NEW r, ApplyResource(r) \/ DeleteResource(r) PROVE Goal
    BY <2>0, <2>2, CallKeepsEntries, Zenon
  <2>3. CASE ReconcileReturns \/ Start
    <3>1. UNCHANGED <<resources, plan>> /\ plan = NoPlan
      BY <1>0, <2>3, Zenon DEF ReconcileReturns, Start, TypeOK, ManagerTypeOK
    <3>2. entered' = entered
      BY <2>0, <3>1, Zenon
    <3>3. PlanOf("ServiceEntry") = NoPlan /\ PlanOf("ServiceEntry")' = NoPlan
      BY <3>1, Zenon DEF PlanOf
    <3> QED
      BY <1>0, <2>0, <3>1, <3>2, <3>3, Zenon
         DEF EntriesInControlPlane, AppliedAreKept, EntryIsKept, EntryKey
  <2> QED
    BY <1>4, <2>1, <2>2, <2>3, <2>4, Zenon DEF ManagerStep
<1>5. CASE CallFails \/ FatalRestart \/ ProcessRestarts
  <2>1. /\ UNCHANGED resources /\ plan' = NoPlan
        /\ \/ entered' = {}
           \/ entered' = entered /\ UNCHANGED <<store, imported>>
    BY <1>5, Zenon
       DEF CallFails, FatalRestart, ProcessRestarts, NewProcess, ReconcileFails,
           ManagerRestart, controllerVars, clientVars
  <2>2. PlanOf("ServiceEntry")' = NoPlan
    BY <2>1, Zenon DEF PlanOf
  <2> QED
    BY <1>0, <1>00, <2>1, <2>2, Zenon
       DEF EntriesInControlPlane, AppliedAreKept, EntryIsKept, EntryKey
<1>9. CASE ListerFails
  <2>1. /\ round # 0 /\ UNCHANGED <<resources, store, imported, entered>>
        /\ \/ current' = "none" /\ plan' = plan
           \/ current' = current /\ \E set, n : Loop(current, set, n, store, imported, dns)
    BY <1>9, Zenon DEF ListerFails, ListFails, controllerVars, clientVars
  <2>2. current \in Reconcilers /\ plan = NoPlan
    BY <1>0, <2>1 DEF TypeOK, ManagerTypeOK, ListingKinds
  <2>3. CASE current' = "none" /\ plan' = plan
    <3>1. PlanOf("ServiceEntry") = NoPlan /\ PlanOf("ServiceEntry")' = NoPlan
      BY <2>2, <2>3, Zenon DEF PlanOf
    <3> QED
      BY <1>0, <2>1, <2>3, <3>1, Zenon
         DEF EntriesInControlPlane, AppliedAreKept, EntryIsKept, EntryKey
  <2> QED
    BY <2>1, <2>2, <2>3, LoopKeepsEntries, Zenon
<1>6. CASE UNCHANGED <<resources, current, plan, store, imported, entered>>
  BY <1>6, SameEntries, Zenon
<1>7. CASE UNCHANGED vars
  BY <1>7, <1>6, Zenon DEF vars, controllerVars, clientVars, managerVars
<1>8. CASE \/ WorkerStep \/ ResolverStep \/ \E c \in Clients : Connect(c) \/ StreamFails(c)
           \/ \E s \in Services, obj \in Object \cup {NoService} : UserChanges(s, obj)
           \/ \E name \in Names, ips \in Answers : DnsChanges(name, ips)
  <2> USE DEF controllerVars, clientVars, managerVars
  <2>1. CASE WorkerStep \/ ResolverStep
    BY <1>6, <2>1, Zenon DEF WorkerStep, ResolverStep, ProcessNextItem, SendFdsPush, SendPush
  <2>2. CASE \E c \in Clients : Connect(c) \/ StreamFails(c)
    BY <1>6, <2>2, Zenon DEF Connect, StreamFails, Run, Restart, RunFails, RecvFails
  <2>3. CASE \E s \in Services, obj \in Object \cup {NoService} : UserChanges(s, obj)
    BY <1>6, <2>3, Zenon DEF UserChanges, ChangeService
  <2>4. CASE \E name \in Names, ips \in Answers : DnsChanges(name, ips)
    BY <1>6, <2>4, Zenon DEF DnsChanges
  <2> QED
    BY <1>8, <2>1, <2>2, <2>3, <2>4, Zenon
<1> QED
  BY <1>1, <1>2, <1>3, <1>4, <1>5, <1>7, <1>8, <1>9, Zenon DEF Next, EnvironmentStep

LEMMA EntryInvInit == Init => EntryInv
<1> SUFFICES ASSUME Init PROVE EntryInv
  OBVIOUS
<1>1. /\ resources["ServiceEntry"] = {} /\ plan = NoPlan /\ entered = {}
  BY DEF Init, ManagerInit, Kinds
<1>2. NoPlan.apply = {} /\ PlanOf("ServiceEntry") = NoPlan
  BY <1>1 DEF NoPlan, PlanOf
<1> QED
  BY <1>1, <1>2, InitType, Zenon DEF EntryInv, EntriesInControlPlane, AppliedAreKept

\* While a service stays imported from a remote and has no local Service, the
\* ServiceEntry that was applied for it stays.
THEOREM EntriesStay == Spec => []EnteredImportsStay
<1>1. ASSUME EntryInv PROVE EnteredImportsStay
  <2> SUFFICES ASSUME NEW e \in entered
               PROVE  \E r \in resources["ServiceEntry"] :
                          r.key[2] = EntryName([hostname |-> e[2]], e[1])
    BY Zenon DEF EnteredImportsStay
  <2>1. PICK q \in resources["ServiceEntry"] : q.key = EntryKey(e)
    BY <1>1, Zenon DEF EntryInv, EntryIsKept
  <2>2. q.key[2] = EntryName([hostname |-> e[2]], e[1])
    BY <2>1 DEF EntryKey
  <2> QED
    BY <2>2, Zenon
<1> QED
  BY <1>1, EntryInvInit, EntryInvNext, PTL DEF Spec

=============================================================================
