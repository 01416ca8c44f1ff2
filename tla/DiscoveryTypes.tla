--------------------------- MODULE DiscoveryTypes ---------------------------
(***************************************************************************)
(* Type correctness of Discovery, and what its operators return, for every *)
(* set of services, labels, rules, peers and faults and every bound.       *)
(***************************************************************************)
EXTENDS Discovery, TLAPS

-----------------------------------------------------------------------------
(* The export rules.                                                       *)

\* Selectors are numbered from 1, and a Service is exported if one matches it.
LEMMA ExportedAreSelected ==
    ASSUME NEW st \in ServiceMap
    PROVE  /\ Len(GetLabelSelectors) \in Nat
           /\ \A svc : Selected(svc) \subseteq 1..Len(GetLabelSelectors)
           /\ \A s : s \in Exported(st) <=>
                 s \in Services /\ st[s] # NoService /\ Selected(st[s]) # {}
<1>1. GetLabelSelectors \in Seq(SUBSET Labels)
  BY ExportAssumption DEF GetLabelSelectors
<1>2. \A svc : MatchExportRules(svc) <=> Selected(svc) # {}
  BY <1>1 DEF MatchExportRules, Selected, Range
<1> QED
  BY <1>1, <1>2 DEF Exported, Selected

\* The host names that one round of GenerateResponse adds.
LEMMA RoundListsSelected ==
    ASSUME NEW st \in ServiceMap, NEW n
    PROVE  /\ ListExports(st, n) \in SUBSET FederatedService
           /\ \A s : s \in Hosts(ListExports(st, n)) <=>
                 s \in Services /\ st[s] # NoService /\ n \in Selected(st[s])
<1>1. \A s : Export(st, s).hostname = s
  BY DEF Export
<1>2. \A r : r \in ListExports(st, n) <=>
               \E s \in Services : /\ st[s] # NoService /\ n \in Selected(st[s])
                                 /\ r = Export(st, s)
  BY DEF ListExports, List
<1>3. ListExports(st, n) \in SUBSET FederatedService
  BY <1>2 DEF Export, ServiceMap, Object, FederatedService
<1> QED
  BY <1>1, <1>2, <1>3 DEF Hosts

\* The LIST of a starting informer queues well-formed events.
LEMMA InitialEventsType ==
    ASSUME NEW st \in ServiceMap, NEW q \in InitialEvents(st)
    PROVE  q \in Seq(Event)
<1> DEFINE present == {t \in Services : st[t] # NoService}
           E == {[eventType |-> "create", key |-> s, obj |-> st[s],
                  oldObj |-> NoService] : s \in present}
<1>1. E \subseteq Event
  BY DEF Event, ServiceMap
<1>2. PICK n \in 0..Cardinality(Services) : q \in Bijection(1..n, E)
  BY DEF InitialEvents
<1>3. n \in Nat /\ q \in [1..n -> E]
  BY <1>2 DEF Bijection, Injection
<1> HIDE DEF E
<1> QED
  BY <1>1, <1>3

-----------------------------------------------------------------------------
(* Type correctness.                                                       *)

LEMMA AppendType ==
    ASSUME NEW S, NEW q \in Seq(S), NEW e \in S
    PROVE  Append(q, e) \in Seq(S)
  OBVIOUS

LEMMA InitType == Init => TypeOK
<1> SUFFICES ASSUME Init PROVE TypeOK
  OBVIOUS
<1>1. ControllerTypeOK
  <2>1. cluster \in ServiceMap /\ queue \in InitialEvents(cluster)
    BY DEF Init, ControllerInit
  <2>2. queue \in Seq(Event)
    BY <2>1, InitialEventsType
  <2> QED
    BY <2>1, <2>2 DEF Init, ControllerInit, ControllerTypeOK
<1>2. ServerTypeOK
  <2>1. <<>> \in Seq(SUBSET FederatedService) /\ {} \in SUBSET FederatedService
    OBVIOUS
  <2>2. responses \in [Conns -> Seq(SUBSET FederatedService)]
    BY <2>1 DEF Init, ServerInit
  <2>3. snapshot \in [Conns -> SUBSET FederatedService]
    BY <2>1 DEF Init, ServerInit
  <2> QED
    BY Zenon, <2>2, <2>3 DEF Init, ServerInit, ServerTypeOK
<1>3. ClientTypeOK
  BY DEF Init, ClientInit, ClientTypeOK
<1> QED
  BY <1>1, <1>2, <1>3, ServerAssumption, DiscoveryAssumption
     DEF Init, TypeOK, Exported

\* The actions of ServiceController keep its types.
LEMMA ControllerType ==
    ASSUME ControllerTypeOK,
           \/ ControllerRestart
           \/ \E s \in Services :
                 \/ AddFunc(s) \/ UpdateFunc(s) \/ DeleteFunc(s)
                 \/ \E obj \in Object \cup {NoService} : ChangeService(s, obj)
           \/ ProcessNextItem \/ SendMcpPush \/ SendFdsPush
           \/ UNCHANGED controllerVars
    PROVE  ControllerTypeOK'
<1> USE DEF ControllerTypeOK
<1>1. CASE ControllerRestart
  BY <1>1, InitialEventsType DEF ControllerRestart
<1>2. ASSUME NEW s \in Services, NEW obj \in Object \cup {NoService},
             ChangeService(s, obj)
      PROVE  ControllerTypeOK'
  BY <1>2 DEF ChangeService, ServiceMap
<1>3. ASSUME NEW s \in Services, AddFunc(s) \/ UpdateFunc(s) \/ DeleteFunc(s)
      PROVE  ControllerTypeOK'
  <2>1. PICK event \in Event : queue' = Append(queue, event)
    BY <1>3 DEF AddFunc, UpdateFunc, DeleteFunc, Enqueue, Event, ServiceMap
  <2>2. store' = [store EXCEPT ![s] = cluster[s]] /\ UNCHANGED <<cluster, pushes>>
    BY <1>3 DEF AddFunc, UpdateFunc, DeleteFunc, Enqueue
  <2> QED
    BY <2>1, <2>2 DEF ServiceMap
<1>4. CASE ProcessNextItem
  <2>1. TriggerXDSPush \in Seq(TypeUrls) /\ <<>> \in Seq(TypeUrls)
    BY DEF TriggerXDSPush, TypeUrls
  <2> QED
    BY <1>4, <2>1 DEF ProcessNextItem
<1>5. CASE SendMcpPush \/ SendFdsPush
  BY SMTT(30), <1>5 DEF SendMcpPush, SendFdsPush, SendPush
<1>6. CASE UNCHANGED controllerVars
  BY <1>6 DEF controllerVars
<1> QED
  BY <1>1, <1>2, <1>3, <1>4, <1>5, <1>6

\* The actions of AdsServer keep its types.
LEMMA ServerType ==
    ASSUME ServerTypeOK, store \in ServiceMap,
           \/ ServerRestart
           \/ \E i \in Conns :
                 \/ OpenStream(i) \/ StreamAggregatedResources(i)
                 \/ RecvRequest(i, store) \/ ListNextSelector(i, store)
                 \/ RecvRequestFails(i)
                 \/ SendSnapshot(i) \/ SendSnapshotFails(i) \/ RecvError(i)
                 \/ PushSend(i) \/ PushSendFails(i)
                 \/ BreakStream(i) \/ LoseResponse(i)
           \/ ReceivePush \/ GeneratePush(store) \/ GeneratePushFails
           \/ CloseSubscribers \/ GracefulStop
           \/ UNCHANGED serverVars
    PROVE  ServerTypeOK'
<1> USE DEF ServerTypeOK, serverVars, loopVars, streamVars, recvVars
<1>1. CASE ServerRestart
  BY Zenon, <1>1 DEF ServerRestart
<1>2. ASSUME NEW i \in Conns, OpenStream(i)
      PROVE  ServerTypeOK'
  BY Zenon, <1>2 DEF OpenStream
<1>3. ASSUME NEW i \in Conns, StreamAggregatedResources(i)
      PROVE  ServerTypeOK'
  BY <1>3 DEF StreamAggregatedResources
<1>4. ASSUME NEW i \in Conns,
             \/ RecvRequest(i, store) \/ ListNextSelector(i, store)
             \/ RecvRequestFails(i)
      PROVE  ServerTypeOK'
  <2>1. PICK resources \in SUBSET FederatedService, n \in Nat, stale \in BOOLEAN :
            HoldSnapshot(i, resources, n, stale)
    <3>1. CASE RecvRequest(i, store)
      BY Zenon, <3>1, RoundListsSelected DEF RecvRequest
    <3>2. CASE ListNextSelector(i, store)
      <4>1. /\ snapshot[i] \cup ListExports(store, listed[i] + 1)
                  \in SUBSET FederatedService
            /\ listed[i] + 1 \in Nat /\ heldStale[i] \in BOOLEAN
        BY RoundListsSelected
      <4> QED
        BY Zenon, <3>2, <4>1 DEF ListNextSelector
    <3>3. CASE RecvRequestFails(i)
      BY Zenon, <3>3, ExportedAreSelected DEF RecvRequestFails
    <3> QED
      BY Zenon, <1>4, <3>1, <3>2, <3>3
  <2>2. request' \in [Conns -> BOOLEAN]
    BY Zenon, <1>4 DEF RecvRequest, ListNextSelector, RecvRequestFails
  <2>3. \E pc \in {"list", "send"}, m \in Nat :
           recvPc' = [recvPc EXCEPT ![i] = pc] /\ listed' = [listed EXCEPT ![i] = m]
    BY <2>1 DEF HoldSnapshot
  <2>4. /\ snapshot' = [snapshot EXCEPT ![i] = resources]
        /\ heldStale' = [heldStale EXCEPT ![i] = stale]
        /\ UNCHANGED <<loopVars, open, responses, lastStale>>
    BY <2>1 DEF HoldSnapshot
  <2> QED
    BY <2>2, <2>3, <2>4
<1>5. ASSUME NEW i \in Conns, SendSnapshot(i)
      PROVE  ServerTypeOK'
  BY Zenon, <1>5, AppendType DEF SendSnapshot, NextRequest
<1>6. ASSUME NEW i \in Conns, SendSnapshotFails(i) \/ RecvError(i)
      PROVE  ServerTypeOK'
  BY Zenon, <1>6 DEF SendSnapshotFails, RecvError, NextRequest
<1>7. ASSUME NEW i \in Conns, PushSend(i)
      PROVE  ServerTypeOK'
  BY Zenon, <1>7, AppendType DEF PushSend, VisitSubscriber
<1>8. ASSUME NEW i \in Conns, PushSendFails(i)
      PROVE  ServerTypeOK'
  BY Zenon, <1>8 DEF PushSendFails, VisitSubscriber
<1>9. ASSUME NEW i \in Conns, BreakStream(i)
      PROVE  ServerTypeOK'
  BY Zenon, <1>9 DEF BreakStream
<1>10. ASSUME NEW i \in Conns, LoseResponse(i)
       PROVE  ServerTypeOK'
  <2>1. SubSeq(responses[i], 1, Len(responses[i]) - 1)
            \in Seq(SUBSET FederatedService)
    OBVIOUS
  <2> QED
    BY <1>10, <2>1 DEF LoseResponse
<1>11. CASE ReceivePush
  <2>1. CASE subscribers = {}
    BY Zenon, <1>11, <2>1 DEF ReceivePush
  <2>2. CASE subscribers # {}
    <3>1. /\ loopPc' = "generate" /\ loopResources' = {} /\ loopListed' = 0
          /\ lostPush' = FALSE
          /\ UNCHANGED <<subscribers, todo, streamVars, recvVars>>
      BY <1>11, <2>2 DEF ReceivePush
    <3> QED
      BY Zenon, <3>1
  <2> QED
    BY Zenon, <2>1, <2>2
<1>12. CASE GeneratePush(store) \/ GeneratePushFails
  <2>1. ListExports(store, loopListed + 1) \in SUBSET FederatedService
    BY RoundListsSelected
  <2>2. CASE GeneratePush(store)
    <3>1. loopListed' \in Nat /\ loopPc' \in {"generate", "range"}
          /\ todo' \in {todo, subscribers}
      BY <2>2 DEF GeneratePush
    <3>2. loopResources' \in SUBSET FederatedService
      BY Zenon, <2>1, <2>2 DEF GeneratePush
    <3> QED
      BY Zenon, <2>2, <3>1, <3>2 DEF GeneratePush
  <2>3. CASE GeneratePushFails
    BY <2>3 DEF GeneratePushFails
  <2> QED
    BY <1>12, <2>2, <2>3
<1>13. CASE CloseSubscribers \/ GracefulStop
  BY Zenon, <1>13 DEF CloseSubscribers, GracefulStop
<1>14. CASE UNCHANGED serverVars
  BY <1>14
<1> QED
  BY Zenon, <1>1, <1>2, <1>3, <1>4, <1>5, <1>6, <1>7, <1>8, <1>9, <1>10, <1>11,
     <1>12, <1>13, <1>14

\* The actions of AdsClient keep its types.
LEMMA ClientType ==
    ASSUME ClientTypeOK,
           \/ \E c \in Clients :
                 \/ \E i \in Nat : Run(c, i)
                 \/ RunFails(c) \/ Restart(c) \/ RecvFails(c)
                 \/ \E resources \in SUBSET FederatedService : Handle(c, resources)
                 \/ HandleFails(c) \/ SendImportPush(c) \/ ClientRestart(c)
           \/ UNCHANGED clientVars
    PROVE  ClientTypeOK'
<1> USE DEF ClientTypeOK, clientVars
<1>1. ASSUME NEW c \in Clients, NEW i \in Nat, Run(c, i)
      PROVE  ClientTypeOK'
  BY <1>1 DEF Run
<1>2. ASSUME NEW c \in Clients, RunFails(c) \/ Restart(c) \/ RecvFails(c)
      PROVE  ClientTypeOK'
  BY Zenon, <1>2 DEF RunFails, Restart, RecvFails
<1>3. ASSUME NEW c \in Clients, NEW resources \in SUBSET FederatedService,
             Handle(c, resources)
      PROVE  ClientTypeOK'
  <2>1. <<"ServiceEntry", "WorkloadEntry", "DestinationRule">> \in Seq(ImportTypeUrls)
    BY DEF ImportTypeUrls
  <2> QED
    BY <1>3, <2>1 DEF Handle, Update
<1>4. ASSUME NEW c \in Clients, HandleFails(c)
      PROVE  ClientTypeOK'
  BY Zenon, <1>4 DEF HandleFails
<1>5. ASSUME NEW c \in Clients, SendImportPush(c)
      PROVE  ClientTypeOK'
  <2>1. Tail(sends[c]) \in Seq(ImportTypeUrls)
    BY <1>5 DEF SendImportPush
  <2> QED
    BY <1>5, <2>1 DEF SendImportPush
<1>6. ASSUME NEW c \in Clients, ClientRestart(c)
      PROVE  ClientTypeOK'
  <2>1. <<>> \in Seq(ImportTypeUrls)
    OBVIOUS
  <2> QED
    BY Zenon, <1>6, <2>1 DEF ClientRestart
<1>7. CASE UNCHANGED clientVars
  BY <1>7
<1> QED
  BY Zenon, <1>1, <1>2, <1>3, <1>4, <1>5, <1>6, <1>7

\* What a step does to the variables of Discovery itself.
LEMMA BoundsType ==
    ASSUME TypeOK, [Next]_vars
    PROVE  /\ conns' \in 0..MaxConns
           /\ changes' \in 0..MaxChanges
           /\ faults' \in 0..MaxFaults
           /\ stable' \in SUBSET Services
<1> USE ServerAssumption, DiscoveryAssumption DEF TypeOK, boundVars
<1>1. CASE UNCHANGED boundVars
  BY <1>1
<1>2. CASE \E kind : Fault(kind)
  BY <1>2 DEF Fault
<1>3. CASE \E s, obj : UserChanges(s, obj)
  BY <1>3 DEF UserChanges
<1>4. CASE \E c : Connect(c)
  BY <1>4 DEF Connect
<1> QED
  BY Zenon, <1>1, <1>2, <1>3, <1>4
     DEF Next, vars, InformerStep, WorkerStep, FdsPush, StreamStep, LoopStep,
         ClientStep, ConnectRefused, Reconnect, Receive, StreamEnds, ImportPush,
         EnvironmentStep, ConnectionBreaks, ResponseLost, ConnectFails,
         ReceiveMalformed, ListFails, ServeFails, ExporterRestarts, PeerRestarts

\* A client takes a response from a stream it has opened.
LEMMA TakeResponseType ==
    ASSUME ServerTypeOK, NEW c \in Clients, TakeResponse(c)
    PROVE  /\ Head(responses[stream[c]]) \in SUBSET FederatedService
           /\ ServerTypeOK'
  BY DEF TakeResponse, ServerTypeOK, loopVars, recvVars

LEMMA NextType == TypeOK /\ [Next]_vars => TypeOK'
<1> SUFFICES ASSUME TypeOK, [Next]_vars
             PROVE  ControllerTypeOK' /\ ServerTypeOK' /\ ClientTypeOK'
  BY BoundsType DEF TypeOK
<1> USE DEF TypeOK
<1>0. store \in ServiceMap
  BY Zenon DEF ControllerTypeOK
<1>1. ASSUME NEW s \in Services, InformerStep(s)
      PROVE  ControllerTypeOK' /\ ServerTypeOK' /\ ClientTypeOK'
  <2>1. ServerTypeOK'
    BY Zenon, <1>1 DEF InformerStep, ServerTypeOK, streamVars
  <2> QED
    BY Zenon, <1>0, <1>1, <2>1, ControllerType, ClientType DEF InformerStep
<1>2. CASE WorkerStep
  BY Zenon, <1>0, <1>2, ControllerType, ServerType, ClientType DEF WorkerStep
<1>3. CASE FdsPush
  BY Zenon, <1>0, <1>3, ControllerType, ServerType, ClientType DEF FdsPush
<1>4. ASSUME NEW i \in Conns, StreamStep(i)
      PROVE  ControllerTypeOK' /\ ServerTypeOK' /\ ClientTypeOK'
  BY Zenon, <1>0, <1>4, ControllerType, ServerType, ClientType DEF StreamStep
<1>5. CASE LoopStep
  BY Zenon, <1>0, <1>5, ControllerType, ServerType, ClientType DEF LoopStep
<1>6. ASSUME NEW c \in Clients, ClientStep(c)
      PROVE  ControllerTypeOK' /\ ServerTypeOK' /\ ClientTypeOK'
  <2>1. CASE Connect(c)
    <3>1. conns + 1 \in Conns /\ conns + 1 \in Nat
      BY SMTT(30), <2>1, ServerAssumption DEF Connect, Conns
    <3> QED
      BY <1>0, <2>1, <3>1, ControllerType, ServerType, ClientType DEF Connect
  <2>2. CASE ConnectRefused(c) \/ Reconnect(c) \/ StreamEnds(c) \/ ImportPush(c)
    BY Zenon, <1>0, <2>2, ControllerType, ServerType, ClientType
       DEF ConnectRefused, Reconnect, StreamEnds, ImportPush
  <2>3. CASE Receive(c)
    <3>1. ServerTypeOK' /\ Head(responses[stream[c]]) \in SUBSET FederatedService
      BY <2>3, TakeResponseType DEF Receive
    <3>2. ClientTypeOK'
      BY <2>3, <3>1, ClientType DEF Receive
    <3>3. ControllerTypeOK'
      BY Zenon, <2>3, ControllerType DEF Receive, TakeResponse
    <3> QED
      BY Zenon, <3>1, <3>2, <3>3
  <2> QED
    BY Zenon, <1>6, <2>1, <2>2, <2>3 DEF ClientStep
<1>7. CASE EnvironmentStep
  <2>1. ASSUME NEW s \in Services, NEW obj \in Object \cup {NoService},
               UserChanges(s, obj)
        PROVE  ControllerTypeOK' /\ ServerTypeOK' /\ ClientTypeOK'
    <3>1. ChangeService(s, obj) /\ UNCHANGED <<serverVars, clientVars>>
      BY Zenon, <2>1 DEF UserChanges
    <3> QED
      BY Zenon, <1>0, <3>1, ControllerType, ServerType, ClientType
  <2>2. ASSUME NEW i \in Conns, ConnectionBreaks(i) \/ ResponseLost(i)
        PROVE  ControllerTypeOK' /\ ServerTypeOK' /\ ClientTypeOK'
    BY Zenon, <1>0, <2>2, ControllerType, ServerType, ClientType
       DEF ConnectionBreaks, ResponseLost
  <2>3. ASSUME NEW c \in Clients, ConnectFails(c)
        PROVE  ControllerTypeOK' /\ ServerTypeOK' /\ ClientTypeOK'
    BY Zenon, <1>0, <2>3, ControllerType, ServerType, ClientType DEF ConnectFails
  <2>4. ASSUME NEW c \in Clients, ReceiveMalformed(c)
        PROVE  ControllerTypeOK' /\ ServerTypeOK' /\ ClientTypeOK'
    <3>1. UNCHANGED controllerVars
      BY Zenon, <2>4 DEF ReceiveMalformed, TakeResponse
    <3> QED
      BY <2>4, <3>1, TakeResponseType, ControllerType, ClientType
         DEF ReceiveMalformed
  <2>5. ASSUME NEW c \in Clients, PeerRestarts(c)
        PROVE  ControllerTypeOK' /\ ServerTypeOK' /\ ClientTypeOK'
    <3>1. ServerTypeOK'
      <4>1. <<>> \in Seq(SUBSET FederatedService)
        OBVIOUS
      <4> QED
        BY <2>5, <4>1 DEF PeerRestarts, ServerTypeOK, loopVars, recvVars
    <3> QED
      BY Zenon, <2>5, <3>1, ControllerType, ClientType DEF PeerRestarts
  <2>6. CASE ListFails
    BY Zenon, <1>0, <2>6, ControllerType, ServerType, ClientType DEF ListFails
  <2>7. CASE ServeFails
    BY Zenon, <1>0, <2>7, ControllerType, ServerType, ClientType DEF ServeFails
  <2>8. CASE ExporterRestarts
    BY Zenon, <1>0, <2>8, ControllerType, ServerType, ClientType DEF ExporterRestarts
  <2> QED
    BY Zenon, <1>7, <2>1, <2>2, <2>3, <2>4, <2>5, <2>6, <2>7, <2>8 DEF EnvironmentStep
<1>8. CASE UNCHANGED vars
  BY <1>0, <1>8, ControllerType, ServerType, ClientType DEF vars
<1> QED
  BY Zenon, <1>1, <1>2, <1>3, <1>4, <1>5, <1>6, <1>7, <1>8 DEF Next

\* Every variable of the exporting controller, of its streams and of its peers
\* keeps its type.
THEOREM TypeCorrect == Spec => []TypeOK
  BY InitType, NextType, PTL DEF Spec

=============================================================================
