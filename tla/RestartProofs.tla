--------------------------- MODULE RestartProofs ---------------------------
(***************************************************************************)
(* A peer never loses a service that stays exported, for every set of      *)
(* services, labels, rules and peers, every bound, and every kind of fault *)
(* up to the first failure of ServiceLister.List, after which the server   *)
(* sends an empty snapshot.                                                *)
(***************************************************************************)
EXTENDS DiscoveryInvariant, DiscoveryTypes

\* No step adds a service to those exported all along.
LEMMA StableShrinks ==
    ASSUME [Next]_vars PROVE stable' \subseteq stable
<1>1. CASE UNCHANGED boundVars
  BY <1>1 DEF boundVars
<1>2. CASE \E kind : Fault(kind)
  BY <1>2 DEF Fault
<1>3. CASE \E s, obj : UserChanges(s, obj)
  BY <1>3 DEF UserChanges
<1>4. CASE \E c : Connect(c)
  BY <1>4 DEF Connect
<1> QED
  BY Zenon, <1>1, <1>2, <1>3, <1>4
     DEF Next, vars, InformerStep, WorkerStep, FdsPush, StreamStep, LoopStep,
         ClientStep, ConnectRefused, Reconnect, Receive, StreamEnds, ImportPush,
         EnvironmentStep, ConnectionBreaks, ResponseLost, ConnectFails,
         ReceiveMalformed, ListFails, ServeFails, ExporterRestarts, PeerRestarts

\* The selectors of the services exported all along see no change of the store.
SameSelection == \A s \in stable' : Selected(store'[s]) = Selected(store[s])

\* CoversSoFar after the step, of resources before it.
CoversNext(resources, n) ==
    \A s \in stable' :
        s \in Hosts(resources) \/ \E k \in Selected(store'[s]) : k > n

\* What holds the services exported all along, or leaves them to a later selector,
\* goes on doing so.
LEMMA CoversSoFarKept ==
    ASSUME stable' \subseteq stable, SameSelection, NEW resources, NEW n,
           CoversSoFar(resources, n)
    PROVE  CoversNext(resources, n)
  BY DEF CoversSoFar, CoversNext, SameSelection

\* The rounds of GenerateResponse, from the first selector to the last.
LEMMA CoversBeforeListing ==
    ASSUME store \in ServiceMap, StableAreSelected
    PROVE  CoversSoFar({}, 0)
  BY ExportedAreSelected DEF CoversSoFar, StableAreSelected

LEMMA CoversAfterRound ==
    ASSUME store \in ServiceMap, stable \subseteq Services, StableAreSelected,
           NEW resources, NEW n \in Nat, CoversSoFar(resources, n)
    PROVE  CoversSoFar(resources \cup ListExports(store, n + 1), n + 1)
<1> SUFFICES ASSUME NEW s \in stable,
                    s \notin Hosts(resources \cup ListExports(store, n + 1))
             PROVE  \E k \in Selected(store[s]) : k > n + 1
  BY Zenon DEF CoversSoFar
<1>1. s \notin Hosts(resources) /\ s \notin Hosts(ListExports(store, n + 1))
  BY DEF Hosts
<1>2. n + 1 \notin Selected(store[s])
  BY <1>1, RoundListsSelected DEF StableAreSelected
<1>3. PICK k \in Selected(store[s]) : k > n
  BY <1>1 DEF CoversSoFar
<1> QED
  BY <1>2, <1>3, ExportedAreSelected

LEMMA CoversAfterListing ==
    ASSUME store \in ServiceMap, NEW resources, NEW n \in Nat,
           ~(n < Len(GetLabelSelectors)), CoversSoFar(resources, n)
    PROVE  Covers(resources)
  BY ExportedAreSelected DEF CoversSoFar, Covers

\* The elements of the sequences that a stream goes through.
LEMMA ElementsOfAppend ==
    ASSUME NEW S, NEW q \in Seq(S), NEW e \in S,
           NEW k \in 1..Len(Append(q, e))
    PROVE  Append(q, e)[k] = e \/ (k \in 1..Len(q) /\ Append(q, e)[k] = q[k])
  OBVIOUS

LEMMA ElementsOfTail ==
    ASSUME NEW S, NEW q \in Seq(S), q # <<>>, NEW k \in 1..Len(Tail(q))
    PROVE  k + 1 \in 1..Len(q) /\ Tail(q)[k] = q[k + 1]
  OBVIOUS

LEMMA ElementsOfFront ==
    ASSUME NEW S, NEW q \in Seq(S), q # <<>>,
           NEW k \in 1..Len(SubSeq(q, 1, Len(q) - 1))
    PROVE  k \in 1..Len(q) /\ SubSeq(q, 1, Len(q) - 1)[k] = q[k]
  OBVIOUS

\* The informer's store keeps the services exported all along: it takes every
\* object from the cluster.
LEMMA ControllerCovers ==
    ASSUME ControllerTypeOK, stable' \subseteq stable, stable \subseteq Services,
           StableAreSelected,
           \/ ControllerRestart
           \/ \E s \in Services : AddFunc(s) \/ UpdateFunc(s) \/ DeleteFunc(s)
           \/ ProcessNextItem \/ SendMcpPush \/ SendFdsPush
           \/ UNCHANGED controllerVars
    PROVE  StableAreSelected' /\ SameSelection
<1> USE DEF StableAreSelected, SameSelection
<1>1. CASE ControllerRestart
  BY <1>1 DEF ControllerRestart
<1>2. ASSUME NEW s \in Services, AddFunc(s) \/ UpdateFunc(s) \/ DeleteFunc(s)
      PROVE  StableAreSelected' /\ SameSelection
  <2>1. store' = [store EXCEPT ![s] = cluster[s]] /\ UNCHANGED cluster
    BY <1>2 DEF AddFunc, UpdateFunc, DeleteFunc, Enqueue
  <2>2. \A t \in stable' : store'[t] = store[t] \/ store'[t] = cluster[t]
    BY <2>1 DEF ControllerTypeOK, ServiceMap
  <2> QED
    BY Zenon, <2>1, <2>2
<1>3. CASE ProcessNextItem \/ SendMcpPush \/ SendFdsPush
  BY <1>3 DEF ProcessNextItem, SendMcpPush, SendFdsPush, SendPush
<1>4. CASE UNCHANGED controllerVars
  BY <1>4 DEF controllerVars
<1> QED
  BY <1>1, <1>2, <1>3, <1>4

\* What ServerCovers is about.
coveredVars == <<loopPc, loopResources, loopListed, recvPc, snapshot, listed, responses>>

\* Every response that the server lists, holds or has sent keeps the services
\* exported all along.
LEMMA ServerKeepsCover ==
    ASSUME ServerTypeOK, ServerCovers, stable' \subseteq stable, stable \subseteq Services,
           store \in ServiceMap, StableAreSelected, SameSelection,
           \/ \E i \in Conns :
                 \/ OpenStream(i) \/ StreamAggregatedResources(i)
                 \/ RecvRequest(i, store) \/ ListNextSelector(i, store)
                 \/ SendSnapshot(i) \/ SendSnapshotFails(i) \/ RecvError(i)
                 \/ PushSend(i) \/ PushSendFails(i)
                 \/ BreakStream(i) \/ LoseResponse(i)
           \/ ReceivePush \/ GeneratePush(store)
           \/ CloseSubscribers \/ GracefulStop
           \/ UNCHANGED coveredVars
    PROVE  ServerCovers'
<1> USE DEF ServerTypeOK, loopVars, streamVars, recvVars
<1> DEFINE Loop == /\ loopPc = "generate" => CoversSoFar(loopResources, loopListed)
                   /\ loopPc = "range" => Covers(loopResources)
           Held == \A i \in Conns :
                      /\ recvPc[i] = "list" => CoversSoFar(snapshot[i], listed[i])
                      /\ recvPc[i] = "send" => Covers(snapshot[i])
           Sent == \A i \in Conns :
                      \A k \in 1..Len(responses[i]) : Covers(responses[i][k])
<1> SUFFICES Loop' /\ Held' /\ Sent'
  BY Zenon DEF ServerCovers
<1>l. Loop /\ Held /\ Sent
  BY Zenon DEF ServerCovers
<1>1. ASSUME UNCHANGED <<loopPc, loopResources, loopListed>>
      PROVE  Loop'
  <2>1. loopPc = "generate" => CoversNext(loopResources, loopListed)
    BY Zenon, <1>l, CoversSoFarKept
  <2> QED
    BY Zenon, <1>l, <1>1, <2>1 DEF Covers, CoversSoFar, CoversNext
<1>2. ASSUME \A j \in Conns : recvPc'[j] \in {"list", "send"} =>
                /\ recvPc'[j] = recvPc[j] /\ snapshot'[j] = snapshot[j]
                /\ listed'[j] = listed[j]
      PROVE  Held'
  <2>1. ASSUME NEW j \in Conns, recvPc'[j] = "list"
        PROVE  CoversSoFar(snapshot[j], listed[j])'
    <3>1. CoversNext(snapshot[j], listed[j])
      BY <1>l, <1>2, <2>1, CoversSoFarKept
    <3> QED
      BY Zenon, <1>2, <2>1, <3>1 DEF CoversSoFar, CoversNext
  <2>2. ASSUME NEW j \in Conns, recvPc'[j] = "send"
        PROVE  Covers(snapshot[j])'
    BY Zenon, <1>l, <1>2, <2>2 DEF Covers
  <2> QED
    BY Zenon, <2>1, <2>2
<1>3. UNCHANGED responses => Sent'
  BY Zenon, <1>l DEF Covers
<1>4. ASSUME NEW i \in Conns,
             \/ OpenStream(i) \/ StreamAggregatedResources(i) \/ RecvError(i)
             \/ SendSnapshotFails(i)
      PROVE  Loop' /\ Held' /\ Sent'
  <2>1. UNCHANGED <<loopPc, loopResources, loopListed, responses>>
    BY Zenon, <1>4
       DEF OpenStream, StreamAggregatedResources, RecvError, SendSnapshotFails
  <2>2. Held'
    BY Zenon, <1>2, <1>4 DEF OpenStream, StreamAggregatedResources, RecvError,
                      SendSnapshotFails, NextRequest
  <2> QED
    BY <1>1, <1>3, <2>1, <2>2
<1>5. ASSUME NEW i \in Conns, RecvRequest(i, store) \/ ListNextSelector(i, store)
      PROVE  Loop' /\ Held' /\ Sent'
  <2>1. PICK resources, n, stale : /\ HoldSnapshot(i, resources, n, stale)
                                   /\ n \in Nat /\ CoversSoFar(resources, n)
    <3>1. CASE RecvRequest(i, store)
      <4>1. HoldSnapshot(i, ListExports(store, 1), 1, FALSE)
        BY Zenon, <3>1 DEF RecvRequest
      <4>2. CoversSoFar({} \cup ListExports(store, 0 + 1), 0 + 1)
        BY Zenon, CoversBeforeListing, CoversAfterRound
      <4>3. {} \cup ListExports(store, 0 + 1) = ListExports(store, 1) /\ 0 + 1 = 1 /\ 1 \in Nat
        OBVIOUS
      <4> QED
        BY Zenon, <4>1, <4>2, <4>3
    <3>2. CASE ListNextSelector(i, store)
      <4>1. HoldSnapshot(i, snapshot[i] \cup ListExports(store, listed[i] + 1),
                         listed[i] + 1, heldStale[i])
        BY Zenon, <3>2 DEF ListNextSelector
      <4>2. recvPc[i] = "list" /\ listed[i] \in Nat /\ listed[i] + 1 \in Nat
        BY <3>2 DEF ListNextSelector
      <4>3. CoversSoFar(snapshot[i] \cup ListExports(store, listed[i] + 1), listed[i] + 1)
        BY Zenon, <1>l, <4>2, CoversAfterRound
      <4> QED
        BY Zenon, <4>1, <4>2, <4>3
    <3> QED
      BY <1>5, <3>1, <3>2
  <2>2. /\ UNCHANGED <<loopPc, loopResources, loopListed, responses>>
        /\ snapshot'[i] = resources
        /\ IF n < Len(GetLabelSelectors) THEN recvPc'[i] = "list" /\ listed'[i] = n
                                         ELSE recvPc'[i] = "send"
        /\ \A j \in Conns : j # i =>
              /\ snapshot'[j] = snapshot[j] /\ recvPc'[j] = recvPc[j]
              /\ listed'[j] = listed[j]
    BY SMTT(30), <2>1 DEF HoldSnapshot
  <2>3. ASSUME NEW j \in Conns, recvPc'[j] = "list"
        PROVE  CoversSoFar(snapshot[j], listed[j])'
    <3>1. CASE j = i
      <4>1. CoversNext(resources, n)
        BY <2>1, CoversSoFarKept
      <4>2. snapshot'[j] = resources /\ listed'[j] = n
        BY Zenon, <2>2, <2>3, <3>1
      <4> QED
        BY Zenon, <4>1, <4>2 DEF CoversSoFar, CoversNext
    <3>2. CASE j # i
      <4>1. CoversNext(snapshot[j], listed[j])
        BY Zenon, <1>l, <2>2, <2>3, <3>2, CoversSoFarKept
      <4> QED
        BY Zenon, <2>2, <3>2, <4>1 DEF CoversSoFar, CoversNext
    <3> QED
      BY Zenon, <3>1, <3>2
  <2>4. ASSUME NEW j \in Conns, recvPc'[j] = "send"
        PROVE  Covers(snapshot[j])'
    <3>1. CASE j = i
      <4>1. Covers(resources)
        BY Zenon, <2>1, <2>2, <2>4, <3>1, CoversAfterListing
      <4> QED
        BY Zenon, <2>2, <3>1, <4>1 DEF Covers
    <3>2. CASE j # i
      BY Zenon, <1>l, <2>2, <2>4, <3>2 DEF Covers
    <3> QED
      BY Zenon, <3>1, <3>2
  <2> QED
    BY Zenon, <1>1, <1>3, <2>2, <2>3, <2>4
<1>6. ASSUME NEW i \in Conns, NEW e \in SUBSET FederatedService, Covers(e),
             responses' = [responses EXCEPT ![i] = Append(@, e)]
      PROVE  Sent'
  <2> SUFFICES ASSUME NEW j \in Conns, NEW k \in 1..Len(responses'[j])
               PROVE  stable' \subseteq Hosts(responses'[j][k])
    BY Zenon DEF Covers
  <2>1. CASE j # i
    BY Zenon, <1>l, <1>6, <2>1 DEF Covers
  <2>2. CASE j = i
    <3>1. responses'[i] = Append(responses[i], e)
      BY Zenon, <1>6
    <3>2. \/ responses'[i][k] = e
          \/ k \in 1..Len(responses[i]) /\ responses'[i][k] = responses[i][k]
      BY <2>2, <3>1, ElementsOfAppend
    <3> QED
      BY Zenon, <1>l, <1>6, <2>2, <3>2 DEF Covers
  <2> QED
    BY Zenon, <2>1, <2>2
<1>7. ASSUME NEW i \in Conns, SendSnapshot(i)
      PROVE  Loop' /\ Held' /\ Sent'
  <2>1. Loop'
    BY Zenon, <1>1, <1>7 DEF SendSnapshot
  <2>3. Held'
    BY Zenon, <1>2, <1>7 DEF SendSnapshot, NextRequest
  <2>4. Covers(snapshot[i]) /\ snapshot[i] \in SUBSET FederatedService
    BY Zenon, <1>l, <1>7 DEF SendSnapshot
  <2>5. Sent'
    BY Zenon, <1>6, <1>7, <2>4 DEF SendSnapshot
  <2> QED
    BY Zenon, <2>1, <2>3, <2>5
<1>8. ASSUME NEW i \in Conns, VisitSubscriber(i)
      PROVE  Loop' /\ Covers(loopResources)
  BY Zenon, <1>l, <1>8 DEF VisitSubscriber, Covers
<1>9. ASSUME NEW i \in Conns, PushSend(i)
      PROVE  Loop' /\ Held' /\ Sent'
  <2>1. VisitSubscriber(i) /\ UNCHANGED <<recvPc, snapshot, listed>>
    BY <1>9 DEF PushSend
  <2>2. Sent'
    BY Zenon, <1>6, <1>8, <1>9, <2>1 DEF PushSend
  <2> QED
    BY Zenon, <1>2, <1>8, <2>1, <2>2
<1>10. ASSUME NEW i \in Conns, PushSendFails(i)
       PROVE  Loop' /\ Held' /\ Sent'
  <2>1. VisitSubscriber(i) /\ UNCHANGED <<recvPc, snapshot, listed, responses>>
    BY Zenon, <1>10 DEF PushSendFails
  <2> QED
    BY Zenon, <1>2, <1>3, <1>8, <2>1
<1>11. ASSUME NEW i \in Conns, BreakStream(i)
       PROVE  Loop' /\ Held' /\ Sent'
  BY Zenon, <1>1, <1>2, <1>3, <1>11 DEF BreakStream
<1>12. ASSUME NEW i \in Conns, LoseResponse(i)
       PROVE  Loop' /\ Held' /\ Sent'
  <2>1. ASSUME NEW j \in Conns, NEW k \in 1..Len(responses'[j])
        PROVE  stable' \subseteq Hosts(responses'[j][k])
    <3>1. CASE j # i
      BY Zenon, <1>l, <1>12, <2>1, <3>1 DEF LoseResponse, Covers
    <3>2. CASE j = i
      <4>1. responses'[i] = SubSeq(responses[i], 1, Len(responses[i]) - 1)
        BY Zenon, <1>12 DEF LoseResponse
      <4>2. k \in 1..Len(responses[i]) /\ responses'[i][k] = responses[i][k]
        BY <1>12, <2>1, <3>2, <4>1, ElementsOfFront DEF LoseResponse
      <4> QED
        BY Zenon, <1>l, <3>2, <4>2 DEF Covers
    <3> QED
      BY Zenon, <3>1, <3>2
  <2>2. UNCHANGED <<loopPc, loopResources, loopListed, recvPc, snapshot, listed>>
    BY Zenon, <1>12 DEF LoseResponse
  <2> QED
    BY Zenon, <1>1, <1>2, <2>1, <2>2 DEF Covers
<1>13. CASE GeneratePush(store)
  <2> DEFINE more == loopResources \cup ListExports(store, loopListed + 1)
  <2>1. /\ loopPc = "generate" /\ loopListed \in Nat /\ loopListed + 1 \in Nat
        /\ loopResources' = more
        /\ \/ loopPc' = "generate" /\ loopListed' = loopListed + 1
           \/ loopPc' = "range" /\ ~(loopListed + 1 < Len(GetLabelSelectors))
        /\ UNCHANGED <<recvPc, snapshot, listed, responses>>
    BY <1>13 DEF GeneratePush
  <2>2. CoversSoFar(more, loopListed + 1)
    BY Zenon, <1>l, <2>1, CoversAfterRound
  <2> HIDE DEF more
  <2>3. Loop'
    <3>1. CASE loopPc' = "generate"
      <4>1. CoversNext(more, loopListed + 1)
        BY Zenon, <2>2, CoversSoFarKept
      <4> QED
        BY <2>1, <3>1, <4>1 DEF CoversSoFar, CoversNext
    <3>2. CASE loopPc' = "range"
      <4>1. Covers(more)
        BY Zenon, <2>1, <2>2, <3>2, CoversAfterListing
      <4> QED
        BY Zenon, <2>1, <3>2, <4>1 DEF Covers
    <3> QED
      BY Zenon, <2>1, <3>1, <3>2
  <2> QED
    BY Zenon, <1>2, <1>3, <2>1, <2>3
<1>14. CASE ReceivePush \/ CloseSubscribers \/ GracefulStop
  <2>1. /\ loopPc' # "range" /\ UNCHANGED <<recvPc, snapshot, listed, responses>>
        /\ loopPc' = "generate" => loopResources' = {} /\ loopListed' = 0
    BY Zenon, <1>14 DEF ReceivePush, CloseSubscribers, GracefulStop
  <2>2. CoversNext({}, 0)
    BY Zenon, CoversBeforeListing, CoversSoFarKept
  <2>3. Loop'
    BY Zenon, <2>1, <2>2 DEF CoversSoFar, CoversNext
  <2>4. Held' /\ Sent'
    BY Zenon, <1>2, <1>3, <2>1
  <2> QED
    BY Zenon, <2>3, <2>4
<1>15. CASE UNCHANGED coveredVars
  BY Zenon, <1>1, <1>2, <1>3, <1>15 DEF coveredVars
<1> QED
  BY Zenon, <1>4, <1>5, <1>7, <1>9, <1>10, <1>11, <1>12, <1>13, <1>14, <1>15

\* A new process holds and lists nothing; what is in flight keeps the services.
LEMMA ServerRestartCovers ==
    ASSUME ServerCovers, stable' \subseteq stable, ServerRestart
    PROVE  ServerCovers'
<1>1. /\ loopPc' = "select" /\ UNCHANGED responses
      /\ \A j \in Conns : recvPc'[j] \notin {"list", "send"}
  BY Zenon DEF ServerRestart
<1> QED
  BY <1>1 DEF ServerCovers, Covers

\* A client takes a response that holds the services exported all along.
LEMMA TakeResponseCovers ==
    ASSUME ServerTypeOK, ServerCovers, stable' \subseteq stable, SameSelection,
           NEW c \in Clients, TakeResponse(c)
    PROVE  Covers(Head(responses[stream[c]])) /\ ServerCovers'
<1> DEFINE q == responses[stream[c]]
<1>1. stream[c] \in Conns /\ q \in Seq(SUBSET FederatedService) /\ q # <<>>
  BY Zenon DEF TakeResponse, ServerTypeOK
<1>2. Head(q) = q[1] /\ 1 \in 1..Len(q)
  BY <1>1
<1>3. Covers(Head(q))
  BY <1>1, <1>2 DEF ServerCovers
<1>4. ASSUME NEW j \in Conns, NEW k \in 1..Len(responses'[j])
      PROVE  stable' \subseteq Hosts(responses'[j][k])
  <2>1. CASE j # stream[c]
    BY Zenon, <1>4, <2>1 DEF TakeResponse, ServerTypeOK, ServerCovers, Covers
  <2>2. CASE j = stream[c]
    <3>1. responses'[j] = Tail(q)
      BY Zenon, <2>2 DEF TakeResponse, ServerTypeOK
    <3>2. k + 1 \in 1..Len(q) /\ responses'[j][k] = q[k + 1]
      BY <1>1, <1>4, <3>1, ElementsOfTail
    <3> QED
      BY Zenon, <1>1, <3>2 DEF ServerCovers, Covers
  <2> QED
    BY Zenon, <2>1, <2>2
<1>5. UNCHANGED <<loopPc, loopResources, loopListed, recvPc, snapshot, listed>>
  BY Zenon DEF TakeResponse, loopVars, recvVars
<1>6. /\ loopPc' = "generate" => CoversSoFar(loopResources, loopListed)'
      /\ \A i \in Conns : recvPc'[i] = "list" => CoversSoFar(snapshot[i], listed[i])'
  BY <1>5, CoversSoFarKept DEF ServerCovers, CoversSoFar, CoversNext
<1> QED
  BY Zenon, <1>3, <1>4, <1>5, <1>6 DEF ServerCovers, Covers

\* A client replaces its store by a response only, and keeps it while the stream
\* is down.
LEMMA ClientKeepsCover ==
    ASSUME ClientTypeOK, StableExportsStayImported, stable' \subseteq stable,
           \/ \E c \in Clients :
                 \/ \E i \in Nat : Run(c, i)
                 \/ RunFails(c) \/ Restart(c) \/ RecvFails(c)
                 \/ \E resources \in SUBSET FederatedService :
                       Covers(resources) /\ Handle(c, resources)
                 \/ HandleFails(c) \/ SendImportPush(c) \/ ClientRestart(c)
           \/ UNCHANGED clientVars
    PROVE  StableExportsStayImported'
<1>1. UNCHANGED <<imported, received>> => StableExportsStayImported'
  BY Zenon DEF StableExportsStayImported
<1>2. ASSUME NEW c \in Clients, NEW resources, Covers(resources),
             Handle(c, resources)
      PROVE  StableExportsStayImported'
  <2> SUFFICES ASSUME NEW d \in Clients, received'[d]
               PROVE  stable' \subseteq Hosts(imported'[d])
    BY Zenon DEF StableExportsStayImported
  <2>1. CASE d = c
    BY Zenon, <1>2, <2>1 DEF Handle, Update, ClientTypeOK, Covers
  <2>2. CASE d # c
    BY Zenon, <1>2, <2>2 DEF Handle, Update, ClientTypeOK, StableExportsStayImported
  <2> QED
    BY Zenon, <2>1, <2>2
<1>3. ASSUME NEW c \in Clients, ClientRestart(c)
      PROVE  StableExportsStayImported'
  <2> SUFFICES ASSUME NEW d \in Clients, received'[d]
               PROVE  stable' \subseteq Hosts(imported'[d])
    BY DEF StableExportsStayImported
  <2>1. d # c
    BY <1>3 DEF ClientRestart, ClientTypeOK
  <2> QED
    BY Zenon, <1>3, <2>1 DEF ClientRestart, ClientTypeOK, StableExportsStayImported
<1> QED
  BY Zenon, <1>1, <1>2, <1>3
     DEF Run, RunFails, Restart, RecvFails, HandleFails, SendImportPush, clientVars

LEMMA InitStable == Init => StableInv
<1> SUFFICES ASSUME Init PROVE StableInv
  OBVIOUS
<1>1. StableAreSelected
  BY Zenon, ExportedAreSelected DEF Init, ControllerInit, StableAreSelected
<1>2. ServerCovers
  BY DEF Init, ServerInit, ServerCovers
<1>3. StableExportsStayImported
  BY Zenon DEF Init, ClientInit, StableExportsStayImported
<1> QED
  BY <1>1, <1>2, <1>3 DEF StableInv

LEMMA NextStable ==
    ASSUME TypeOK, StableInv, [Next]_vars
    PROVE  StableInv'
<1> SUFFICES StableAreSelected' /\ ServerCovers' /\ StableExportsStayImported'
  BY DEF StableInv
<1>a. StableAreSelected /\ ServerCovers /\ StableExportsStayImported
  BY DEF StableInv
<1>b. /\ ControllerTypeOK /\ ServerTypeOK /\ ClientTypeOK /\ store \in ServiceMap
      /\ stable' \subseteq stable /\ stable \subseteq Services
  BY StableShrinks DEF TypeOK, ControllerTypeOK
<1>c. UNCHANGED controllerVars => StableAreSelected' /\ SameSelection
  BY Zenon, <1>a, <1>b, ControllerCovers
<1>s. SameSelection /\ UNCHANGED coveredVars => ServerCovers'
  BY <1>a, <1>b, ServerKeepsCover
<1>v. UNCHANGED serverVars => UNCHANGED coveredVars
  BY DEF serverVars, loopVars, streamVars, recvVars, coveredVars
<1>k. UNCHANGED clientVars => StableExportsStayImported'
  BY Zenon, <1>a, <1>b, ClientKeepsCover
<1>1. ASSUME NEW s \in Services, InformerStep(s)
      PROVE  StableAreSelected' /\ ServerCovers' /\ StableExportsStayImported'
  <2>1. StableAreSelected' /\ SameSelection
    BY Zenon, <1>a, <1>b, <1>1, ControllerCovers DEF InformerStep
  <2>2. UNCHANGED coveredVars
    BY <1>1 DEF InformerStep, coveredVars, streamVars
  <2> QED
    BY Zenon, <1>s, <1>k, <1>1, <2>1, <2>2 DEF InformerStep
<1>2. CASE WorkerStep
  BY Zenon, <1>a, <1>b, <1>s, <1>v, <1>k, <1>2, ControllerCovers DEF WorkerStep
<1>3. CASE FdsPush
  BY Zenon, <1>a, <1>b, <1>k, <1>3, ControllerCovers, ServerKeepsCover DEF FdsPush
<1>4. ASSUME NEW i \in Conns, StreamStep(i)
      PROVE  StableAreSelected' /\ ServerCovers' /\ StableExportsStayImported'
  BY Zenon, <1>a, <1>b, <1>c, <1>k, <1>4, ServerKeepsCover DEF StreamStep
<1>5. CASE LoopStep
  BY Zenon, <1>a, <1>b, <1>c, <1>k, <1>5, ServerKeepsCover DEF LoopStep
<1>6. ASSUME NEW c \in Clients, ClientStep(c)
      PROVE  StableAreSelected' /\ ServerCovers' /\ StableExportsStayImported'
  <2>1. CASE Connect(c)
    <3>1. conns + 1 \in Conns /\ conns + 1 \in Nat
      BY SMTT(30), <2>1, ServerAssumption DEF Connect, Conns, TypeOK
    <3> QED
      BY Zenon, <1>a, <1>b, <1>c, <2>1, <3>1, ServerKeepsCover, ClientKeepsCover
         DEF Connect
  <2>2. CASE ConnectRefused(c) \/ Reconnect(c) \/ StreamEnds(c) \/ ImportPush(c)
    BY Zenon, <1>a, <1>b, <1>c, <1>s, <1>v, <2>2, ClientKeepsCover
       DEF ConnectRefused, Reconnect, StreamEnds, ImportPush
  <2>3. CASE Receive(c)
    <3>1. /\ Covers(Head(responses[stream[c]])) /\ ServerCovers'
          /\ Head(responses[stream[c]]) \in SUBSET FederatedService
      BY Zenon, <1>a, <1>b, <1>c, <2>3, TakeResponseCovers, TakeResponseType
         DEF Receive, TakeResponse
    <3>2. StableExportsStayImported'
      BY Zenon, <1>a, <1>b, <2>3, <3>1, ClientKeepsCover DEF Receive
    <3> QED
      BY Zenon, <1>c, <2>3, <3>1, <3>2 DEF Receive, TakeResponse
  <2> QED
    BY Zenon, <1>6, <2>1, <2>2, <2>3 DEF ClientStep
<1>7. CASE EnvironmentStep
  <2>1. ASSUME NEW s \in Services, NEW obj \in Object \cup {NoService},
               UserChanges(s, obj)
        PROVE  StableAreSelected' /\ ServerCovers' /\ StableExportsStayImported'
    <3>1. cluster' = [cluster EXCEPT ![s] = obj] /\ UNCHANGED store
      BY Zenon, <2>1 DEF UserChanges, ChangeService
    <3>2. \A t \in stable' :
             \/ cluster'[t] = cluster[t]
             \/ NoService \notin {cluster'[t]} /\ Selected(cluster'[t]) = Selected(cluster[t])
      <4>1. CASE /\ NoService \notin {obj, cluster[s]}
                 /\ Selected(obj) = Selected(cluster[s])
        BY Zenon, <1>b, <3>1, <4>1 DEF ControllerTypeOK, ServiceMap
      <4>2. CASE ~(/\ NoService \notin {obj, cluster[s]}
                   /\ Selected(obj) = Selected(cluster[s]))
        <5>1. stable' = stable \ {s}
          BY Zenon, <2>1, <4>2 DEF UserChanges
        <5> QED
          BY Zenon, <1>b, <3>1, <5>1 DEF ControllerTypeOK, ServiceMap
      <4> QED
        BY Zenon, <4>1, <4>2
    <3>3. StableAreSelected' /\ SameSelection
      BY Zenon, <1>a, <1>b, <3>1, <3>2 DEF StableAreSelected, SameSelection
    <3> QED
      BY Zenon, <1>s, <1>v, <1>k, <2>1, <3>3 DEF UserChanges
  <2>2. ASSUME NEW i \in Conns, ConnectionBreaks(i) \/ ResponseLost(i)
        PROVE  StableAreSelected' /\ ServerCovers' /\ StableExportsStayImported'
    BY Zenon, <1>a, <1>b, <1>c, <1>k, <2>2, ServerKeepsCover
       DEF ConnectionBreaks, ResponseLost
  <2>3. ASSUME NEW c \in Clients, ConnectFails(c)
        PROVE  StableAreSelected' /\ ServerCovers' /\ StableExportsStayImported'
    BY Zenon, <1>a, <1>b, <1>c, <1>s, <1>v, <2>3, ClientKeepsCover DEF ConnectFails
  <2>4. ASSUME NEW c \in Clients, ReceiveMalformed(c)
        PROVE  StableAreSelected' /\ ServerCovers' /\ StableExportsStayImported'
    <3>1. ServerCovers' /\ UNCHANGED controllerVars
      BY Zenon, <1>a, <1>b, <1>c, <2>4, TakeResponseCovers DEF ReceiveMalformed, TakeResponse
    <3> QED
      BY Zenon, <1>a, <1>b, <1>c, <2>4, <3>1, ClientKeepsCover DEF ReceiveMalformed
  <2>5. ASSUME NEW c \in Clients, PeerRestarts(c)
        PROVE  StableAreSelected' /\ ServerCovers' /\ StableExportsStayImported'
    <3>1. UNCHANGED <<loopPc, loopResources, loopListed, recvPc, snapshot, listed>>
      BY Zenon, <2>5 DEF PeerRestarts, loopVars, recvVars
    <3>2. \A j \in Conns : responses'[j] = <<>> \/ responses'[j] = responses[j]
      BY Zenon, <2>5 DEF PeerRestarts
    <3>3. StableAreSelected' /\ SameSelection
      BY Zenon, <1>c, <2>5 DEF PeerRestarts
    <3>4. /\ loopPc' = "generate" => CoversSoFar(loopResources, loopListed)'
          /\ \A i \in Conns : recvPc'[i] = "list" => CoversSoFar(snapshot[i], listed[i])'
      BY Zenon, <1>a, <1>b, <3>1, <3>3, CoversSoFarKept DEF ServerCovers, CoversSoFar, CoversNext
    <3>5. ServerCovers'
      BY <1>a, <1>b, <3>1, <3>2, <3>4 DEF ServerCovers, Covers
    <3> QED
      BY Zenon, <1>a, <1>b, <1>c, <2>5, <3>5, ClientKeepsCover DEF PeerRestarts
  <2>6. CASE ListFails
    <3>1. stable' = {}
      BY Zenon, <2>6 DEF ListFails, Fault
    <3> QED
      BY Zenon, <3>1 DEF StableAreSelected, ServerCovers, Covers, CoversSoFar,
                  StableExportsStayImported
  <2>7. CASE ServeFails
    BY Zenon, <1>a, <1>b, <1>c, <1>k, <2>7, ServerKeepsCover DEF ServeFails
  <2>8. CASE ExporterRestarts
    BY Zenon, <1>a, <1>b, <1>k, <2>8, ControllerCovers, ServerRestartCovers
       DEF ExporterRestarts
  <2> QED
    BY Zenon, <1>7, <2>1, <2>2, <2>3, <2>4, <2>5, <2>6, <2>7, <2>8
       DEF EnvironmentStep
<1>8. CASE UNCHANGED vars
  BY <1>c, <1>s, <1>v, <1>k, <1>8 DEF vars
<1> QED
  BY Zenon, <1>1, <1>2, <1>3, <1>4, <1>5, <1>6, <1>7, <1>8 DEF Next

\* As long as ServiceLister.List does not fail, a service that was exported all
\* along, by the same selectors, never disappears from a peer that has imported
\* from this exporter, whatever restarts of either process, broken streams,
\* reconnects and changes between the lists of two selectors happen.
THEOREM StableExportsAreNotLost == Spec => []StableExportsStayImported
<1>1. StableInv => StableExportsStayImported
  BY DEF StableInv
<1>2. TypeOK /\ StableInv /\ [Next]_vars => StableInv'
  BY NextStable
<1> QED
  BY <1>1, <1>2, TypeCorrect, InitStable, PTL DEF Spec

=============================================================================
