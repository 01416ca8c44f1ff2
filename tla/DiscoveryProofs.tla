-------------------------- MODULE DiscoveryProofs --------------------------
(***************************************************************************)
(* No update is lost on the way to a peer, for every set of services,      *)
(* labels, rules, peers and faults and every bound. FreshInv is kept by    *)
(* the controllers that watch the exported services, by the loop that      *)
(* pushes what they changed to every subscriber, by the goroutines that    *)
(* serve one stream each, by the peers and by the faults.                  *)
(***************************************************************************)
EXTENDS DiscoveryInvariant, DiscoveryTypes

\* A response that is sent is the last one on its stream.
LEMMA LastOfAppend ==
    ASSUME NEW S, NEW q \in Seq(S), NEW e \in S
    PROVE  Append(q, e) # <<>> /\ Append(q, e)[Len(Append(q, e))] = e
  OBVIOUS

-----------------------------------------------------------------------------
(* The rounds of GenerateResponse.                                         *)

\* Nothing has been listed yet.
LEMMA FreshBeforeListing ==
    ASSUME NEW st \in ServiceMap
    PROVE  FreshSoFar(st, {}, 0)
<1>1. \A s \in Exported(st) : \E k \in Selected(st[s]) : k > 0
  BY ExportedAreSelected
<1> QED
  BY <1>1 DEF FreshSoFar, Hosts

\* The next selector is listed from the same store.
LEMMA FreshAfterRound ==
    ASSUME NEW st \in ServiceMap, NEW resources, NEW n \in Nat,
           FreshSoFar(st, resources, n)
    PROVE  FreshSoFar(st, resources \cup ListExports(st, n + 1), n + 1)
<1> DEFINE round == ListExports(st, n + 1)
<1>1. \A s : s \in Hosts(resources \cup round) <=> s \in Hosts(resources) \/ s \in Hosts(round)
  BY DEF Hosts
<1>2. \A s : s \in Hosts(round) <=>
               s \in Services /\ st[s] # NoService /\ n + 1 \in Selected(st[s])
  BY RoundListsSelected
<1> HIDE DEF round
<1>3. Hosts(resources \cup round) \subseteq Exported(st)
  BY Zenon, <1>1, <1>2, ExportedAreSelected DEF FreshSoFar
<1>4. ASSUME NEW s \in Exported(st), s \notin Hosts(resources \cup round)
      PROVE  \E k \in Selected(st[s]) : k > n + 1
  <2>1. PICK k \in Selected(st[s]) : k > n
    BY <1>1, <1>4 DEF FreshSoFar
  <2>2. k \in Nat /\ k # n + 1
    BY <1>1, <1>2, <1>4, <2>1, ExportedAreSelected
  <2> QED
    BY <2>1, <2>2
<1> QED
  BY Zenon, <1>3, <1>4 DEF FreshSoFar, round

\* The last selector has been listed.
LEMMA FreshAfterListing ==
    ASSUME NEW st \in ServiceMap, NEW resources, NEW n \in Nat,
           n >= Len(GetLabelSelectors), FreshSoFar(st, resources, n)
    PROVE  Hosts(resources) = Exported(st)
<1>1. \A s \in Exported(st) : \A k \in Selected(st[s]) : ~(k > n)
  BY ExportedAreSelected
<1> QED
  BY Zenon, <1>1 DEF FreshSoFar

-----------------------------------------------------------------------------
(* Steps of the exporting controller up to the discovery server.           *)

LEMMA InitFresh == Init => FreshInv
  BY DEF Init, ServerInit, ClientInit, FreshInv, ServedAreSubscribed, Served,
         NewAreRequested, StreamsAreOwned, LoopListsFresh, LoopIsFresh,
         ListedIsFresh, HeldIsFresh, LastIsFresh

\* A change of the set of exported services makes the handler of its event push.
LEMMA ExportChangeTriggers ==
    ASSUME ControllerTypeOK, NEW s \in Services,
           AddFunc(s) \/ UpdateFunc(s) \/ DeleteFunc(s)
    PROVE  \E event \in Event :
             /\ queue' = Append(queue, event)
             /\ ~Triggers(event) => Exported(store') = Exported(store)
<1> USE DEF ControllerTypeOK, ServiceMap
<1>1. store' = [store EXCEPT ![s] = cluster[s]]
  BY DEF AddFunc, UpdateFunc, DeleteFunc, Enqueue
<1>2. \A t \in Services : t # s => store'[t] = store[t]
  BY <1>1
<1>3. store'[s] = cluster[s]
  BY <1>1
<1> DEFINE Is(st) == st[s] # NoService /\ MatchExportRules(st[s])
<1>4. (Is(store) <=> Is(store')) => Exported(store') = Exported(store)
  BY <1>2 DEF Exported
<1> HIDE DEF Is
<1>5. CASE AddFunc(s)
  <2> DEFINE event == [eventType |-> "create", key |-> s, obj |-> cluster[s],
                       oldObj |-> NoService]
  <2>1. event \in Event /\ queue' = Append(queue, event)
    BY <1>5 DEF AddFunc, Enqueue, Event
  <2>2. Triggers(event) <=> MatchExportRules(cluster[s])
    BY DEF Triggers, TriggerXDSPushIfMatchRules
  <2>3. ~Is(store) /\ (Is(store') => Triggers(event))
    BY Zenon, <1>3, <1>5, <2>2 DEF AddFunc, Is
  <2> QED
    BY <1>4, <2>1, <2>3
<1>6. CASE UpdateFunc(s)
  <2> DEFINE event == [eventType |-> "update", key |-> s, obj |-> cluster[s],
                       oldObj |-> store[s]]
  <2>1. event \in Event /\ queue' = Append(queue, event)
    BY <1>6 DEF UpdateFunc, Enqueue, Event
  <2>2. Triggers(event) <=>
          (MatchExportRules(store[s]) # MatchExportRules(cluster[s]))
    BY DEF Triggers, TriggerXDSPushIfMatchRules
  <2>3. (Is(store) <=> MatchExportRules(store[s]))
        /\ (Is(store') <=> MatchExportRules(cluster[s]))
    BY <1>3, <1>6 DEF UpdateFunc, Is
  <2>4. MatchExportRules(store[s]) \in BOOLEAN
        /\ MatchExportRules(cluster[s]) \in BOOLEAN
    BY DEF MatchExportRules
  <2>5. ~Triggers(event) => (Is(store) <=> Is(store'))
    BY <2>2, <2>3, <2>4
  <2> QED
    BY <1>4, <2>1, <2>5
<1>7. CASE DeleteFunc(s)
  <2> DEFINE event == [eventType |-> "delete", key |-> s, obj |-> store[s],
                       oldObj |-> NoService]
  <2>1. event \in Event /\ queue' = Append(queue, event)
    BY <1>7 DEF DeleteFunc, Enqueue, Event
  <2>2. Triggers(event) <=> MatchExportRules(store[s])
    BY DEF Triggers, TriggerXDSPushIfMatchRules
  <2>3. ~Is(store') /\ (Is(store) => Triggers(event))
    BY Zenon, <1>3, <1>7, <2>2 DEF DeleteFunc, Is
  <2> QED
    BY <1>4, <2>1, <2>3
<1> QED
  BY <1>5, <1>6, <1>7

\* What a step does not touch stays fresh, as long as the step does not take the
\* last pending push away.
LEMMA QuietStepFresh ==
    ASSUME FreshInv, Unpushed => Unpushed',
           UNCHANGED <<store, serverVars, clientVars, conns>>
    PROVE  FreshInv'
<1> USE DEF FreshInv, serverVars, loopVars, streamVars, recvVars, clientVars
<1>0. Behind => Behind'
  BY DEF Behind, PushPending
<1>1. ServedAreSubscribed' /\ NewAreRequested' /\ StreamsAreOwned'
  BY DEF ServedAreSubscribed, Served, NewAreRequested, StreamsAreOwned
<1>2. LoopListsFresh' /\ LoopIsFresh'
  BY <1>0 DEF LoopListsFresh, LoopIsFresh, Fresh
<1>3. ListedIsFresh' /\ HeldIsFresh'
  BY Zenon, <1>0 DEF ListedIsFresh, HeldIsFresh, Fresh, Visits
<1>4. LastIsFresh'
  BY Zenon, <1>0 DEF LastIsFresh, Arrives, Fresh, Visits
<1> QED
  BY Zenon, <1>1, <1>2, <1>3, <1>4

\* A change that is not pushed leaves resources that are being listed fresh, unless
\* they miss the Service.
LEMMA UnpushedChangeFresh ==
    ASSUME ControllerTypeOK, NEW s \in Services,
           AddFunc(s) \/ UpdateFunc(s) \/ DeleteFunc(s),
           Exported(store') = Exported(store),
           NEW resources, NEW n \in Nat,
           FreshSoFar(store, resources, n), ~Misses(s, resources, n)
    PROVE  FreshSoFar(store', resources, n)
<1> USE DEF ControllerTypeOK, ServiceMap
<1>1. store' = [store EXCEPT ![s] = cluster[s]] /\ store' \in ServiceMap
  BY Zenon DEF AddFunc, UpdateFunc, DeleteFunc, Enqueue
<1>2. Hosts(resources) \subseteq Exported(store')
  BY DEF FreshSoFar
<1>3. ASSUME NEW t \in Exported(store'), t \notin Hosts(resources)
      PROVE  \E k \in Selected(store'[t]) : k > n
  <2>1. CASE t # s
    <3>1. store'[t] = store[t]
      BY <1>1, <1>3, <2>1 DEF Exported
    <3> QED
      BY <1>3, <3>1 DEF FreshSoFar
  <2>2. CASE t = s
    <3>1. store'[s] = cluster[s]
      BY <1>1
    <3>2. /\ NoService \notin {store[s], cluster[s]}
          /\ MatchExportRules(store[s]) /\ MatchExportRules(cluster[s])
      BY <1>3, <2>2, <3>1 DEF Exported
    <3>3. PICK k \in Selected(cluster[s]) : ~(k <= n)
      BY Zenon, <1>3, <2>2, <3>2 DEF Misses
    <3>4. k \in Nat
      BY <1>1, ExportedAreSelected
    <3> QED
      BY <2>2, <3>1, <3>3, <3>4
  <2> QED
    BY <2>1, <2>2
<1> QED
  BY Zenon, <1>2, <1>3 DEF FreshSoFar

LEMMA InformerStepFresh ==
    ASSUME TypeOK, FreshInv, NEW s \in Services, InformerStep(s)
    PROVE  FreshInv'
<1>1. PICK event \in Event :
         /\ queue' = Append(queue, event)
         /\ ~Triggers(event) => Exported(store') = Exported(store)
  BY Zenon, ExportChangeTriggers DEF InformerStep, TypeOK
<1>2. /\ UNCHANGED <<pushes, subscribers, loopPc, loopResources, loopListed, todo, open,
                     request, responses, recvPc, snapshot, listed, lastStale, clientVars,
                     conns>>
      /\ lostPush' = (\/ lostPush
                      \/ loopPc = "generate" /\ Misses(s, loopResources, loopListed))
      /\ \A i \in Conns : heldStale'[i] =
            (heldStale[i] \/ (recvPc[i] = "list" /\ Misses(s, snapshot[i], listed[i])))
      /\ AddFunc(s) \/ UpdateFunc(s) \/ DeleteFunc(s)
  BY Zenon DEF InformerStep, AddFunc, UpdateFunc, DeleteFunc, Enqueue, streamVars, boundVars
<1>3. ~Unpushed' => ~Unpushed /\ Exported(store') = Exported(store)
  <2>1. Len(queue) + 1 \in DOMAIN queue' /\ queue'[Len(queue) + 1] = event
    BY <1>1 DEF TypeOK, ControllerTypeOK
  <2>2. \A k \in DOMAIN queue : k \in DOMAIN queue' /\ queue'[k] = queue[k]
    BY <1>1 DEF TypeOK, ControllerTypeOK
  <2> QED
    BY Zenon, <1>1, <1>2, <2>1, <2>2 DEF Unpushed
<1>4. ~Behind' => ~Behind /\ Exported(store') = Exported(store)
  BY <1>2, <1>3 DEF Behind, PushPending
<1>5. /\ ControllerTypeOK /\ loopListed \in Nat
      /\ \A i \in Conns : listed[i] \in Nat
  BY Zenon DEF TypeOK, ServerTypeOK
<1> USE DEF FreshInv, clientVars
<1>6. ServedAreSubscribed' /\ NewAreRequested' /\ StreamsAreOwned'
  BY Zenon, <1>2 DEF ServedAreSubscribed, Served, NewAreRequested, StreamsAreOwned
<1>7. LoopListsFresh'
  <2> SUFFICES ASSUME loopPc' = "generate", ~Unpushed', ~lostPush'
               PROVE  FreshSoFar(store', loopResources, loopListed)
    BY Zenon, <1>2 DEF LoopListsFresh
  <2>1. /\ FreshSoFar(store, loopResources, loopListed)
        /\ ~Misses(s, loopResources, loopListed)
    BY Zenon, <1>2, <1>3 DEF LoopListsFresh
  <2> QED
    BY Zenon, <1>2, <1>3, <1>5, <2>1, UnpushedChangeFresh
<1>8. LoopIsFresh'
  BY Zenon, <1>2, <1>4 DEF LoopIsFresh, Fresh
<1>9. ListedIsFresh'
  <2> SUFFICES ASSUME NEW i \in Conns, open'[i], recvPc'[i] = "list", ~heldStale'[i],
                      ~Behind', ~Visits(i)'
               PROVE  FreshSoFar(store', snapshot[i], listed[i])
    BY Zenon, <1>2 DEF ListedIsFresh
  <2>1. /\ FreshSoFar(store, snapshot[i], listed[i])
        /\ ~Misses(s, snapshot[i], listed[i])
    BY Zenon, <1>2, <1>4 DEF ListedIsFresh, Visits
  <2> QED
    BY Zenon, <1>2, <1>4, <1>5, <2>1, UnpushedChangeFresh
<1>10. HeldIsFresh'
  BY Zenon, <1>2, <1>4 DEF HeldIsFresh, Fresh, Visits
<1>11. LastIsFresh'
  BY <1>2, <1>4 DEF LastIsFresh, Arrives, Fresh, Visits
<1> QED
  BY Zenon, <1>6, <1>7, <1>8, <1>9, <1>10, <1>11

LEMMA WorkerStepFresh ==
    ASSUME TypeOK, FreshInv, WorkerStep
    PROVE  FreshInv'
<1> USE DEF TypeOK, ControllerTypeOK
<1>1. UNCHANGED <<store, loopPc, lostPush>>
  BY DEF WorkerStep, ProcessNextItem, SendMcpPush, SendPush, serverVars, loopVars
<1>2. Unpushed => Unpushed'
  <2>1. CASE ProcessNextItem
    <3>1. pushes = <<>> /\ queue # <<>> /\ queue' = Tail(queue)
      BY <2>1 DEF ProcessNextItem
    <3>2. Triggers(queue[1]) => \E k \in DOMAIN pushes' : pushes'[k] = "ExportedService"
      <4>1. 4 \in DOMAIN TriggerXDSPush /\ TriggerXDSPush[4] = "ExportedService"
        BY DEF TriggerXDSPush
      <4>2. Head(queue) = queue[1]
        BY <3>1
      <4> QED
        BY <2>1, <4>1, <4>2 DEF ProcessNextItem
    <3>3. \A k \in DOMAIN queue : k # 1 =>
             k - 1 \in DOMAIN queue' /\ queue'[k - 1] = queue[k]
      BY <3>1
    <3> QED
      BY SMTT(30), <1>1, <3>1, <3>2, <3>3 DEF Unpushed
  <2>2. CASE SendMcpPush
    <3>1. /\ pushes # <<>> /\ pushes' = Tail(pushes) /\ queue' = queue
          /\ pushes[1] # "ExportedService"
      BY <2>2 DEF SendMcpPush, SendPush
    <3>2. \A k \in DOMAIN pushes : k # 1 =>
             k - 1 \in DOMAIN pushes' /\ pushes'[k - 1] = pushes[k]
      BY <3>1
    <3> QED
      BY Zenon, <1>1, <3>1, <3>2 DEF Unpushed
  <2> QED
    BY <2>1, <2>2 DEF WorkerStep
<1> QED
  BY <1>1, <1>2, QuietStepFresh DEF WorkerStep, boundVars

LEMMA UserChangesFresh ==
    ASSUME FreshInv, NEW s, NEW obj, UserChanges(s, obj)
    PROVE  FreshInv'
<1>1. UNCHANGED <<store, queue, pushes, serverVars, clientVars, conns>>
  BY DEF UserChanges, ChangeService
<1>2. Unpushed' = Unpushed
  BY Zenon, <1>1 DEF Unpushed
<1> QED
  BY <1>1, <1>2, QuietStepFresh

\* A push request leaves the worker: the server generates for it, or has no
\* subscriber and so serves no stream that would miss it.
LEMMA FdsPushFresh ==
    ASSUME TypeOK, FreshInv, FdsPush
    PROVE  FreshInv'
<1> USE DEF FreshInv, FdsPush, SendFdsPush, SendPush, ReceivePush, clientVars,
            streamVars, recvVars, boundVars
<1>1. ServedAreSubscribed' /\ NewAreRequested' /\ StreamsAreOwned'
  BY DEF ServedAreSubscribed, Served, NewAreRequested, StreamsAreOwned
<1>2. /\ loopPc' # "range" /\ store' = store
      /\ loopPc' = "generate" => loopResources' = {} /\ loopListed' = 0
  BY Zenon DEF controllerVars
<1>3. Behind' \/ subscribers = {}
  BY Zenon DEF Behind, PushPending
<1>4. LoopListsFresh' /\ LoopIsFresh'
  <2>1. FreshSoFar(store, {}, 0)
    BY FreshBeforeListing DEF TypeOK, ControllerTypeOK
  <2> QED
    BY Zenon, <1>2, <2>1 DEF LoopListsFresh, LoopIsFresh
<1>5. ListedIsFresh' /\ HeldIsFresh' /\ LastIsFresh'
  BY Zenon, <1>3 DEF ListedIsFresh, HeldIsFresh, LastIsFresh, ServedAreSubscribed, Served
<1> QED
  BY Zenon, <1>1, <1>4, <1>5

-----------------------------------------------------------------------------
(* The push loop of the discovery server.                                 *)

\* The push is listed from the store, one selector at a time; after the last one
\* every served stream will get it.
LEMMA GeneratePushFresh ==
    ASSUME TypeOK, FreshInv, GeneratePush(store),
           UNCHANGED <<controllerVars, clientVars, boundVars>>
    PROVE  FreshInv'
<1>0. /\ UNCHANGED <<controllerVars, clientVars, boundVars, subscribers, lostPush,
                     streamVars, recvVars>>
      /\ loopPc = "generate"
      /\ store \in ServiceMap /\ loopListed \in Nat
  BY Zenon DEF GeneratePush, TypeOK, ControllerTypeOK, ServerTypeOK
<1>1. /\ loopResources' = loopResources \cup ListExports(store, loopListed + 1)
      /\ \/ loopPc' = "generate" /\ loopListed' = loopListed + 1
         \/ /\ loopPc' = "range" /\ todo' = subscribers
            /\ loopListed + 1 >= Len(GetLabelSelectors)
  BY <1>0, ExportedAreSelected DEF GeneratePush
<1>2. ~Unpushed /\ ~lostPush =>
         FreshSoFar(store, loopResources', loopListed + 1)
  BY Zenon, <1>0, <1>1, FreshAfterRound DEF FreshInv, LoopListsFresh
<1>3. Unpushed' = Unpushed
  BY Zenon, <1>0 DEF Unpushed, controllerVars
<1> USE DEF FreshInv, controllerVars, clientVars, boundVars, streamVars, recvVars
<1>4. ServedAreSubscribed' /\ NewAreRequested' /\ StreamsAreOwned'
  BY Zenon, <1>0 DEF ServedAreSubscribed, Served, NewAreRequested, StreamsAreOwned
<1>5. LoopListsFresh'
  BY Zenon, <1>0, <1>1, <1>2, <1>3 DEF LoopListsFresh
<1>6. LoopIsFresh'
  <2> SUFFICES ASSUME loopPc' = "range", ~Behind'
               PROVE  Hosts(loopResources') = Exported(store)
    BY Zenon, <1>0 DEF LoopIsFresh, Fresh
  <2>1. ~Unpushed /\ ~lostPush
    BY Zenon, <1>0, <1>3 DEF Behind, PushPending
  <2> QED
    BY <1>0, <1>1, <1>2, <2>1, FreshAfterListing
<1>7. \A j \in Conns : Served(j)' => Visits(j)' \/ Behind'
  <2>1. \A j \in Conns : Served(j)' => j \in subscribers
    BY <1>0 DEF ServedAreSubscribed, Served
  <2> QED
    BY Zenon, <1>1, <2>1 DEF Visits, Behind, PushPending
<1>8. ListedIsFresh' /\ HeldIsFresh' /\ LastIsFresh'
  BY Zenon, <1>7 DEF ListedIsFresh, HeldIsFresh, LastIsFresh, Served
<1> QED
  BY Zenon, <1>4, <1>5, <1>6, <1>8

\* The push reaches stream i. A snapshot that waits behind it is marked stale,
\* unless it holds the same resources.
LEMMA PushSendFresh ==
    ASSUME TypeOK, FreshInv, NEW i \in Conns, PushSend(i),
           UNCHANGED <<controllerVars, clientVars, boundVars>>
    PROVE  FreshInv'
<1> USE DEF TypeOK, ServerTypeOK, FreshInv, controllerVars, clientVars, boundVars,
            PushSend, VisitSubscriber
<1>1. Behind' = Behind /\ Unpushed' = Unpushed
  BY Zenon DEF Behind, PushPending, Unpushed
<1>2. \A j \in Conns : j # i => Visits(j)' = Visits(j)
  BY Zenon DEF Visits
<1>3. Visits(i) /\ ~Visits(i)'
  BY Zenon DEF Visits
<1>4. ~Behind => Fresh(loopResources)
  BY Zenon DEF LoopIsFresh
<1>5. ServedAreSubscribed' /\ NewAreRequested' /\ StreamsAreOwned'
  BY Zenon DEF ServedAreSubscribed, Served, NewAreRequested, StreamsAreOwned
<1>6. LoopListsFresh' /\ LoopIsFresh'
  BY Zenon, <1>1 DEF LoopListsFresh, LoopIsFresh, Fresh
<1>7. ListedIsFresh'
  <2> SUFFICES ASSUME NEW j \in Conns, open'[j], recvPc'[j] = "list",
                      ~heldStale'[j], ~Behind', ~Visits(j)'
               PROVE  FreshSoFar(store', snapshot'[j], listed'[j])
    BY Zenon DEF ListedIsFresh
  <2>1. j # i
    BY Zenon
  <2> QED
    BY Zenon, <1>1, <1>2, <2>1 DEF ListedIsFresh
<1>8. HeldIsFresh'
  <2> SUFFICES ASSUME NEW j \in Conns, open'[j], recvPc'[j] = "send",
                      ~heldStale'[j], ~Behind', ~Visits(j)'
               PROVE  Fresh(snapshot[j])'
    BY Zenon DEF HeldIsFresh
  <2>1. CASE j = i
    BY Zenon, <1>1, <1>4, <2>1 DEF Fresh
  <2>2. CASE j # i
    BY Zenon, <1>1, <1>2, <2>2 DEF HeldIsFresh, Fresh
  <2> QED
    BY Zenon, <2>1, <2>2
<1>9. LastIsFresh'
  <2> SUFFICES ASSUME NEW c \in Clients, NEW j \in Conns, stream'[c] = j,
                      open'[j], recvPc'[j] = "recv", ~request'[j],
                      ~lastStale'[j], ~Behind', ~Visits(j)'
               PROVE  Arrives(c, j)'
    BY Zenon DEF LastIsFresh
  <2>1. CASE j = i
    <3>1. responses'[i] = Append(responses[i], loopResources)
      OBVIOUS
    <3>2. responses'[i] # <<>> /\ responses'[i][Len(responses'[i])] = loopResources
      <4>1. /\ responses[i] \in Seq(SUBSET FederatedService)
            /\ loopResources \in SUBSET FederatedService
        BY Zenon
      <4> HIDE DEF TypeOK, ServerTypeOK, FreshInv, PushSend
      <4>2. /\ Append(responses[i], loopResources) # <<>>
            /\ Append(responses[i], loopResources)[Len(Append(responses[i], loopResources))]
                 = loopResources
        BY SMTT(30), <4>1, LastOfAppend
      <4> QED
        BY Zenon, <3>1, <4>2
    <3> QED
      BY ZenonT(30), <1>1, <1>4, <2>1, <3>2 DEF Arrives, Fresh
  <2>2. CASE j # i
    <3>1. Arrives(c, j)
      BY Zenon, <1>1, <1>2, <2>2 DEF LastIsFresh
    <3> QED
      BY Zenon, <2>2, <3>1 DEF Arrives, Fresh
  <2> QED
    BY Zenon, <2>1, <2>2
<1> QED
  BY Zenon, <1>5, <1>6, <1>7, <1>8, <1>9

\* Only a broken stream is deleted from the subscribers.
LEMMA PushSendFailsFresh ==
    ASSUME TypeOK, FreshInv, NEW i \in Conns, PushSendFails(i),
           UNCHANGED <<controllerVars, clientVars, boundVars>>
    PROVE  FreshInv'
<1> USE DEF FreshInv, controllerVars, clientVars, boundVars, streamVars, recvVars,
            PushSendFails, VisitSubscriber
<1>1. Behind' = Behind /\ Unpushed' = Unpushed
  BY Zenon DEF Behind, PushPending, Unpushed
<1>2. ~open[i] /\ \A j \in Conns : j # i => Visits(j)' = Visits(j)
  BY Zenon DEF Visits
<1>3. ServedAreSubscribed' /\ NewAreRequested' /\ StreamsAreOwned'
  BY Zenon DEF ServedAreSubscribed, Served, NewAreRequested, StreamsAreOwned
<1>4. LoopListsFresh' /\ LoopIsFresh'
  BY Zenon, <1>1 DEF LoopListsFresh, LoopIsFresh, Fresh
<1>5. ListedIsFresh' /\ HeldIsFresh'
  BY Zenon, <1>1, <1>2 DEF ListedIsFresh, HeldIsFresh, Fresh
<1>6. LastIsFresh'
  BY Zenon, <1>1, <1>2 DEF LastIsFresh, Arrives, Fresh
<1> QED
  BY Zenon, <1>3, <1>4, <1>5, <1>6

\* The loop gives a push up, or the server stops.
LEMMA LoopEndsFresh ==
    ASSUME TypeOK, FreshInv, GeneratePushFails \/ CloseSubscribers \/ GracefulStop,
           UNCHANGED <<controllerVars, clientVars, conns>>
    PROVE  FreshInv'
<1> USE DEF TypeOK, ServerTypeOK, FreshInv, controllerVars, clientVars, streamVars,
            recvVars
<1>1. CASE GeneratePushFails
  <2>1. Behind' /\ loopPc' = "select"
    BY Zenon, <1>1 DEF GeneratePushFails, Behind
  <2> QED
    BY Zenon, <1>1, <2>1
       DEF GeneratePushFails, ServedAreSubscribed, Served, NewAreRequested,
           StreamsAreOwned, LoopListsFresh, LoopIsFresh, ListedIsFresh, HeldIsFresh,
           LastIsFresh
<1>2. CASE CloseSubscribers
  <2>1. \A j \in Conns : ~Served(j)'
    BY Zenon, <1>2 DEF CloseSubscribers, ServedAreSubscribed, Served
  <2>2. NewAreRequested' /\ StreamsAreOwned' /\ loopPc' = "closing"
    BY Zenon, <1>2 DEF CloseSubscribers, NewAreRequested, StreamsAreOwned
  <2> QED
    BY Zenon, <2>1, <2>2
       DEF ServedAreSubscribed, Served, LoopListsFresh, LoopIsFresh, ListedIsFresh,
           HeldIsFresh, LastIsFresh
<1>3. CASE GracefulStop
  <2>1. Behind' = Behind /\ loopPc' = "stopped" /\ loopPc # "range"
    BY Zenon, <1>3 DEF GracefulStop, Behind, PushPending, Unpushed
  <2>2. /\ UNCHANGED <<subscribers, store, imported, dropped, stream, conns>>
        /\ UNCHANGED <<open, request, responses, recvPc, snapshot, listed, heldStale, lastStale>>
        /\ \A j \in Conns : ~Visits(j)
    BY Zenon, <1>3, <2>1 DEF GracefulStop, Visits
  <2> HIDE DEF TypeOK, ServerTypeOK
  <2>3. ServedAreSubscribed' /\ NewAreRequested' /\ StreamsAreOwned'
    BY Zenon, <2>2 DEF ServedAreSubscribed, Served, NewAreRequested, StreamsAreOwned
  <2>4. LoopListsFresh' /\ LoopIsFresh'
    BY Zenon, <2>1 DEF LoopListsFresh, LoopIsFresh
  <2>5. ListedIsFresh' /\ HeldIsFresh'
    BY Zenon, <2>1, <2>2 DEF ListedIsFresh, HeldIsFresh, Fresh
  <2>6. LastIsFresh'
    BY Zenon, <2>1, <2>2 DEF LastIsFresh, Arrives, Fresh
  <2> QED
    BY Zenon, <2>3, <2>4, <2>5, <2>6
<1> QED
  BY Zenon, <1>1, <1>2, <1>3

-----------------------------------------------------------------------------
(* The goroutines of the streams.                                          *)

LEMMA StreamAggregatedResourcesFresh ==
    ASSUME TypeOK, FreshInv, NEW i \in Conns, StreamAggregatedResources(i),
           UNCHANGED <<controllerVars, clientVars, boundVars>>
    PROVE  FreshInv'
<1> USE DEF TypeOK, ServerTypeOK, FreshInv, StreamAggregatedResources, controllerVars,
            clientVars, boundVars, streamVars
<1>1. Behind' = Behind /\ Unpushed' = Unpushed
  BY DEF Behind, PushPending, Unpushed
<1>2. \A j \in Conns : Visits(j) => Visits(j)'
  BY DEF Visits
<1>3. ServedAreSubscribed' /\ NewAreRequested' /\ StreamsAreOwned'
  BY Zenon DEF ServedAreSubscribed, Served, NewAreRequested, StreamsAreOwned
<1>4. LoopListsFresh' /\ LoopIsFresh'
  BY Zenon, <1>1 DEF LoopListsFresh, LoopIsFresh, Fresh
<1>5. ListedIsFresh' /\ HeldIsFresh'
  BY Zenon, <1>1, <1>2 DEF ListedIsFresh, HeldIsFresh, Fresh
<1>6. LastIsFresh'
  <2> SUFFICES ASSUME NEW c \in Clients, NEW j \in Conns, stream'[c] = j,
                      open'[j], recvPc'[j] = "recv", ~request'[j],
                      ~lastStale'[j], ~Behind', ~Visits(j)'
               PROVE  Arrives(c, j)'
    BY Zenon DEF LastIsFresh
  <2>1. j # i
    BY Zenon DEF NewAreRequested
  <2>2. /\ stream[c] = j /\ open[j] /\ recvPc[j] = "recv" /\ ~request[j]
        /\ ~lastStale[j] /\ ~Behind /\ ~Visits(j)
    BY Zenon, <1>1, <1>2, <2>1
  <2> HIDE DEF TypeOK, ServerTypeOK, StreamAggregatedResources
  <2>3. Arrives(c, j)
    BY Zenon, <2>2 DEF LastIsFresh
  <2> QED
    BY Zenon, <2>3 DEF Arrives, Fresh, StreamAggregatedResources
<1> QED
  BY Zenon, <1>3, <1>4, <1>5, <1>6

\* The snapshot is listed from the store, one selector at a time.
LEMMA HoldSnapshotFresh ==
    ASSUME TypeOK, FreshInv, NEW i \in Conns,
           \/ RecvRequest(i, store) \/ ListNextSelector(i, store)
           \/ RecvRequestFails(i),
           UNCHANGED <<controllerVars, clientVars, conns>>
    PROVE  FreshInv'
<1>0. store \in ServiceMap
  BY Zenon DEF TypeOK, ControllerTypeOK
<1>1. PICK resources, n, stale :
         /\ n \in Nat /\ stale \in BOOLEAN
         /\ HoldSnapshot(i, resources, n, stale)
         /\ open[i] /\ ~stale /\ ~Behind /\ ~Visits(i) => FreshSoFar(store, resources, n)
         /\ request' = [request EXCEPT ![i] = request'[i]]
         /\ recvPc[i] \in {"recv", "list"}
  <2>1. CASE RecvRequest(i, store)
    <3>1. HoldSnapshot(i, ListExports(store, 1), 1, FALSE)
      BY Zenon, <2>1 DEF RecvRequest
    <3>2. FreshSoFar(store, {} \cup ListExports(store, 0 + 1), 0 + 1)
      BY <1>0, FreshBeforeListing, FreshAfterRound
    <3>3. FreshSoFar(store, ListExports(store, 1), 1)
      <4>1. {} \cup ListExports(store, 0 + 1) = ListExports(store, 1) /\ 0 + 1 = 1
        OBVIOUS
      <4> QED
        BY Zenon, <3>2, <4>1
    <3>4. request' = [request EXCEPT ![i] = request'[i]] /\ recvPc[i] \in {"recv", "list"}
      BY <2>1 DEF RecvRequest, TypeOK, ServerTypeOK
    <3>5. 1 \in Nat /\ FALSE \in BOOLEAN
      OBVIOUS
    <3> QED
      BY Zenon, <3>1, <3>3, <3>4, <3>5
  <2>2. CASE ListNextSelector(i, store)
    <3> DEFINE more == snapshot[i] \cup ListExports(store, listed[i] + 1)
    <3>1. HoldSnapshot(i, more, listed[i] + 1, heldStale[i])
      BY Zenon, <2>2 DEF ListNextSelector
    <3>2. /\ recvPc[i] = "list" /\ listed[i] \in Nat /\ heldStale[i] \in BOOLEAN
          /\ request' = request
      BY Zenon, <2>2 DEF ListNextSelector, TypeOK, ServerTypeOK
    <3>3. open[i] /\ ~heldStale[i] /\ ~Behind /\ ~Visits(i)
             => FreshSoFar(store, more, listed[i] + 1)
      BY <1>0, <3>2, FreshAfterRound DEF FreshInv, ListedIsFresh
    <3>4. /\ listed[i] + 1 \in Nat /\ request' = [request EXCEPT ![i] = request'[i]]
          /\ recvPc[i] \in {"recv", "list"}
      BY <3>2 DEF TypeOK, ServerTypeOK
    <3> HIDE DEF more
    <3> QED
      BY Zenon, <3>1, <3>2, <3>3, <3>4
  <2>3. CASE RecvRequestFails(i)
    <3>1. HoldSnapshot(i, {}, Len(GetLabelSelectors), TRUE)
      BY Zenon, <2>3 DEF RecvRequestFails
    <3>2. request' = [request EXCEPT ![i] = request'[i]] /\ recvPc[i] \in {"recv", "list"}
      BY <2>3 DEF RecvRequestFails, TypeOK, ServerTypeOK
    <3>3. Len(GetLabelSelectors) \in Nat /\ TRUE \in BOOLEAN
      BY <1>0, ExportedAreSelected
    <3> QED
      BY Zenon, <3>1, <3>2, <3>3
  <2> QED
    BY <2>1, <2>2, <2>3
<1>2. /\ UNCHANGED <<controllerVars, clientVars, conns, loopVars, open, responses, lastStale>>
      /\ snapshot'[i] = resources /\ heldStale'[i] = stale
      /\ IF n < Len(GetLabelSelectors) THEN recvPc'[i] = "list" /\ listed'[i] = n
                                       ELSE recvPc'[i] = "send"
      /\ \A j \in Conns : j # i =>
            /\ snapshot'[j] = snapshot[j] /\ heldStale'[j] = heldStale[j]
            /\ recvPc'[j] = recvPc[j] /\ listed'[j] = listed[j]
            /\ request'[j] = request[j]
  BY SMTT(30), <1>1 DEF HoldSnapshot, TypeOK, ServerTypeOK
<1>3. /\ Behind' = Behind /\ Unpushed' = Unpushed
      /\ \A j \in Conns : Visits(j)' = Visits(j)
  BY Zenon, <1>2 DEF Behind, PushPending, Unpushed, Visits, controllerVars, loopVars
<1> USE DEF FreshInv, controllerVars, clientVars, loopVars
<1>4. ServedAreSubscribed' /\ NewAreRequested' /\ StreamsAreOwned'
  <2>1. Served(i)' => Served(i)
    BY Zenon, <1>1, <1>2 DEF Served
  <2> QED
    BY <1>2, <2>1 DEF ServedAreSubscribed, Served, NewAreRequested, StreamsAreOwned
<1>5. LoopListsFresh' /\ LoopIsFresh'
  BY Zenon, <1>2, <1>3 DEF LoopListsFresh, LoopIsFresh, Fresh
<1>6. ListedIsFresh'
  <2> SUFFICES ASSUME NEW j \in Conns, open'[j], recvPc'[j] = "list", ~heldStale'[j],
                      ~Behind', ~Visits(j)'
               PROVE  FreshSoFar(store', snapshot'[j], listed'[j])
    BY Zenon DEF ListedIsFresh
  <2>1. CASE j = i
    BY Zenon, <1>1, <1>2, <1>3, <2>1
  <2>2. CASE j # i
    BY Zenon, <1>2, <1>3, <2>2 DEF ListedIsFresh
  <2> QED
    BY Zenon, <2>1, <2>2
<1>7. HeldIsFresh'
  <2> SUFFICES ASSUME NEW j \in Conns, open'[j], recvPc'[j] = "send", ~heldStale'[j],
                      ~Behind', ~Visits(j)'
               PROVE  Hosts(snapshot'[j]) = Exported(store')
    BY Zenon DEF HeldIsFresh, Fresh
  <2>1. CASE j = i
    <3>1. FreshSoFar(store, resources, n)
      BY Zenon, <1>1, <1>2, <1>3, <2>1
    <3>2. ~(n < Len(GetLabelSelectors)) /\ Len(GetLabelSelectors) \in Nat
      BY Zenon, <1>0, <1>2, <2>1, ExportedAreSelected
    <3> HIDE DEF FreshInv
    <3>3. n \in Nat /\ n >= Len(GetLabelSelectors)
      BY <1>1, <3>2
    <3>4. Hosts(resources) = Exported(store)
      BY Zenon, <1>0, <3>1, <3>3, FreshAfterListing
    <3> QED
      BY Zenon, <1>2, <2>1, <3>4
  <2>2. CASE j # i
    BY Zenon, <1>2, <1>3, <2>2 DEF HeldIsFresh, Fresh
  <2> QED
    BY Zenon, <2>1, <2>2
<1>8. LastIsFresh'
  <2> SUFFICES ASSUME NEW c \in Clients, NEW j \in Conns, stream'[c] = j,
                      open'[j], recvPc'[j] = "recv", ~request'[j],
                      ~lastStale'[j], ~Behind', ~Visits(j)'
               PROVE  Arrives(c, j)'
    BY Zenon DEF LastIsFresh
  <2>1. j # i
    BY Zenon, <1>2
  <2>2. Arrives(c, j)
    BY ZenonT(30), <1>2, <1>3, <2>1 DEF LastIsFresh
  <2> QED
    BY Zenon, <1>2, <2>2 DEF Arrives, Fresh
<1> QED
  BY Zenon, <1>4, <1>5, <1>6, <1>7, <1>8

\* A snapshot that is not marked stale is fresh when it reaches the stream.
LEMMA SendSnapshotFresh ==
    ASSUME TypeOK, FreshInv, NEW i \in Conns, SendSnapshot(i),
           UNCHANGED <<controllerVars, clientVars, boundVars>>
    PROVE  FreshInv'
<1> USE DEF TypeOK, ServerTypeOK, FreshInv, controllerVars, clientVars, boundVars,
            loopVars, SendSnapshot, NextRequest
<1>1. /\ Behind' = Behind /\ Unpushed' = Unpushed
      /\ \A j \in Conns : Visits(j)' = Visits(j)
  BY Zenon DEF Behind, PushPending, Unpushed, Visits
<1>2. ServedAreSubscribed' /\ NewAreRequested' /\ StreamsAreOwned'
  BY Zenon DEF ServedAreSubscribed, Served, NewAreRequested, StreamsAreOwned
<1>3. LoopListsFresh' /\ LoopIsFresh'
  BY Zenon, <1>1 DEF LoopListsFresh, LoopIsFresh, Fresh
<1>4. ListedIsFresh' /\ HeldIsFresh'
  BY Zenon, <1>1 DEF ListedIsFresh, HeldIsFresh, Fresh
<1>5. LastIsFresh'
  <2> SUFFICES ASSUME NEW c \in Clients, NEW j \in Conns, stream'[c] = j,
                      open'[j], recvPc'[j] = "recv", ~request'[j],
                      ~lastStale'[j], ~Behind', ~Visits(j)'
               PROVE  Arrives(c, j)'
    BY Zenon DEF LastIsFresh
  <2>1. CASE j = i
    <3>1. responses'[i] = Append(responses[i], snapshot[i])
      BY Zenon
    <3>2. responses'[i] # <<>> /\ responses'[i][Len(responses'[i])] = snapshot[i]
      <4>1. /\ responses[i] \in Seq(SUBSET FederatedService)
            /\ snapshot[i] \in SUBSET FederatedService
        BY Zenon
      <4> HIDE DEF TypeOK, ServerTypeOK, FreshInv, SendSnapshot
      <4>2. /\ Append(responses[i], snapshot[i]) # <<>>
            /\ Append(responses[i], snapshot[i])[Len(Append(responses[i], snapshot[i]))]
                 = snapshot[i]
        BY SMTT(30), <4>1, LastOfAppend
      <4> QED
        BY Zenon, <3>1, <4>2
    <3>3. Fresh(snapshot[i])
      BY Zenon, <1>1, <2>1 DEF HeldIsFresh
    <3> QED
      BY ZenonT(30), <2>1, <3>2, <3>3 DEF Arrives, Fresh
  <2>2. CASE j # i
    <3>0. /\ stream[c] = j /\ open[j] /\ recvPc[j] = "recv" /\ ~request[j]
          /\ ~lastStale[j] /\ ~Behind /\ ~Visits(j)
      BY Zenon, <1>1, <2>2
    <3>1. Arrives(c, j)
      BY Zenon, <3>0 DEF LastIsFresh
    <3> QED
      BY Zenon, <2>2, <3>1 DEF Arrives, Fresh
  <2> QED
    BY Zenon, <2>1, <2>2
<1> QED
  BY <1>2, <1>3, <1>4, <1>5

\* The goroutine of a broken stream goes on or ends.
LEMMA BrokenStreamFresh ==
    ASSUME TypeOK, FreshInv, NEW i \in Conns, SendSnapshotFails(i) \/ RecvError(i),
           UNCHANGED <<controllerVars, clientVars, boundVars>>
    PROVE  FreshInv'
<1> USE DEF TypeOK, ServerTypeOK, FreshInv, controllerVars, clientVars, boundVars,
            loopVars, streamVars, SendSnapshotFails, RecvError, NextRequest
<1>1. /\ Behind' = Behind /\ Unpushed' = Unpushed
      /\ \A j \in Conns : Visits(j)' = Visits(j)
  BY DEF Behind, PushPending, Unpushed, Visits
<1>2. ~open'[i] /\ open' = open
  BY Zenon
<1>3. \A j \in Conns : j # i => /\ snapshot'[j] = snapshot[j]
                               /\ listed'[j] = listed[j]
                               /\ recvPc'[j] = recvPc[j]
                               /\ heldStale'[j] = heldStale[j]
  BY Zenon
<1>4. UNCHANGED <<subscribers, loopPc, loopResources, loopListed, lostPush, store, request, responses,
                  lastStale, clientVars, conns>>
  BY Zenon
<1>5. ServedAreSubscribed' /\ NewAreRequested' /\ StreamsAreOwned'
  BY SMTT(30), <1>2, <1>3, <1>4
     DEF ServedAreSubscribed, Served, NewAreRequested, StreamsAreOwned
<1>6. LoopListsFresh' /\ LoopIsFresh'
  BY Zenon, <1>1, <1>4 DEF LoopListsFresh, LoopIsFresh, Fresh
<1>7. ListedIsFresh' /\ HeldIsFresh'
  BY SMTT(30), <1>1, <1>2, <1>3, <1>4 DEF ListedIsFresh, HeldIsFresh, Fresh
<1>8. LastIsFresh'
  <2> SUFFICES ASSUME NEW c \in Clients, NEW j \in Conns, stream'[c] = j,
                      open'[j], recvPc'[j] = "recv", ~request'[j],
                      ~lastStale'[j], ~Behind', ~Visits(j)'
               PROVE  Arrives(c, j)'
    BY Zenon DEF LastIsFresh
  <2>1. j # i
    BY Zenon, <1>2
  <2>2. /\ stream[c] = j /\ open[j] /\ recvPc[j] = "recv" /\ ~request[j]
        /\ ~lastStale[j] /\ ~Behind /\ ~Visits(j)
    BY Zenon, <1>1, <1>2, <1>3, <1>4, <2>1
  <2>3. Arrives(c, j)
    BY Zenon, <2>2 DEF LastIsFresh
  <2> QED
    BY Zenon, <1>4, <2>3 DEF Arrives, Fresh
<1> QED
  BY Zenon, <1>5, <1>6, <1>7, <1>8

-----------------------------------------------------------------------------
(* Steps of a client and of the environment.                               *)

\* A new stream carries a request, which the server is still to answer.
LEMMA ConnectFresh ==
    ASSUME TypeOK, FreshInv, NEW c \in Clients, Connect(c)
    PROVE  FreshInv'
<1> DEFINE n == conns + 1
<1>0. conns \in Nat
  BY ServerAssumption DEF TypeOK
<1>1. n \in Conns /\ n \notin 0..conns
  BY ServerAssumption DEF Connect, Conns, TypeOK
<1> USE DEF TypeOK, ServerTypeOK, ClientTypeOK, FreshInv, controllerVars, loopVars,
            Connect, Run, OpenStream
<1>2. /\ Behind' = Behind /\ Unpushed' = Unpushed
      /\ \A j \in Conns : Visits(j)' = Visits(j)
  BY DEF Behind, PushPending, Unpushed, Visits
<1>3. recvPc'[n] = "new" /\ request'[n]
  BY Zenon, <1>1
<1>4. \A j \in Conns : j # n => /\ open'[j] = open[j]
                               /\ request'[j] = request[j]
                               /\ recvPc'[j] = recvPc[j]
  BY Zenon
<1>5. \A d \in Clients : stream'[d] = IF d = c THEN n ELSE stream[d]
  BY Zenon
<1>6. /\ UNCHANGED <<subscribers, loopPc, loopResources, loopListed, lostPush, store,
                     responses, snapshot, listed, heldStale, lastStale, imported, dropped>>
      /\ conns' = n
  OBVIOUS
<1> HIDE DEF Connect, Run, OpenStream, n
<1>7. ServedAreSubscribed' /\ NewAreRequested'
  BY Zenon, <1>3, <1>4, <1>6 DEF ServedAreSubscribed, Served, NewAreRequested
<1>8. StreamsAreOwned'
  <2>1. conns \in Nat /\ n = conns + 1 /\ conns' = n
    BY Zenon, <1>0, <1>6 DEF n
  <2>2. \A d \in Clients : stream[d] \in 0..conns
    BY DEF StreamsAreOwned
  <2>3. ASSUME NEW d \in Clients PROVE stream'[d] \in 0..conns'
    <3>1. CASE d = c
      BY <1>5, <2>1, <3>1
    <3>2. CASE d # c
      <4>1. stream'[d] = stream[d] /\ stream[d] \in 0..conns /\ conns' = conns + 1
        BY Zenon, <1>5, <2>1, <2>2, <3>2
      <4> QED
        BY <2>1, <4>1
    <3> QED
      BY <3>1, <3>2
  <2>4. \A d, e \in Clients : stream'[d] = stream'[e] /\ stream'[d] # 0 => d = e
    BY SMTT(30), <1>1, <1>5, <2>2 DEF StreamsAreOwned
  <2> QED
    BY <2>3, <2>4 DEF StreamsAreOwned
<1>9. LoopListsFresh' /\ LoopIsFresh'
  BY <1>2, <1>6 DEF LoopListsFresh, LoopIsFresh, Fresh
<1>10. ListedIsFresh' /\ HeldIsFresh'
  BY Zenon, <1>2, <1>3, <1>4, <1>6 DEF ListedIsFresh, HeldIsFresh, Fresh
<1>11. LastIsFresh'
  <2> SUFFICES ASSUME NEW d \in Clients, NEW j \in Conns, stream'[d] = j,
                      open'[j], recvPc'[j] = "recv", ~request'[j],
                      ~lastStale'[j], ~Behind', ~Visits(j)'
               PROVE  Arrives(d, j)'
    BY Zenon DEF LastIsFresh
  <2>1. j # n /\ d # c
    BY Zenon, <1>3, <1>5
  <2>2. Arrives(d, j)
    BY Zenon, <1>2, <1>4, <1>5, <1>6, <2>1 DEF LastIsFresh
  <2> QED
    BY Zenon, <1>6, <2>2 DEF Arrives, Fresh
<1> QED
  BY <1>7, <1>8, <1>9, <1>10, <1>11

\* Only the empty sequence has length 0.
LEMMA LengthZero ==
    ASSUME NEW S, NEW q \in Seq(S), Len(q) = 0
    PROVE  q = <<>>
  OBVIOUS

\* Reading the first element of a sequence does not change the last one.
LEMMA LastOfTail ==
    ASSUME NEW S, NEW q \in Seq(S), q # <<>>
    PROVE  /\ Len(q) = 1 => Tail(q) = <<>> /\ Head(q) = q[Len(q)]
           /\ Len(q) # 1 => Tail(q) # <<>> /\ Tail(q)[Len(Tail(q))] = q[Len(q)]
<1>1. /\ Tail(q) \in Seq(S)
      /\ Len(Tail(q)) = Len(q) - 1
      /\ \A k \in 1..Len(Tail(q)) : Tail(q)[k] = q[k + 1]
  OBVIOUS
<1>2. Len(q) \in Nat /\ Len(q) # 0 /\ Head(q) = q[1]
  OBVIOUS
<1>3. CASE Len(q) = 1
  <2>1. Len(Tail(q)) = 0
    BY <1>1, <1>3
  <2>2. Tail(q) = <<>>
    BY Zenon, <1>1, <2>1, LengthZero
  <2> QED
    BY Zenon, <1>2, <1>3, <2>2
<1>4. CASE Len(q) # 1
  BY <1>1, <1>2, <1>4
<1> QED
  BY <1>3, <1>4

\* The client reads one response; the last one it reads decides.
LEMMA TakeResponseFresh ==
    ASSUME TypeOK, FreshInv, NEW c \in Clients, TakeResponse(c),
           Handle(c, Head(responses[stream[c]])) \/ HandleFails(c),
           UNCHANGED conns
    PROVE  FreshInv'
<1> DEFINE i == stream[c]
<1> USE DEF TypeOK, ServerTypeOK, ClientTypeOK, FreshInv, controllerVars, loopVars,
            recvVars, TakeResponse, Handle, Update, HandleFails
<1>1. /\ Behind' = Behind /\ Unpushed' = Unpushed
      /\ \A j \in Conns : Visits(j)' = Visits(j)
  BY Zenon DEF Behind, PushPending, Unpushed, Visits
<1>2. i \in Conns /\ responses[i] # <<>> /\ responses'[i] = Tail(responses[i])
  BY Zenon
<1>3. /\ \A j \in Conns : j # i => responses'[j] = responses[j]
      /\ \A d \in Clients : d # c => /\ imported'[d] = imported[d]
                                     /\ dropped'[d] = dropped[d]
  BY Zenon
<1>4. dropped'[c] \/ imported'[c] = Head(responses[i])
  BY Zenon
<1>5. UNCHANGED <<subscribers, loopPc, loopResources, loopListed, lostPush, store, open,
                  request, recvPc, snapshot, listed, heldStale, lastStale, stream, conns>>
  BY Zenon
<1>6. responses[i] \in Seq(SUBSET FederatedService)
  BY Zenon, <1>2
<1> HIDE DEF TakeResponse, Handle, Update, HandleFails, i
<1>7. ServedAreSubscribed' /\ NewAreRequested' /\ StreamsAreOwned'
  BY Zenon, <1>5 DEF ServedAreSubscribed, Served, NewAreRequested, StreamsAreOwned
<1>8. LoopListsFresh' /\ LoopIsFresh' /\ ListedIsFresh' /\ HeldIsFresh'
  BY Zenon, <1>1, <1>5 DEF LoopListsFresh, LoopIsFresh, ListedIsFresh, HeldIsFresh, Fresh
<1>9. LastIsFresh'
  <2> SUFFICES ASSUME NEW d \in Clients, NEW j \in Conns, stream'[d] = j,
                      open'[j], recvPc'[j] = "recv", ~request'[j],
                      ~lastStale'[j], ~Behind', ~Visits(j)'
               PROVE  Arrives(d, j)'
    BY Zenon DEF LastIsFresh
  <2>1. Arrives(d, j)
    BY Zenon, <1>1, <1>5 DEF LastIsFresh
  <2>2. CASE d # c
    <3>1. j # i
      BY SMTT(30), <1>2, <1>5, <2>2 DEF StreamsAreOwned, i, Conns
    <3> QED
      BY Zenon, <1>3, <1>5, <2>1, <2>2, <3>1 DEF Arrives, Fresh
  <2>3. CASE d = c
    <3>1. j = i
      BY Zenon, <1>5, <2>3 DEF i
    <3>2. Fresh(responses[i][Len(responses[i])])
      BY Zenon, <1>2, <2>1, <3>1 DEF Arrives
    <3>3. CASE Len(responses[i]) = 1
      <4>1. responses'[i] = <<>> /\ Head(responses[i]) = responses[i][Len(responses[i])]
        BY Zenon, <1>2, <1>6, <3>3, LastOfTail
      <4> QED
        BY Zenon, <1>4, <1>5, <2>3, <3>1, <3>2, <4>1 DEF Arrives, Fresh
    <3>4. CASE Len(responses[i]) # 1
      <4>1. /\ responses'[i] # <<>>
            /\ responses'[i][Len(responses'[i])] = responses[i][Len(responses[i])]
        BY Zenon, <1>2, <1>6, <3>4, LastOfTail
      <4> QED
        BY Zenon, <1>5, <3>1, <3>2, <4>1 DEF Arrives, Fresh
    <3> QED
      BY Zenon, <3>3, <3>4
  <2> QED
    BY Zenon, <2>2, <2>3
<1> QED
  BY Zenon, <1>7, <1>8, <1>9

\* The other steps of a client do not touch its stream or its store.
LEMMA ClientWaitsFresh ==
    ASSUME TypeOK, FreshInv, NEW c \in Clients,
           RunFails(c) \/ Restart(c) \/ RecvFails(c) \/ SendImportPush(c),
           UNCHANGED <<controllerVars, serverVars, conns>>
    PROVE  FreshInv'
<1>1. UNCHANGED <<stream, imported, dropped>>
  BY DEF RunFails, Restart, RecvFails, SendImportPush
<1> USE DEF FreshInv, controllerVars, serverVars, loopVars, streamVars, recvVars
<1>2. Behind' = Behind /\ Unpushed' = Unpushed
  BY Zenon DEF Behind, PushPending, Unpushed
<1>3. ServedAreSubscribed' /\ NewAreRequested' /\ StreamsAreOwned'
  BY Zenon, <1>1 DEF ServedAreSubscribed, Served, NewAreRequested, StreamsAreOwned
<1>4. LoopListsFresh' /\ LoopIsFresh' /\ ListedIsFresh' /\ HeldIsFresh'
  BY Zenon, <1>2 DEF LoopListsFresh, LoopIsFresh, ListedIsFresh, HeldIsFresh, Visits, Fresh
<1>5. LastIsFresh'
  BY <1>1, <1>2 DEF LastIsFresh, Arrives, Visits, Fresh
<1> QED
  BY <1>3, <1>4, <1>5

-----------------------------------------------------------------------------
(* Faults of the environment.                                              *)

\* Streams break, responses on broken streams are lost, processes start again.
LEMMA FaultFresh ==
    ASSUME TypeOK, FreshInv,
           \/ \E i \in Conns : ConnectionBreaks(i) \/ ResponseLost(i)
           \/ ExporterRestarts
           \/ \E c \in Clients : PeerRestarts(c)
    PROVE  FreshInv'
<1> USE DEF TypeOK, ServerTypeOK, ClientTypeOK, FreshInv
<1>1. ASSUME NEW i \in Conns, ConnectionBreaks(i) \/ ResponseLost(i)
      PROVE  FreshInv'
  <2> USE <1>1 DEF ConnectionBreaks, ResponseLost, BreakStream, LoseResponse, Fault,
                   boundVars, controllerVars, clientVars, loopVars, recvVars
  <2>1. ~open'[i]
    BY Zenon
  <2>2. \A j \in Conns : j # i => /\ open'[j] = open[j]
                                 /\ request'[j] = request[j]
                                 /\ responses'[j] = responses[j]
    BY Zenon
  <2>3. UNCHANGED <<subscribers, loopPc, loopResources, loopListed, todo, lostPush, store,
                    queue, pushes, recvPc, snapshot, listed, heldStale, lastStale, stream,
                    imported, dropped, conns>>
    BY Zenon
  <2>4. /\ Behind' = Behind /\ Unpushed' = Unpushed
        /\ \A j \in Conns : Visits(j)' = Visits(j)
    BY <2>3 DEF Behind, PushPending, Unpushed, Visits
  <2> HIDE DEF ConnectionBreaks, ResponseLost
  <2>5. ServedAreSubscribed' /\ NewAreRequested' /\ StreamsAreOwned'
    BY Zenon, <2>1, <2>2, <2>3
       DEF ServedAreSubscribed, Served, NewAreRequested, StreamsAreOwned
  <2>6. LoopListsFresh' /\ LoopIsFresh' /\ ListedIsFresh' /\ HeldIsFresh'
    BY Zenon, <2>1, <2>2, <2>3, <2>4
       DEF LoopListsFresh, LoopIsFresh, ListedIsFresh, HeldIsFresh, Fresh
  <2>7. LastIsFresh'
    <3> SUFFICES ASSUME NEW c \in Clients, NEW j \in Conns, stream'[c] = j,
                        open'[j], recvPc'[j] = "recv", ~request'[j],
                        ~lastStale'[j], ~Behind', ~Visits(j)'
                 PROVE  Arrives(c, j)'
      BY Zenon DEF LastIsFresh
    <3>1. j # i
      BY Zenon, <2>1
    <3>2. Arrives(c, j)
      BY SMTT(30), <2>2, <2>3, <2>4, <3>1 DEF LastIsFresh
    <3> QED
      BY Zenon, <2>2, <2>3, <3>1, <3>2 DEF Arrives, Fresh
  <2> QED
    BY Zenon, <2>5, <2>6, <2>7
<1>2. CASE ExporterRestarts
  <2>1. /\ \A j \in Conns : ~open'[j]
        /\ loopPc' = "select"
        /\ UNCHANGED <<stream, conns>>
    BY <1>2 DEF ExporterRestarts, ServerRestart, Fault, clientVars
  <2> QED
    BY Zenon, <2>1 DEF ServedAreSubscribed, Served, NewAreRequested, StreamsAreOwned,
                LoopListsFresh, LoopIsFresh, ListedIsFresh, HeldIsFresh, LastIsFresh
<1>3. ASSUME NEW c \in Clients, PeerRestarts(c)
      PROVE  FreshInv'
  <2> USE <1>3 DEF PeerRestarts, ClientRestart, Fault, controllerVars, loopVars, recvVars
  <2>1. \A j \in Conns : open'[j] <=> open[j] /\ j # stream[c]
    BY Zenon
  <2>2. \A j \in Conns : j # stream[c] => /\ request'[j] = request[j]
                                         /\ responses'[j] = responses[j]
    BY Zenon
  <2>3. stream' = [stream EXCEPT ![c] = 0]
        /\ \A d \in Clients : d # c => imported'[d] = imported[d]
                                      /\ dropped'[d] = dropped[d]
    <3> HIDE DEF TypeOK, ServerTypeOK, ClientTypeOK, FreshInv
    <3>1. imported \in [Clients -> SUBSET FederatedService] /\ dropped \in [Clients -> BOOLEAN]
      BY Zenon DEF TypeOK, ClientTypeOK
    <3> QED
      BY Zenon, <3>1
  <2>4. UNCHANGED <<subscribers, loopPc, loopResources, loopListed, todo, lostPush, store,
                    queue, pushes, recvPc, snapshot, listed, heldStale, lastStale, conns>>
    BY Zenon
  <2>5. /\ Behind' = Behind /\ Unpushed' = Unpushed
        /\ \A j \in Conns : Visits(j)' = Visits(j)
    <3> HIDE <1>3 DEF TypeOK, ServerTypeOK, ClientTypeOK, FreshInv
    <3> QED
      BY <2>4 DEF Behind, PushPending, Unpushed, Visits
  <2> HIDE DEF PeerRestarts
  <2>6. ServedAreSubscribed' /\ NewAreRequested'
    BY Zenon, <2>1, <2>2, <2>4 DEF ServedAreSubscribed, Served, NewAreRequested
  <2>7. StreamsAreOwned'
    <3>1. \A d \in Clients : stream'[d] = IF d = c THEN 0 ELSE stream[d]
      BY Zenon, <2>3 DEF TypeOK, ClientTypeOK
    <3>2. 0 \in 0..conns
      BY DEF TypeOK
    <3> QED
      BY Zenon, <2>4, <3>1, <3>2 DEF StreamsAreOwned
  <2>8. LoopListsFresh' /\ LoopIsFresh' /\ ListedIsFresh' /\ HeldIsFresh'
    BY Zenon, <2>1, <2>2, <2>4, <2>5
       DEF LoopListsFresh, LoopIsFresh, ListedIsFresh, HeldIsFresh, Fresh
  <2>9. LastIsFresh'
    <3>1. \A d \in Clients : stream'[d] \in Conns => d # c /\ stream'[d] = stream[d]
      BY <2>3 DEF Conns
    <3> SUFFICES ASSUME NEW d \in Clients, NEW i \in Conns, stream'[d] = i,
                        open'[i], recvPc'[i] = "recv", ~request'[i],
                        ~lastStale'[i], ~Behind', ~Visits(i)'
                 PROVE  Arrives(d, i)'
      BY Zenon DEF LastIsFresh
    <3>2. /\ d # c /\ stream[d] = i
          /\ open[i] /\ request'[i] = request[i] /\ responses'[i] = responses[i]
          /\ imported'[d] = imported[d] /\ dropped'[d] = dropped[d]
      BY Zenon, <2>1, <2>2, <2>3, <3>1
    <3>3. Arrives(d, i)
      BY Zenon, <2>4, <2>5, <3>2 DEF LastIsFresh
    <3> QED
      BY Zenon, <2>4, <3>2, <3>3 DEF Arrives, Fresh
  <2> QED
    BY Zenon, <2>6, <2>7, <2>8, <2>9
<1> QED
  BY Zenon, <1>1, <1>2, <1>3

-----------------------------------------------------------------------------
LEMMA NextFresh == TypeOK /\ FreshInv /\ [Next]_vars => FreshInv'
<1> SUFFICES ASSUME TypeOK, FreshInv, [Next]_vars
             PROVE  FreshInv'
  OBVIOUS
<1>1. ASSUME NEW s \in Services, InformerStep(s)
      PROVE  FreshInv'
  BY <1>1, InformerStepFresh
<1>2. CASE WorkerStep
  BY <1>2, WorkerStepFresh
<1>3. CASE FdsPush
  BY <1>3, FdsPushFresh
<1>4. ASSUME NEW i \in Conns, StreamStep(i)
      PROVE  FreshInv'
  <2>1. UNCHANGED <<controllerVars, clientVars, boundVars>> /\ UNCHANGED conns
    BY <1>4 DEF StreamStep, boundVars
  <2> QED
    BY <1>4, <2>1, StreamAggregatedResourcesFresh, HoldSnapshotFresh,
       SendSnapshotFresh, BrokenStreamFresh DEF StreamStep
<1>5. CASE LoopStep
  <2>1. UNCHANGED <<controllerVars, clientVars, boundVars>> /\ UNCHANGED conns
    BY <1>5 DEF LoopStep, boundVars
  <2> QED
    BY <1>5, <2>1, GeneratePushFresh, PushSendFresh, PushSendFailsFresh, LoopEndsFresh
       DEF LoopStep
<1>6. ASSUME NEW c \in Clients, ClientStep(c)
      PROVE  FreshInv'
  <2>1. CASE Connect(c)
    BY <2>1, ConnectFresh
  <2>2. CASE Receive(c)
    BY Zenon, <2>2, TakeResponseFresh DEF Receive, boundVars
  <2>3. CASE ConnectRefused(c) \/ Reconnect(c) \/ StreamEnds(c) \/ ImportPush(c)
    BY <2>3, ClientWaitsFresh
       DEF ConnectRefused, Reconnect, StreamEnds, ImportPush, boundVars
  <2> QED
    BY Zenon, <1>6, <2>1, <2>2, <2>3 DEF ClientStep
<1>7. CASE EnvironmentStep
  <2>1. ASSUME NEW c \in Clients, ConnectFails(c)
        PROVE  FreshInv'
    BY <2>1, ClientWaitsFresh DEF ConnectFails, Fault
  <2>2. ASSUME NEW c \in Clients, ReceiveMalformed(c)
        PROVE  FreshInv'
    BY <2>2, TakeResponseFresh DEF ReceiveMalformed, Fault
  <2>3. CASE ListFails
    BY <2>3, HoldSnapshotFresh, LoopEndsFresh DEF ListFails, Fault
  <2>4. CASE ServeFails
    BY <2>4, LoopEndsFresh DEF ServeFails, Fault
  <2> QED
    BY Zenon, <1>7, <2>1, <2>2, <2>3, <2>4, UserChangesFresh, FaultFresh DEF EnvironmentStep
<1>8. CASE UNCHANGED vars
  <2>1. Unpushed' = Unpushed
    BY <1>8 DEF vars, controllerVars, Unpushed
  <2> QED
    BY <1>8, <2>1, QuietStepFresh DEF vars, controllerVars, boundVars
<1> QED
  BY Zenon, <1>1, <1>2, <1>3, <1>4, <1>5, <1>6, <1>7, <1>8 DEF Next

LEMMA FreshImpliesMirror == TypeOK /\ FreshInv => SettledPeersMirrorExports
<1> SUFFICES ASSUME TypeOK, FreshInv, NEW c \in Clients, Settled(c), ~UpdateLost(c)
             PROVE  Mirrors(c)
  BY DEF SettledPeersMirrorExports
<1>1. Arrives(c, stream[c])
  BY DEF FreshInv, LastIsFresh, Settled, UpdateLost, Behind, Visits
<1> QED
  BY <1>1 DEF Arrives, Fresh, Settled, UpdateLost, Mirrors

\* No interleaving of service events, pushes, subscriptions, broken streams and
\* restarts loses an export on the way to a peer, except for the three losses
\* that UpdateLost names: SettledPeersMirrorExports is an invariant.
THEOREM NoUpdateIsLost == Spec => []SettledPeersMirrorExports
<1>1. Init => TypeOK /\ FreshInv
  BY InitType, InitFresh
<1>2. TypeOK /\ FreshInv /\ [Next]_vars => (TypeOK /\ FreshInv)'
  BY NextType, NextFresh
<1> QED
  BY <1>1, <1>2, FreshImpliesMirror, PTL DEF Spec

=============================================================================
