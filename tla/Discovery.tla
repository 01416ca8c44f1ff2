------------------------------ MODULE Discovery ------------------------------
(***************************************************************************)
(* The discovery protocol: one exporting controller (ServiceController and *)
(* AdsServer) and the peers that import from it (AdsClient), over gRPC     *)
(* streams that break, with processes that restart and calls that fail.    *)
(***************************************************************************)
EXTENDS ServiceController, AdsServer, AdsClient

CONSTANTS
    Faults,       \* the kinds of faults that may happen
    MaxFaults,    \* bound: how many of them happen in a behaviour
    MaxChanges    \* bound: how many times users change a Service

FaultKinds ==
    {"break", "connect", "unmarshal", "list", "serve", "restart", "peerRestart"}

ASSUME DiscoveryAssumption ==
    /\ Faults \subseteq FaultKinds
    /\ MaxFaults \in Nat
    /\ MaxChanges \in Nat

VARIABLES
    conns,     \* how many streams have been opened
    changes,   \* how many changes of Services have happened
    faults,    \* how many faults have happened
    stable     \* history: the Services exported in every state so far, and by
               \* the same selectors; none after a failed list

boundVars == <<conns, changes, faults, stable>>
vars == <<controllerVars, serverVars, clientVars, boundVars>>

TypeOK ==
    /\ ControllerTypeOK
    /\ ServerTypeOK
    /\ ClientTypeOK
    /\ conns \in 0..MaxConns
    /\ changes \in 0..MaxChanges
    /\ faults \in 0..MaxFaults
    /\ stable \in SUBSET Services

Init ==
    /\ ControllerInit
    /\ ServerInit
    /\ ClientInit
    /\ conns = 0
    /\ changes = 0
    /\ faults = 0
    /\ stable = Exported(cluster)

-----------------------------------------------------------------------------
Fault(kind) ==
    /\ kind \in Faults
    /\ faults < MaxFaults
    /\ faults' = faults + 1
    /\ stable' = IF kind = "list" THEN {} ELSE stable
    /\ UNCHANGED <<conns, changes>>

UserChanges(s, obj) ==
    /\ changes < MaxChanges
    /\ ChangeService(s, obj)
    /\ changes' = changes + 1
    /\ stable' = IF /\ NoService \notin {obj, cluster[s]}
                    /\ Selected(obj) = Selected(cluster[s])
                 THEN stable ELSE stable \ {s}
    /\ UNCHANGED <<serverVars, clientVars, conns, faults>>

\* Resources of the first n selectors miss Service s for good: it was to be listed
\* by a later selector, and an update, which is not pushed because the old object
\* was exported too, leaves it to the earlier ones.
Misses(s, resources, n) ==
    /\ NoService \notin {store[s], cluster[s]}
    /\ MatchExportRules(store[s]) /\ MatchExportRules(cluster[s])
    /\ s \notin Hosts(resources)
    /\ \A k \in Selected(cluster[s]) : k <= n

\* The informer catches up with a change.
InformerStep(s) ==
    /\ AddFunc(s) \/ UpdateFunc(s) \/ DeleteFunc(s)
    /\ heldStale' = [i \in Conns |->
          heldStale[i] \/ (recvPc[i] = "list" /\ Misses(s, snapshot[i], listed[i]))]
    /\ lostPush' = (\/ lostPush
                    \/ loopPc = "generate" /\ Misses(s, loopResources, loopListed))
    /\ UNCHANGED <<subscribers, loopPc, loopResources, loopListed, todo, streamVars,
                   recvPc, snapshot, listed, lastStale, clientVars, boundVars>>

\* The worker takes an event, or hands a request to the reconciler manager.
WorkerStep ==
    /\ ProcessNextItem \/ SendMcpPush
    /\ UNCHANGED <<serverVars, clientVars, boundVars>>

\* The worker hands a push request to the discovery server.
FdsPush ==
    /\ SendFdsPush
    /\ ReceivePush
    /\ UNCHANGED <<clientVars, boundVars>>

\* The goroutines of the server that serve one stream.
StreamStep(i) ==
    /\ \/ StreamAggregatedResources(i)
       \/ RecvRequest(i, store)
       \/ ListNextSelector(i, store)
       \/ SendSnapshot(i)
       \/ SendSnapshotFails(i)
       \/ RecvError(i)
    /\ UNCHANGED <<controllerVars, clientVars, boundVars>>

\* The loop of the server, once it has a push request.
LoopStep ==
    /\ \/ GeneratePush(store)
       \/ \E i \in Conns : PushSend(i) \/ PushSendFails(i)
       \/ GracefulStop
    /\ UNCHANGED <<controllerVars, clientVars, boundVars>>

Connect(c) ==
    /\ conns < MaxConns
    /\ conns' = conns + 1
    /\ Run(c, conns + 1)
    /\ OpenStream(conns + 1)
    /\ UNCHANGED <<controllerVars, changes, faults, stable>>

\* A server that has stopped refuses connections.
ConnectRefused(c) ==
    /\ loopPc = "stopped"
    /\ RunFails(c)
    /\ UNCHANGED <<controllerVars, serverVars, boundVars>>

Reconnect(c) ==
    /\ Restart(c)
    /\ UNCHANGED <<controllerVars, serverVars, boundVars>>

\* The client takes the next response from its stream.
TakeResponse(c) ==
    /\ stream[c] \in Conns
    /\ responses[stream[c]] # <<>>
    /\ responses' = [responses EXCEPT ![stream[c]] = Tail(@)]
    /\ UNCHANGED <<controllerVars, loopVars, recvVars, open, request>>

Receive(c) ==
    /\ TakeResponse(c)
    /\ Handle(c, Head(responses[stream[c]]))
    /\ UNCHANGED boundVars

\* The client has read what had arrived and sees that the stream has ended.
StreamEnds(c) ==
    /\ stream[c] \in Conns
    /\ ~open[stream[c]]
    /\ responses[stream[c]] = <<>>
    /\ RecvFails(c)
    /\ UNCHANGED <<controllerVars, serverVars, boundVars>>

ImportPush(c) ==
    /\ SendImportPush(c)
    /\ UNCHANGED <<controllerVars, serverVars, boundVars>>

-----------------------------------------------------------------------------
(* Faults of the environment.                                              *)

ConnectionBreaks(i) ==
    /\ Fault("break")
    /\ BreakStream(i)
    /\ UNCHANGED <<controllerVars, clientVars>>

ResponseLost(i) ==
    /\ LoseResponse(i)
    /\ UNCHANGED <<controllerVars, clientVars, boundVars>>

ConnectFails(c) ==
    /\ Fault("connect")
    /\ RunFails(c)
    /\ UNCHANGED <<controllerVars, serverVars>>

ReceiveMalformed(c) ==
    /\ Fault("unmarshal")
    /\ TakeResponse(c)
    /\ Head(responses[stream[c]]) # {}
    /\ HandleFails(c)

ListFails ==
    /\ Fault("list")
    /\ GeneratePushFails \/ \E i \in Conns : RecvRequestFails(i)
    /\ UNCHANGED <<controllerVars, clientVars>>

ServeFails ==
    /\ Fault("serve")
    /\ CloseSubscribers
    /\ UNCHANGED <<controllerVars, clientVars>>

\* The exporting process dies, for instance because DeleteFunc panics on the
\* tombstone of a missed delete, and is started again.
ExporterRestarts ==
    /\ Fault("restart")
    /\ ControllerRestart
    /\ ServerRestart
    /\ UNCHANGED clientVars

\* A peer's process is started again: its stream ends.
PeerRestarts(c) ==
    /\ Fault("peerRestart")
    /\ ClientRestart(c)
    /\ open' = [i \in Conns |-> open[i] /\ i # stream[c]]
    /\ request' = [i \in Conns |-> request[i] /\ i # stream[c]]
    /\ responses' = [i \in Conns |-> IF i = stream[c] THEN <<>> ELSE responses[i]]
    /\ UNCHANGED <<controllerVars, loopVars, recvVars>>

EnvironmentStep ==
    \/ \E s \in Services, obj \in Object \cup {NoService} : UserChanges(s, obj)
    \/ \E i \in Conns : ConnectionBreaks(i) \/ ResponseLost(i)
    \/ \E c \in Clients :
          ConnectFails(c) \/ ReceiveMalformed(c) \/ PeerRestarts(c)
    \/ ListFails
    \/ ServeFails
    \/ ExporterRestarts

ClientStep(c) ==
    \/ Connect(c)
    \/ ConnectRefused(c)
    \/ Reconnect(c)
    \/ Receive(c)
    \/ StreamEnds(c)
    \/ ImportPush(c)

Next ==
    \/ \E s \in Services : InformerStep(s)
    \/ WorkerStep
    \/ FdsPush
    \/ \E i \in Conns : StreamStep(i)
    \/ LoopStep
    \/ \E c \in Clients : ClientStep(c)
    \/ EnvironmentStep

Spec == Init /\ [][Next]_vars

\* Every goroutine that can take a step takes one in the end. Users and faults
\* are under no obligation.
Fairness ==
    /\ \A s \in Services : WF_vars(InformerStep(s))
    /\ WF_vars(WorkerStep)
    /\ WF_vars(FdsPush)
    /\ \A i \in Conns : WF_vars(StreamStep(i))
    /\ WF_vars(LoopStep)
    /\ \A c \in Clients : WF_vars(ClientStep(c))

FairSpec == Spec /\ Fairness

-----------------------------------------------------------------------------
(* Properties.                                                             *)

\* An export change is still on its way to the discovery server.
Unpushed ==
    \/ \E k \in DOMAIN queue : Triggers(queue[k])
    \/ \E k \in DOMAIN pushes : pushes[k] = "ExportedService"

PushPending == Unpushed \/ loopPc = "generate"

\* The informer has caught up, no push is pending or being sent, and client c
\* has read every response of its live stream.
Settled(c) ==
    LET i == stream[c] IN
    /\ store = cluster
    /\ ~PushPending
    /\ i \in Conns
    /\ open[i]
    /\ ~request[i]
    /\ recvPc[i] = "recv"
    /\ ~(loopPc = "range" /\ i \in todo)
    /\ responses[i] = <<>>

\* The ways in which the code loses an update for good: a snapshot that was
\* overtaken by a push, a snapshot or a push that could not be generated or that
\* missed a Service between the lists of two selectors, a response that could not
\* be read.
UpdateLost(c) == lastStale[stream[c]] \/ lostPush \/ dropped[c]

\* The peer knows exactly the services that the cluster exports.
Mirrors(c) == Hosts(imported[c]) = Exported(cluster)

\* Once a peer is settled, its ImportedServiceStore holds the services that the
\* exporter exports, unless one of the losses of UpdateLost happened on the
\* way: no interleaving of service events, pushes, subscriptions, broken
\* streams and restarts loses an update in any other way.
SettledPeersMirrorExports ==
    \A c \in Clients : Settled(c) /\ ~UpdateLost(c) => Mirrors(c)

\* As long as no list fails, a service that was exported all along, by the same
\* selectors, never disappears from a peer that has imported from this exporter,
\* whatever restarts and reconnects happen: the server answers only after the
\* informer has synced, every selector is listed before anything is sent, and the
\* store is kept while the stream is down.
StableExportsStayImported ==
    \A c \in Clients :
        received[c] => stable \subseteq Hosts(imported[c])

\* Faults end, users stop, and then every peer becomes settled for ever and
\* mirrors the exports unless UpdateLost: clients always reconnect, the push
\* loop never hangs on a slow or dead subscriber, and no two goroutines wait for
\* each other on the unbuffered channels.
PeersConverge ==
    <>[](\A c \in Clients : Settled(c) /\ (UpdateLost(c) \/ Mirrors(c)))

-----------------------------------------------------------------------------
(* What comments of the code say and the code does not do.                 *)

\* "From returns copy of all services exported from given remote peer", whenever
\* everything has been generated, delivered and read. A snapshot that a push
\* overtakes between generateResources and sendToStream is stored last.
FromReturnsExports ==
    \A c \in Clients :
        Settled(c) /\ ~lostPush /\ ~dropped[c] => Mirrors(c)

\* "When a controller receives an update from Kubernetes about a Service matching
\* export rules, it is exposed on a federation ingress gateway": the worker gets
\* to every event in the end. After Serve has failed, Run returns nil, the
\* process lives on and the worker waits on fdsPushRequests for ever.
EventsAreProcessed == queue # <<>> ~> queue = <<>>

=============================================================================
