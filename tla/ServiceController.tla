-------------------------- MODULE ServiceController --------------------------
(***************************************************************************)
(* The exporting side of a federation controller: the informer for         *)
(* Services, the work queue of Controller and ServiceExportEventHandler,   *)
(* which turns an event on an exported Service into push requests.         *)
(*                                                                         *)
(* The worker goroutine sends its push requests on unbuffered channels, so *)
(* a send is a step it takes together with the receiver: SendMcpPush with  *)
(* the reconciler manager, SendFdsPush with the discovery server. Actions  *)
(* of this module constrain its variables only.                            *)
(***************************************************************************)
EXTENDS ExportRules

VARIABLES
    cluster,   \* the Service objects of the API server (external)
    store,     \* the informer's store, which the ServiceLister reads
    queue,     \* events that the worker has not taken yet
    pushes     \* type URLs of the push requests that the worker, in the middle
               \* of triggerXDSPush, has not sent yet

controllerVars == <<cluster, store, queue, pushes>>

Event ==
    [eventType : {"create", "update", "delete"}, key : Services,
     obj : Object, oldObj : Object \cup {NoService}]

TypeUrls == {"Gateway", "EnvoyFilter", "Route", "ExportedService"}

ServiceMap == [Services -> Object \cup {NoService}]

ControllerTypeOK ==
    /\ cluster \in ServiceMap
    /\ store \in ServiceMap
    /\ queue \in Seq(Event)
    /\ pushes \in Seq(TypeUrls)

-----------------------------------------------------------------------------
\* The events of the initial LIST, one per Service, in the order in which the
\* informer happens to deliver them.
InitialEvents(services) ==
    LET events == {[eventType |-> "create", key |-> s, obj |-> services[s],
                    oldObj |-> NoService] :
                      s \in {t \in Services : services[t] # NoService}}
    IN  UNION {Bijection(1..n, events) : n \in 0..Cardinality(Services)}

\* RunAndWait returns once the store holds a full LIST and its events are
\* queued; nothing reads the store before that.
ControllerInit ==
    /\ cluster \in ServiceMap
    /\ store = cluster
    /\ queue \in InitialEvents(cluster)
    /\ pushes = <<>>

\* The informer is started while the discovery server already answers.
ControllerRestartUnsynced ==
    /\ store' = [s \in Services |-> NoService]
    /\ queue' = <<>>
    /\ pushes' = <<>>
    /\ UNCHANGED cluster

\* A new process: what was in memory is gone and the informer lists again.
ControllerRestart ==
    /\ store' = cluster
    /\ queue' \in InitialEvents(cluster)
    /\ pushes' = <<>>
    /\ UNCHANGED cluster

\* The user creates, changes or deletes a Service.
ChangeService(s, obj) ==
    /\ obj # cluster[s]
    /\ cluster' = [cluster EXCEPT ![s] = obj]
    /\ UNCHANGED <<store, queue, pushes>>

-----------------------------------------------------------------------------
\* The informer applies a change of Service s to its store and hands it to the
\* handler funcs, which queue an event.
Enqueue(s, type, obj, oldObj) ==
    /\ store' = [store EXCEPT ![s] = cluster[s]]
    /\ queue' = Append(queue, [eventType |-> type, key |-> s,
                               obj |-> obj, oldObj |-> oldObj])
    /\ UNCHANGED <<cluster, pushes>>

AddFunc(s) ==
    /\ store[s] = NoService
    /\ cluster[s] # NoService
    /\ Enqueue(s, "create", cluster[s], NoService)

UpdateFunc(s) ==
    /\ store[s] # NoService
    /\ cluster[s] \notin {store[s], NoService}
    /\ Enqueue(s, "update", cluster[s], store[s])

\* The event carries the object that the API server no longer has.
DeleteFuncWithoutObject(s) ==
    /\ store[s] # NoService
    /\ cluster[s] = NoService
    /\ Enqueue(s, "delete", cluster[s], NoService)

DeleteFunc(s) ==
    /\ store[s] # NoService
    /\ cluster[s] = NoService
    /\ Enqueue(s, "delete", store[s], NoService)

-----------------------------------------------------------------------------
\* An update is ignored whenever the new object matches.
TriggerOnUnmatchOnly(services) ==
    IF Len(services) = 2
    THEN MatchExportRules(services[1]) /\ ~MatchExportRules(services[2])
    ELSE MatchExportRules(services[1])

\* Whether the services of an event, old object first, make the handler push.
TriggerXDSPushIfMatchRules(services) ==
    IF Len(services) = 2
    THEN MatchExportRules(services[1]) # MatchExportRules(services[2])
    ELSE MatchExportRules(services[1])

\* processItem, ObjectCreated, ObjectUpdated and ObjectDeleted.
Triggers(event) ==
    TriggerXDSPushIfMatchRules(
        IF event.eventType = "update" THEN <<event.oldObj, event.obj>>
                                      ELSE <<event.obj>>)

\* The push requests of triggerXDSPush, in the order in which they are sent.
TriggerXDSPush == <<"Gateway", "EnvoyFilter", "Route", "ExportedService">>

\* processItem never fails, so that processNextItem never requeues an event.
ProcessNextItem ==
    /\ pushes = <<>>
    /\ queue # <<>>
    /\ queue' = Tail(queue)
    /\ pushes' = IF Triggers(Head(queue)) THEN TriggerXDSPush ELSE <<>>
    /\ UNCHANGED <<cluster, store>>

SendPush ==
    /\ pushes' = Tail(pushes)
    /\ UNCHANGED <<cluster, store, queue>>

\* mcpPushRequests <- ...: the local reconciler manager takes the request.
SendMcpPush ==
    /\ pushes # <<>>
    /\ Head(pushes) # "ExportedService"
    /\ SendPush

\* fdsPushRequests <- ...: the discovery server takes the request.
SendFdsPush ==
    /\ pushes # <<>>
    /\ Head(pushes) = "ExportedService"
    /\ SendPush

=============================================================================
