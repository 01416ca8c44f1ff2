------------------------------ MODULE AdsServer ------------------------------
(***************************************************************************)
(* The discovery server of the exporting controller and the gRPC streams   *)
(* of its subscribers.                                                     *)
(*                                                                         *)
(* Two kinds of goroutines send responses on a stream: recvFromStream, one *)
(* per stream, answers the initial request with a snapshot; the loop of    *)
(* Server.Run broadcasts every push request. Both generate the resources   *)
(* first, one selector after the other, and send them later, and nothing   *)
(* orders one against the other.                                           *)
(*                                                                         *)
(* A stream is named by a connection number, which also stands for its     *)
(* subscriber id. The actions take the services of the lister as a         *)
(* parameter and constrain the variables of this module only.              *)
(***************************************************************************)
EXTENDS ExportRules

CONSTANTS
    MaxConns,   \* bound: how many streams are opened in a behaviour
    Window      \* responses that a stream holds before Send blocks (HTTP/2
                \* flow control)

ASSUME ServerAssumption ==
    /\ MaxConns \in Nat
    /\ Window \in Nat \ {0}

Conns == 1..MaxConns

VARIABLES
    subscribers,    \* the keys of adsServer.subscribers
    loopPc,         \* the goroutine of Server.Run
    loopResources,  \* the resources that push is listing or broadcasting
    loopListed,     \* how many selectors push has listed so far
    todo,           \* the subscribers that Range has not visited yet
    recvPc,         \* the goroutines of recvFromStream
    snapshot,       \* the resources that recvFromStream is listing or sending
    listed,         \* how many selectors recvFromStream has listed so far
    open,           \* whether the stream is alive (external)
    request,        \* whether a DiscoveryRequest is on its way (external)
    responses,      \* the responses on their way to the client (external)
    heldStale,      \* history: the held snapshot is empty because generating
                    \* it failed, a different push has overtaken it, or it
                    \* has missed a Service
    lastStale,      \* history: the last response on the stream was such a one
    lostPush        \* history: generating for the last push request failed or
                    \* has missed a Service

loopVars == <<subscribers, loopPc, loopResources, loopListed, todo, lostPush>>
streamVars == <<open, request, responses>>
recvVars == <<recvPc, snapshot, listed, heldStale, lastStale>>
serverVars == <<loopVars, streamVars, recvVars>>

ServerTypeOK ==
    /\ subscribers \in SUBSET Conns
    /\ loopPc \in {"select", "generate", "range", "closing", "stopped"}
    /\ loopResources \in SUBSET FederatedService
    /\ loopListed \in Nat
    /\ todo \in SUBSET Conns
    /\ recvPc \in [Conns -> {"none", "new", "recv", "list", "send", "done"}]
    /\ snapshot \in [Conns -> SUBSET FederatedService]
    /\ listed \in [Conns -> Nat]
    /\ open \in [Conns -> BOOLEAN]
    /\ request \in [Conns -> BOOLEAN]
    /\ responses \in [Conns -> Seq(SUBSET FederatedService)]
    /\ heldStale \in [Conns -> BOOLEAN]
    /\ lastStale \in [Conns -> BOOLEAN]
    /\ lostPush \in BOOLEAN

ServerInit ==
    /\ subscribers = {}
    /\ loopPc = "select"
    /\ loopResources = {}
    /\ loopListed = 0
    /\ todo = {}
    /\ recvPc = [i \in Conns |-> "none"]
    /\ snapshot = [i \in Conns |-> {}]
    /\ listed = [i \in Conns |-> 0]
    /\ open = [i \in Conns |-> FALSE]
    /\ request = [i \in Conns |-> FALSE]
    /\ responses = [i \in Conns |-> <<>>]
    /\ heldStale = [i \in Conns |-> FALSE]
    /\ lastStale = [i \in Conns |-> FALSE]
    /\ lostPush = FALSE

-----------------------------------------------------------------------------
(* One stream: StreamAggregatedResources and recvFromStream.               *)

\* gRPC has carried the new stream and its request to a listening server.
OpenStream(i) ==
    /\ loopPc # "stopped"
    /\ open' = [open EXCEPT ![i] = TRUE]
    /\ request' = [request EXCEPT ![i] = TRUE]
    /\ recvPc' = [recvPc EXCEPT ![i] = "new"]
    /\ UNCHANGED <<loopVars, responses, snapshot, listed, heldStale, lastStale>>

\* The subscriber is stored before its requests are read. A Range that is under
\* way may or may not visit a key that is stored meanwhile (sync.Map).
StreamAggregatedResources(i) ==
    /\ recvPc[i] = "new"
    /\ subscribers' = subscribers \cup {i}
    /\ recvPc' = [recvPc EXCEPT ![i] = "recv"]
    /\ todo' \in IF loopPc = "range" THEN {todo, todo \cup {i}} ELSE {todo}
    /\ UNCHANGED <<loopPc, loopResources, loopListed, lostPush, streamVars,
                   snapshot, listed, heldStale, lastStale>>

\* recvFromStream holds the resources of the first n selectors, and goes on to
\* the next one or to the send.
HoldSnapshot(i, resources, n, stale) ==
    /\ snapshot' = [snapshot EXCEPT ![i] = resources]
    /\ heldStale' = [heldStale EXCEPT ![i] = stale]
    /\ IF n < Len(GetLabelSelectors)
       THEN /\ recvPc' = [recvPc EXCEPT ![i] = "list"]
            /\ listed' = [listed EXCEPT ![i] = n]
       ELSE /\ recvPc' = [recvPc EXCEPT ![i] = "send"]
            /\ listed' = [listed EXCEPT ![i] = 0]
    /\ UNCHANGED <<loopVars, open, responses, lastStale>>

\* A client requests with an empty VersionInfo only, so that every request is
\* answered.
RecvRequest(i, services) ==
    /\ recvPc[i] = "recv"
    /\ open[i] /\ request[i]
    /\ request' = [request EXCEPT ![i] = FALSE]
    /\ HoldSnapshot(i, ListExports(services, 1), 1, FALSE)

ListNextSelector(i, services) ==
    /\ recvPc[i] = "list"
    /\ HoldSnapshot(i, snapshot[i] \cup ListExports(services, listed[i] + 1),
                    listed[i] + 1, heldStale[i])
    /\ UNCHANGED request

\* The error is logged and the snapshot, now empty, is sent all the same.
RecvRequestFails(i) ==
    /\ \/ recvPc[i] = "recv" /\ open[i] /\ request[i]
       \/ recvPc[i] = "list"
    /\ request' = [request EXCEPT ![i] = FALSE]
    /\ HoldSnapshot(i, {}, Len(GetLabelSelectors), TRUE)

\* The resources go out of scope and the goroutine waits in Recv again.
NextRequest(i) ==
    /\ recvPc' = [recvPc EXCEPT ![i] = "recv"]
    /\ snapshot' = [snapshot EXCEPT ![i] = {}]
    /\ heldStale' = [heldStale EXCEPT ![i] = FALSE]
    /\ UNCHANGED listed

\* sendToStream blocks while the flow control window is full.
SendSnapshot(i) ==
    /\ recvPc[i] = "send"
    /\ open[i]
    /\ Len(responses[i]) < Window
    /\ responses' = [responses EXCEPT ![i] = Append(@, snapshot[i])]
    /\ lastStale' = [lastStale EXCEPT ![i] = heldStale[i]]
    /\ NextRequest(i)
    /\ UNCHANGED <<loopVars, open, request>>

\* Sending on a broken stream: the error is logged.
SendSnapshotFails(i) ==
    /\ recvPc[i] = "send"
    /\ ~open[i]
    /\ NextRequest(i)
    /\ UNCHANGED <<loopVars, streamVars, lastStale>>

\* downstream.Recv fails and the goroutine ends. The subscriber stays stored.
RecvError(i) ==
    /\ recvPc[i] = "recv"
    /\ ~open[i]
    /\ recvPc' = [recvPc EXCEPT ![i] = "done"]
    /\ UNCHANGED <<loopVars, streamVars, snapshot, listed, heldStale, lastStale>>

-----------------------------------------------------------------------------
(* The loop of Server.Run, and push.                                       *)

\* A request from fdsPushRequests; without subscribers the push is skipped.
ReceivePush ==
    /\ loopPc = "select"
    /\ IF subscribers = {}
       THEN UNCHANGED <<loopPc, loopResources, loopListed, lostPush>>
       ELSE /\ loopPc' = "generate"
            /\ loopResources' = {}
            /\ loopListed' = 0
            /\ lostPush' = FALSE
    /\ UNCHANGED <<subscribers, todo, streamVars, recvVars>>

\* The next selector is listed; after the last one the broadcast begins.
GeneratePush(services) ==
    /\ loopPc = "generate"
    /\ loopResources' = loopResources \cup ListExports(services, loopListed + 1)
    /\ IF loopListed + 1 < Len(GetLabelSelectors)
       THEN /\ loopListed' = loopListed + 1
            /\ UNCHANGED <<loopPc, todo>>
       ELSE /\ loopListed' = 0
            /\ loopPc' = "range"
            /\ todo' = subscribers
    /\ UNCHANGED <<subscribers, lostPush, streamVars, recvVars>>

\* Run logs the error of push and waits for the next request.
GeneratePushFails ==
    /\ loopPc = "generate"
    /\ loopPc' = "select"
    /\ loopResources' = {}
    /\ loopListed' = 0
    /\ lostPush' = TRUE
    /\ UNCHANGED <<subscribers, todo, streamVars, recvVars>>

\* Range goes on to the next subscriber, or ends.
VisitSubscriber(i) ==
    /\ loopPc = "range"
    /\ i \in todo
    /\ todo' = todo \ {i}
    /\ IF todo = {i}
       THEN loopPc' = "select" /\ loopResources' = {}
       ELSE UNCHANGED <<loopPc, loopResources>>
    /\ UNCHANGED <<loopListed, lostPush>>

\* stream.Send blocks while the flow control window is full. The push overtakes a
\* snapshot that is waiting to be sent or is only partly listed.
PushSend(i) ==
    /\ VisitSubscriber(i)
    /\ open[i]
    /\ Len(responses[i]) < Window
    /\ responses' = [responses EXCEPT ![i] = Append(@, loopResources)]
    /\ heldStale' = [heldStale EXCEPT ![i] =
                       \/ @
                       \/ recvPc[i] = "send" /\ snapshot[i] # loopResources
                       \/ recvPc[i] = "list"]
    /\ lastStale' = [lastStale EXCEPT ![i] = FALSE]
    /\ UNCHANGED <<subscribers, open, request, recvPc, snapshot, listed>>

\* Sending to a broken stream. gRPC reports it, and the subscriber is closed and
\* deleted, or has not noticed yet.
PushSendFails(i) ==
    /\ VisitSubscriber(i)
    /\ ~open[i]
    /\ subscribers' \in {subscribers \ {i}, subscribers}
    /\ UNCHANGED <<streamVars, recvVars>>

\* Serve has failed and cancelled the context of Run: closeSubscribers ends the
\* streams; what was already sent on them still arrives.
CloseSubscribers ==
    /\ loopPc = "select"
    /\ loopPc' = "closing"
    /\ subscribers' = {}
    /\ open' = [i \in Conns |-> open[i] /\ i \notin subscribers]
    /\ request' = [i \in Conns |-> request[i] /\ i \notin subscribers]
    /\ UNCHANGED <<loopResources, loopListed, todo, lostPush, responses, recvVars>>

\* GracefulStop: no new stream from here on. Run returns nil once the streams
\* that are left have ended, and nothing takes push requests any more.
GracefulStop ==
    /\ loopPc = "closing"
    /\ loopPc' = "stopped"
    /\ UNCHANGED <<subscribers, loopResources, loopListed, todo, lostPush,
                   streamVars, recvVars>>

-----------------------------------------------------------------------------
(* Faults.                                                                 *)

\* The connection of a stream breaks.
BreakStream(i) ==
    /\ open[i]
    /\ open' = [open EXCEPT ![i] = FALSE]
    /\ request' = [request EXCEPT ![i] = FALSE]
    /\ UNCHANGED <<loopVars, responses, recvVars>>

\* The last response in flight on a broken stream is lost.
LoseResponse(i) ==
    /\ ~open[i]
    /\ responses[i] # <<>>
    /\ responses' = [responses EXCEPT ![i] = SubSeq(@, 1, Len(@) - 1)]
    /\ UNCHANGED <<loopVars, open, request, recvVars>>

\* A new server process: every stream of the old one is broken.
ServerRestart ==
    /\ subscribers' = {}
    /\ loopPc' = "select"
    /\ loopResources' = {}
    /\ loopListed' = 0
    /\ todo' = {}
    /\ recvPc' = [i \in Conns |-> IF recvPc[i] = "none" THEN "none" ELSE "done"]
    /\ open' = [i \in Conns |-> FALSE]
    /\ request' = [i \in Conns |-> FALSE]
    /\ lostPush' = FALSE
    /\ snapshot' = [i \in Conns |-> {}]
    /\ listed' = [i \in Conns |-> 0]
    /\ heldStale' = [i \in Conns |-> FALSE]
    /\ UNCHANGED <<responses, lastStale>>

=============================================================================
