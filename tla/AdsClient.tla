------------------------------ MODULE AdsClient ------------------------------
(***************************************************************************)
(* The importing side: in every peer an ADSC client with its reconnect     *)
(* timer, ImportedServiceHandler and the peer's entry for this remote in   *)
(* ImportedServiceStore.                                                   *)
(*                                                                         *)
(* A client is one thread of control at a time: Run or Restart, then       *)
(* handleRecv, then the timer that calls Restart. Actions of this module   *)
(* constrain its variables only; the stream they use is a variable of      *)
(* AdsServer and its contents are passed as parameters.                    *)
(***************************************************************************)
EXTENDS ExportRules

CONSTANTS
    Clients    \* the peers that import from the exporting controller

VARIABLES
    phase,      \* what the client is doing
    stream,     \* ADSC.stream, as a connection number; 0 is none
    imported,   \* what ImportedServiceStore.From(remote) returns
    received,   \* history: the store has been updated in this process
    sends,      \* push requests that Handle has not sent yet
    dropped     \* history: the last response could not be unmarshalled

clientVars == <<phase, stream, imported, received, sends, dropped>>

ImportTypeUrls == {"ServiceEntry", "WorkloadEntry", "DestinationRule"}

ClientTypeOK ==
    /\ phase \in [Clients -> {"run", "recv", "push", "timer"}]
    /\ stream \in [Clients -> Nat]
    /\ imported \in [Clients -> SUBSET FederatedService]
    /\ received \in [Clients -> BOOLEAN]
    /\ sends \in [Clients -> Seq(ImportTypeUrls)]
    /\ dropped \in [Clients -> BOOLEAN]

ClientInit ==
    /\ phase = [c \in Clients |-> "run"]
    /\ stream = [c \in Clients |-> 0]
    /\ imported = [c \in Clients |-> {}]
    /\ received = [c \in Clients |-> FALSE]
    /\ sends = [c \in Clients |-> <<>>]
    /\ dropped = [c \in Clients |-> FALSE]

\* Run opens stream i, requests the exported services on it and starts
\* handleRecv.
Run(c, i) ==
    /\ phase[c] = "run"
    /\ stream' = [stream EXCEPT ![c] = i]
    /\ phase' = [phase EXCEPT ![c] = "recv"]
    /\ UNCHANGED <<imported, received, sends, dropped>>

\* The stream cannot be opened: try again after ReconnectDelay.
RunFails(c) ==
    /\ phase[c] = "run"
    /\ phase' = [phase EXCEPT ![c] = "timer"]
    /\ UNCHANGED <<stream, imported, received, sends, dropped>>

\* A client whose first Run failed is not started again.
RestartIfConnectedBefore(c) ==
    /\ phase[c] = "timer"
    /\ stream[c] # 0
    /\ phase' = [phase EXCEPT ![c] = "run"]
    /\ UNCHANGED <<stream, imported, received, sends, dropped>>

\* The timer of time.AfterFunc fires.
Restart(c) ==
    /\ phase[c] = "timer"
    /\ phase' = [phase EXCEPT ![c] = "run"]
    /\ UNCHANGED <<stream, imported, received, sends, dropped>>

\* handleRecv gets an error from the stream.
RecvFails(c) ==
    /\ phase[c] = "recv"
    /\ phase' = [phase EXCEPT ![c] = "timer"]
    /\ UNCHANGED <<stream, imported, received, sends, dropped>>

\* ImportedServiceStore.Update
Update(c, resources) ==
    /\ imported' = [imported EXCEPT ![c] = resources]
    /\ received' = [received EXCEPT ![c] = TRUE]

\* handleRecv receives a response and Handle stores it; three push requests for
\* the reconciler manager follow before the next Recv.
Handle(c, resources) ==
    /\ phase[c] = "recv"
    /\ Update(c, resources)
    /\ phase' = [phase EXCEPT ![c] = "push"]
    /\ sends' = [sends EXCEPT ![c] =
                     <<"ServiceEntry", "WorkloadEntry", "DestinationRule">>]
    /\ dropped' = [dropped EXCEPT ![c] = FALSE]
    /\ UNCHANGED stream

\* A resource cannot be unmarshalled: the response is dropped, the error logged.
HandleFails(c) ==
    /\ phase[c] = "recv"
    /\ dropped' = [dropped EXCEPT ![c] = TRUE]
    /\ UNCHANGED <<phase, stream, imported, received, sends>>

\* pushRequests <- ...: the peer's reconciler manager takes a request.
SendImportPush(c) ==
    /\ phase[c] = "push"
    /\ sends[c] # <<>>
    /\ sends' = [sends EXCEPT ![c] = Tail(@)]
    /\ phase' = [phase EXCEPT ![c] = IF Len(sends[c]) = 1 THEN "recv" ELSE "push"]
    /\ UNCHANGED <<stream, imported, received, dropped>>

\* A new process in the peer: its store is empty.
ClientRestart(c) ==
    /\ phase' = [phase EXCEPT ![c] = "run"]
    /\ stream' = [stream EXCEPT ![c] = 0]
    /\ imported' = [imported EXCEPT ![c] = {}]
    /\ received' = [received EXCEPT ![c] = FALSE]
    /\ sends' = [sends EXCEPT ![c] = <<>>]
    /\ dropped' = [dropped EXCEPT ![c] = FALSE]

=============================================================================
