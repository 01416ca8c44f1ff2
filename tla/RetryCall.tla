------------------------------ MODULE RetryCall ------------------------------
(***************************************************************************)
(* retryCall: read the object from the manager's cache, mutate the copy,   *)
(* write it back, and start over when the API server answers that the copy *)
(* is not the latest version.                                              *)
(*                                                                         *)
(* The API server's versions of the object are the elements of history; an *)
(* index of history is a resourceVersion. The cache of a worker is the     *)
(* version that its watch has brought so far. Actions of this module       *)
(* constrain its variables only.                                           *)
(***************************************************************************)
EXTENDS KubeObject, Sequences

CONSTANTS
    Workers,      \* controller processes, each with one reconciling goroutine
    MaxTries,     \* retry.DefaultBackoff.Steps
    NoMutation    \* the mutation of a worker that is not in a call

ASSUME RetryAssumption ==
    /\ MaxTries \in Nat \ {0}
    /\ NoMutation \notin Mutation

VARIABLES
    history,    \* the versions of the object in the API server (external)
    seen,       \* the version that is in the cache of a worker (external)
    retryPc,    \* where a worker is in retryCall
    mutation,   \* the mutate function of the call
    current,    \* the copy that is about to be written
    base,       \* the resourceVersion of current
    tries,      \* how often the call has been answered with a conflict
    answer      \* the error that the last call returned

apiVars == <<history, seen>>
callVars == <<retryPc, mutation, current, base, tries, answer>>

Latest == history[Len(history)]
Cached(w) == history[seen[w]]

RetryTypeOK ==
    /\ history \in Seq(Object \cup {NoObject})
    /\ history # <<>>
    /\ seen \in [Workers -> 1..Len(history)]
    /\ retryPc \in [Workers -> {"none", "get", "update", "return"}]
    /\ mutation \in [Workers -> Mutation \cup {NoMutation}]
    /\ current \in [Workers -> Object \cup {NoObject}]
    /\ base \in [Workers -> Nat]
    /\ tries \in [Workers -> 0..MaxTries - 1]
    /\ answer \in [Workers -> {"none", "ok", "error"}]

RetryInit ==
    /\ history = <<NoObject>>
    /\ seen = [w \in Workers |-> 1]
    /\ retryPc = [w \in Workers |-> "none"]
    /\ mutation = [w \in Workers |-> NoMutation]
    /\ current = [w \in Workers |-> NoObject]
    /\ base = [w \in Workers |-> 0]
    /\ tries = [w \in Workers |-> 0]
    /\ answer = [w \in Workers |-> "none"]

\* The API server writes o, as a new version unless nothing changes.
Write(o) == history' = IF o = Latest THEN history ELSE Append(history, o)

-----------------------------------------------------------------------------
\* RetryUpdate or RetryStatusUpdate is called.
StartCall(w, m) ==
    /\ retryPc[w] = "none"
    /\ retryPc' = [retryPc EXCEPT ![w] = "get"]
    /\ mutation' = [mutation EXCEPT ![w] = m]
    /\ UNCHANGED <<current, base, tries, answer>>

\* The call is over; its local variables are gone.
Return(w, a, pc) ==
    /\ retryPc' = [retryPc EXCEPT ![w] = pc]
    /\ answer' = [answer EXCEPT ![w] = a]
    /\ mutation' = [mutation EXCEPT ![w] = NoMutation]
    /\ current' = [current EXCEPT ![w] = NoObject]
    /\ base' = [base EXCEPT ![w] = 0]
    /\ tries' = [tries EXCEPT ![w] = 0]

\* cli.Get reads the cache; mutate changes the copy.
Get(w) ==
    /\ retryPc[w] = "get"
    /\ Cached(w) # NoObject
    /\ current' = [current EXCEPT ![w] = Mutate(mutation[w], Cached(w))]
    /\ base' = [base EXCEPT ![w] = seen[w]]
    /\ retryPc' = [retryPc EXCEPT ![w] = "update"]
    /\ UNCHANGED <<apiVars, mutation, tries, answer>>

\* The error of Get is no conflict and ends the call.
GetNotFound(w) ==
    /\ retryPc[w] = "get"
    /\ Cached(w) = NoObject
    /\ Return(w, "error", "return")
    /\ UNCHANGED apiVars

\* What updateFn writes: cli.Status().Update the status, cli.Update the rest.
Written(w) ==
    IF mutation[w].op = "conditions"
    THEN [Latest EXCEPT !.conditions = current[w].conditions]
    ELSE [Respec(Latest, current[w].spec) EXCEPT !.finalizers = current[w].finalizers]

\* No finalizer may be added to an object that is marked for deletion.
Forbidden(w) ==
    Latest.deleting /\ ~(Written(w).finalizers \subseteq Latest.finalizers)

\* The API server accepts the write. The response may get lost, which the call
\* takes for an error that is no conflict.
Accept(w, a) ==
    /\ retryPc[w] = "update"
    /\ base[w] = Len(history)
    /\ ~Forbidden(w)
    /\ Write(Stored(Written(w)))
    /\ Return(w, a, "return")
    /\ UNCHANGED seen

UpdateSucceeds(w) == Accept(w, "ok")
ResponseLost(w) == Accept(w, "error")

\* A mutant: no limit to the tries.
UpdateConflictsForever(w) ==
    /\ retryPc[w] = "update"
    /\ base[w] # Len(history)
    /\ retryPc' = [retryPc EXCEPT ![w] = "get"]
    /\ tries' = [tries EXCEPT ![w] = @ + 1]
    /\ current' = [current EXCEPT ![w] = NoObject]
    /\ base' = [base EXCEPT ![w] = 0]
    /\ UNCHANGED <<apiVars, mutation, answer>>

\* A mutant: a conflict ends the call as if all were well.
UpdateConflictsSilently(w) ==
    /\ retryPc[w] = "update"
    /\ base[w] # Len(history)
    /\ Return(w, "ok", "return")
    /\ UNCHANGED apiVars

\* The object has a newer version, or is gone, so that the UID of the copy does not
\* match: once more, from Get, up to MaxTries times.
UpdateConflicts(w) ==
    /\ retryPc[w] = "update"
    /\ base[w] # Len(history)
    /\ IF tries[w] + 1 = MaxTries
       THEN Return(w, "error", "return")
       ELSE /\ retryPc' = [retryPc EXCEPT ![w] = "get"]
            /\ tries' = [tries EXCEPT ![w] = @ + 1]
            /\ current' = [current EXCEPT ![w] = NoObject]
            /\ base' = [base EXCEPT ![w] = 0]
            /\ UNCHANGED <<mutation, answer>>
    /\ UNCHANGED apiVars

\* The change is forbidden.
UpdateRejected(w) ==
    /\ retryPc[w] = "update"
    /\ base[w] = Len(history)
    /\ Forbidden(w)
    /\ Return(w, "error", "return")
    /\ UNCHANGED apiVars

\* The API server cannot be reached.
CallFails(w) ==
    /\ retryPc[w] = "update"
    /\ Return(w, "error", "return")
    /\ UNCHANGED apiVars

\* The caller goes on.
Resume(w) ==
    /\ retryPc[w] = "return"
    /\ retryPc' = [retryPc EXCEPT ![w] = "none"]
    /\ UNCHANGED <<apiVars, mutation, current, base, tries, answer>>

\* The process ends, in a call or not, and a new one lists the object.
WorkerRestarts(w) ==
    /\ Return(w, IF retryPc[w] \in {"get", "update"} THEN "error" ELSE answer[w],
              "none")
    /\ seen' = [seen EXCEPT ![w] = Len(history)]
    /\ UNCHANGED history

=============================================================================
