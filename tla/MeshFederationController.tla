---------------------- MODULE MeshFederationController ----------------------
(***************************************************************************)
(* The MeshFederation controller and the finalizer handler, on one object, *)
(* among users and other controllers that change the same object.          *)
(*                                                                         *)
(* With useFinalizer the reconcile loop is the one that the comment of     *)
(* finalizer.Handler documents: Finalize and Add come before the main      *)
(* logic. Without it, it is the loop that meshfederation.Reconciler has    *)
(* today. The work queue of controller-runtime holds a key at most once.   *)
(***************************************************************************)
EXTENDS RetryCall

CONSTANTS
    Faults,         \* the kinds of faults that may happen
    MaxObjects,     \* bound: how many objects of this name are created
    MaxEdits,       \* bound: how many changes users and others make
    MaxFaults       \* bound: how many faults happen

ASSUME FederationAssumption ==
    /\ Faults \subseteq {"call", "response", "cleanup", "relist", "restart"}
    /\ MaxObjects \in Nat /\ MaxEdits \in Nat /\ MaxFaults \in Nat

VARIABLES
    useFinalizer,   \* whether Reconcile calls the finalizer handler; constant
    queued,         \* whether the key is in the work queue
    cleaning,       \* the uid of the object that Finalize is cleaning up, or 0
    incarnations,   \* how many objects were created
    dirty,          \* history: the uids of the objects for which the main logic
                    \* has run and no cleanup has succeeded since
    overlooked,     \* history: the cache of a worker holds another object than
                    \* before, and the event filter has dropped the event
    edits, faults   \* how many of them have happened

workVars == <<useFinalizer, queued, cleaning, dirty, overlooked>>
boundVars == <<incarnations, edits, faults>>
vars == <<apiVars, callVars, workVars, boundVars>>

TypeOK ==
    /\ RetryTypeOK
    /\ useFinalizer \in BOOLEAN
    /\ queued \in [Workers -> BOOLEAN]
    /\ cleaning \in [Workers -> 0..incarnations]
    /\ incarnations \in 0..MaxObjects
    /\ dirty \subseteq 1..incarnations
    /\ overlooked \in [Workers -> BOOLEAN]
    /\ edits \in 0..MaxEdits
    /\ faults \in 0..MaxFaults

Init ==
    /\ RetryInit
    /\ useFinalizer \in BOOLEAN
    /\ queued = [w \in Workers |-> FALSE]
    /\ cleaning = [w \in Workers |-> 0]
    /\ incarnations = 0
    /\ dirty = {}
    /\ overlooked = [w \in Workers |-> FALSE]
    /\ edits = 0
    /\ faults = 0

-----------------------------------------------------------------------------
(* The watch and the event filter.                                         *)

GenerationChanged(old, new) == new.generation # old.generation

FinalizerChanged(old, new) == new.finalizers # old.finalizers

\* A mutant: updates of the finalizers are dropped like those of the status.
EventFilterWithoutFinalizers(old, new) ==
    IF NoObject \in {old, new}
    THEN old # new
    ELSE GenerationChanged(old, new)

\* Creations and deletions pass; an update passes one of the two predicates.
EventFilter(old, new) ==
    IF NoObject \in {old, new}
    THEN old # new
    ELSE GenerationChanged(old, new) \/ FinalizerChanged(old, new)

\* An object was deleted and another one created in its place.
Replaced(old, new) == NoObject \notin {old, new} /\ old.uid # new.uid

\* Version n reaches the cache of w.
CacheUpdate(w, n) ==
    /\ seen' = [seen EXCEPT ![w] = n]
    /\ queued' = [queued EXCEPT ![w] = @ \/ EventFilter(Cached(w), history[n])]
    /\ overlooked' = [overlooked EXCEPT ![w] =
                         ~queued'[w] /\ (@ \/ Replaced(Cached(w), history[n]))]
    /\ UNCHANGED <<history, callVars, useFinalizer, cleaning, dirty>>

Watch(w) ==
    /\ seen[w] < Len(history)
    /\ CacheUpdate(w, seen[w] + 1)
    /\ UNCHANGED boundVars

-----------------------------------------------------------------------------
(* finalizer.Handler                                                       *)

\* Finalize goes on to the cleanup.
FinalizeNeeded(obj) == obj.deleting /\ Finalizer \in obj.finalizers

\* The cleanup has succeeded and the finalizer is removed.
Finalize(w) ==
    /\ cleaning[w] # 0
    /\ cleaning' = [cleaning EXCEPT ![w] = 0]
    /\ dirty' = dirty \ {cleaning[w]}
    /\ StartCall(w, [op |-> "remove", conditions |-> NoConditions])
    /\ UNCHANGED <<apiVars, useFinalizer, queued, overlooked, boundVars>>

Add(w) == StartCall(w, [op |-> "add", conditions |-> NoConditions])

-----------------------------------------------------------------------------
(* Reconciler.Reconcile                                                    *)

Idle(w) == retryPc[w] = "none" /\ cleaning[w] = 0

\* The worker takes the key from the queue.
TakeKey(w) ==
    /\ Idle(w)
    /\ queued[w]
    /\ queued' = [queued EXCEPT ![w] = FALSE]
    /\ UNCHANGED <<apiVars, useFinalizer, overlooked, boundVars>>

ReconcileNotFound(w) ==
    /\ TakeKey(w)
    /\ Cached(w) = NoObject
    /\ UNCHANGED <<callVars, cleaning, dirty>>

ReconcileFinalizes(w) ==
    /\ TakeKey(w)
    /\ Cached(w) # NoObject
    /\ useFinalizer
    /\ FinalizeNeeded(Cached(w))
    /\ cleaning' = [cleaning EXCEPT ![w] = Cached(w).uid]
    /\ UNCHANGED <<callVars, dirty>>

\* A mutant: the main logic does not wait for the finalizer.
ReconcileAddsAndGoesOn(w) ==
    /\ TakeKey(w)
    /\ Cached(w) # NoObject
    /\ useFinalizer
    /\ Finalizer \notin Cached(w).finalizers
    /\ Add(w)
    /\ dirty' = dirty \cup {Cached(w).uid}
    /\ UNCHANGED cleaning

\* Reconcile ends here; the update event of the finalizer brings the key back.
ReconcileAdds(w) ==
    /\ TakeKey(w)
    /\ Cached(w) # NoObject
    /\ useFinalizer
    /\ Finalizer \notin Cached(w).finalizers
    /\ Add(w)
    /\ UNCHANGED <<cleaning, dirty>>

\* The main logic, then the status. All conditions of the object that was read
\* are set again, not only the one of this controller.
ReconcileMain(w) ==
    /\ TakeKey(w)
    /\ Cached(w) # NoObject
    /\ useFinalizer => ~FinalizeNeeded(Cached(w)) /\ Finalizer \in Cached(w).finalizers
    /\ dirty' = dirty \cup {Cached(w).uid}
    /\ LET conditions == [Cached(w).conditions EXCEPT !["Available"] = "True"] IN
       IF conditions # Cached(w).conditions
       THEN StartCall(w, [op |-> "conditions", conditions |-> conditions])
       ELSE UNCHANGED callVars
    /\ UNCHANGED cleaning

\* Reconcile returns the error of the call; an error puts the key back.
ReconcileReturns(w) ==
    /\ Resume(w)
    /\ queued' = [queued EXCEPT ![w] = @ \/ answer[w] = "error"]
    /\ UNCHANGED <<useFinalizer, cleaning, dirty, overlooked, boundVars>>

RetryStep(w) ==
    /\ \/ Get(w)
       \/ GetNotFound(w)
       \/ UpdateSucceeds(w)
       \/ UpdateConflicts(w)
       \/ UpdateRejected(w)
    /\ UNCHANGED <<workVars, boundVars>>

WorkerStep(w) ==
    \/ ReconcileNotFound(w)
    \/ ReconcileFinalizes(w)
    \/ ReconcileAdds(w)
    \/ ReconcileMain(w)
    \/ Finalize(w)
    \/ RetryStep(w)
    \/ ReconcileReturns(w)

-----------------------------------------------------------------------------
(* Users, other controllers and faults.                                    *)

CreateObject ==
    /\ Latest = NoObject
    /\ incarnations < MaxObjects
    /\ incarnations' = incarnations + 1
    /\ \E spec \in Specs : Write(New(incarnations + 1, spec))
    /\ UNCHANGED <<seen, callVars, workVars, edits, faults>>

EditObject ==
    /\ Latest # NoObject
    /\ edits < MaxEdits
    /\ edits' = edits + 1
    /\ \E o \in Edited(Latest) \ {Latest} : Write(o)
    /\ UNCHANGED <<seen, callVars, workVars, incarnations, faults>>

\* The other controller removes its finalizer from an object to be deleted.
ReleaseObject ==
    /\ Latest # NoObject
    /\ Latest.deleting
    /\ Foreign \in Latest.finalizers
    /\ Write(Released(Latest))
    /\ UNCHANGED <<seen, callVars, workVars, boundVars>>

Fault(f) ==
    /\ f \in Faults
    /\ faults < MaxFaults
    /\ faults' = faults + 1
    /\ UNCHANGED <<incarnations, edits>>

FaultyCall(w) ==
    /\ \/ Fault("call") /\ CallFails(w)
       \/ Fault("response") /\ ResponseLost(w)
    /\ UNCHANGED workVars

CleanupFails(w) ==
    /\ Fault("cleanup")
    /\ cleaning[w] # 0
    /\ cleaning' = [cleaning EXCEPT ![w] = 0]
    /\ queued' = [queued EXCEPT ![w] = TRUE]
    /\ UNCHANGED <<apiVars, callVars, useFinalizer, dirty, overlooked>>

\* The watch has expired: the informer lists again and misses what was between.
Relist(w) ==
    /\ Fault("relist")
    /\ \E n \in seen[w] + 2..Len(history) : CacheUpdate(w, n)

ProcessRestarts(w) ==
    /\ Fault("restart")
    /\ WorkerRestarts(w)
    /\ queued' = [queued EXCEPT ![w] = Latest # NoObject]
    /\ cleaning' = [cleaning EXCEPT ![w] = 0]
    /\ overlooked' = [overlooked EXCEPT ![w] = FALSE]
    /\ UNCHANGED <<useFinalizer, dirty>>

Next ==
    \/ \E w \in Workers : WorkerStep(w) \/ Watch(w)
    \/ CreateObject
    \/ EditObject
    \/ ReleaseObject
    \/ \E w \in Workers :
          FaultyCall(w) \/ CleanupFails(w) \/ Relist(w) \/ ProcessRestarts(w)

Spec == Init /\ [][Next]_vars

\* The goroutines and watches of the manager run, errors are retried by the work
\* queue, and the other controller finishes its cleanup.
Fairness ==
    /\ \A w \in Workers : WF_vars(WorkerStep(w)) /\ WF_vars(Watch(w))
    /\ WF_vars(ReleaseObject)

FairSpec == Spec /\ Fairness

-----------------------------------------------------------------------------
(* Properties.                                                             *)

InCall(w) == retryPc[w] \in {"get", "update"}

Atomic ==
    INSTANCE AtomicUpdates WITH
        object <- Latest,
        asked <- [w \in Workers |-> IF InCall(w) THEN mutation[w] ELSE NoMutation]

\* RetryUpdate and RetryStatusUpdate implement AtomicUpdates although they work on
\* copies from a cache that lags behind: a mutation is applied to the latest
\* version of the object or not at all, at most once per call, so that what the
\* mutation does not touch keeps its latest value, and a nil error means that
\* the mutation is in. Values that the caller has put into the mutation, such
\* as conditions that it read before the call, may be old.
RetryIsAtomic == Atomic!Spec

\* An object for which the main logic has run is still there, with the finalizer,
\* until a cleanup has succeeded: neither a stale cache, a lost response, a
\* conflict or a restart nor another finalizer lets it go before.
NothingIsLeftBehind ==
    useFinalizer =>
        \A u \in dirty :
            /\ Latest # NoObject
            /\ Latest.uid = u
            /\ Finalizer \in Latest.finalizers

Settled ==
    \A w \in Workers :
        Idle(w) /\ ~queued[w] /\ seen[w] = Len(history)

\* Once users and faults are quiet, the controller comes to rest: an object that
\* is marked for deletion is gone, any other one is Available and carries the
\* finalizer, although updates of the status wake nobody up and Add relies on
\* the event of its own update. Only an object whose creation the event filter
\* has dropped is left as it is.
FederationsSettle ==
    <>[](/\ Settled
         /\ \/ Latest = NoObject
            \/ \E w \in Workers : overlooked[w]
            \/ /\ ~Latest.deleting
               /\ Latest.conditions["Available"] = "True"
               /\ useFinalizer => Finalizer \in Latest.finalizers)

-----------------------------------------------------------------------------
(* What comments and tests say and the code does not do.                   *)

\* "When new MeshFederation is created it should update condition on successful
\* reconciliation". When the watch expires and the object is deleted and created
\* anew before the informer lists again, the informer reports an update, and the
\* new object has the generation of the old one: the event is filtered out.
NewFederationsAreReconciled ==
    Latest # NoObject ~> (Latest = NoObject \/ Latest.deleting
                            \/ Latest.conditions["Available"] = "True")

=============================================================================
