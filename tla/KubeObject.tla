------------------------------ MODULE KubeObject ------------------------------
(***************************************************************************)
(* One MeshFederation object as the API server keeps it, what clients do   *)
(* to it, and the changes that the controller asks for.                    *)
(*                                                                         *)
(* The object is abstracted to its metadata, one field for its whole spec  *)
(* and its conditions: Available, which the controller sets, and Other,    *)
(* which stands for the conditions of other writers. A status of "none"    *)
(* means that there is no condition of this type.                          *)
(***************************************************************************)
EXTENDS Naturals

CONSTANTS
    Specs,        \* the values of spec
    Finalizer,    \* Handler.finalizerName
    Foreign,      \* the finalizer of another controller
    NoObject      \* there is no object of this name

Finalizers == {Finalizer, Foreign}
ConditionTypes == {"Available", "Other"}
Conditions == [ConditionTypes -> {"none", "False", "True"}]
NoConditions == [t \in ConditionTypes |-> "none"]

Object ==
    [uid : Nat, generation : Nat, deleting : BOOLEAN,
     finalizers : SUBSET Finalizers, spec : Specs, conditions : Conditions]

ASSUME ObjectAssumption ==
    /\ NoObject \notin Object
    /\ Finalizer # Foreign

-----------------------------------------------------------------------------
(* The API server.                                                         *)

\* An object that is marked for deletion goes with its last finalizer.
Stored(o) == IF o.deleting /\ o.finalizers = {} THEN NoObject ELSE o

\* A change of spec gives the object a new generation.
Respec(o, spec) ==
    [o EXCEPT !.spec = spec,
              !.generation = IF spec = o.spec THEN @ ELSE @ + 1]

New(uid, spec) ==
    [uid |-> uid, generation |-> 1, deleting |-> FALSE, finalizers |-> {},
     spec |-> spec, conditions |-> NoConditions]

MarkDeleted(o) == [o EXCEPT !.deleting = TRUE, !.generation = @ + 1]

\* What users and other controllers make of an object.
Edited(o) ==
    {Respec(o, spec) : spec \in Specs}
    \cup {[o EXCEPT !.conditions = [@ EXCEPT !["Other"] = status]] :
             status \in {"False", "True"}}
    \cup (IF o.deleting THEN {}
          ELSE {Stored(MarkDeleted(o)), [o EXCEPT !.finalizers = @ \cup {Foreign}]})

\* The other controller has done its cleanup.
Released(o) == Stored([o EXCEPT !.finalizers = @ \ {Foreign}])

-----------------------------------------------------------------------------
(* The functions that are passed to RetryUpdate and RetryStatusUpdate.     *)

Mutation == [op : {"add", "remove", "conditions"}, conditions : Conditions]

\* SetStatusCondition of every condition of the list.
SetStatusConditions(saved, conditions) ==
    [t \in ConditionTypes |->
        IF conditions[t] = "none" THEN saved[t] ELSE conditions[t]]

Mutate(m, saved) ==
    CASE m.op = "add"        -> [saved EXCEPT !.finalizers = @ \cup {Finalizer}]
      [] m.op = "remove"     -> [saved EXCEPT !.finalizers = @ \ {Finalizer}]
      [] m.op = "conditions" -> [saved EXCEPT !.conditions =
                                    SetStatusConditions(@, m.conditions)]

=============================================================================
