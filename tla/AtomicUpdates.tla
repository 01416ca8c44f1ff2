---------------------------- MODULE AtomicUpdates ----------------------------
(***************************************************************************)
(* What RetryUpdate and RetryStatusUpdate promise their callers: the       *)
(* mutation is applied to the object as it is at that moment, in one step, *)
(* at most once per call; a call that returns nil has applied it. A call   *)
(* that returns an error may have applied it or not.                       *)
(*                                                                         *)
(* Other clients change the object in between, each in one step too.       *)
(***************************************************************************)
EXTENDS KubeObject

CONSTANTS
    Workers,      \* the goroutines that call
    NoMutation    \* what a goroutine asks for that is not in a call

VARIABLES
    object,         \* the object, or NoObject
    incarnations,   \* how many objects of this name were created
    asked,          \* the mutation that a call asks for
    answer          \* what the last call of a goroutine returned

atomicVars == <<object, incarnations, asked, answer>>

Init ==
    /\ object = NoObject
    /\ incarnations = 0
    /\ asked = [w \in Workers |-> NoMutation]
    /\ answer = [w \in Workers |-> "none"]

Call(w) ==
    /\ asked[w] = NoMutation
    /\ \E m \in Mutation : asked' = [asked EXCEPT ![w] = m]
    /\ UNCHANGED <<object, incarnations, answer>>

Return(w, a) ==
    /\ asked' = [asked EXCEPT ![w] = NoMutation]
    /\ answer' = [answer EXCEPT ![w] = a]
    /\ UNCHANGED incarnations

Succeed(w) ==
    /\ asked[w] # NoMutation
    /\ object # NoObject
    /\ object' = Stored(Mutate(asked[w], object))
    /\ \E a \in {"ok", "error"} : Return(w, a)

Fail(w) ==
    /\ asked[w] # NoMutation
    /\ Return(w, "error")
    /\ UNCHANGED object

Create ==
    /\ object = NoObject
    /\ incarnations' = incarnations + 1
    /\ \E spec \in Specs : object' = New(incarnations + 1, spec)
    /\ UNCHANGED <<asked, answer>>

Change ==
    /\ object # NoObject
    /\ object' \in Edited(object) \cup {Released(object)}
    /\ UNCHANGED <<incarnations, asked, answer>>

Next ==
    \/ \E w \in Workers : Call(w) \/ Succeed(w) \/ Fail(w)
    \/ Create
    \/ Change

Spec == Init /\ [][Next]_atomicVars

=============================================================================
