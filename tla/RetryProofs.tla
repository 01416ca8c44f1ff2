---------------------------- MODULE RetryProofs ----------------------------
(***************************************************************************)
(* Proofs about MeshFederationController, for any number of workers unless *)
(* stated otherwise: its types, and that RetryUpdate and RetryStatusUpdate *)
(* implement AtomicUpdates.                                                *)
(***************************************************************************)
EXTENDS MeshFederationController, TLAPS

-----------------------------------------------------------------------------
(* Objects.                                                                *)

LEMMA StoredType ==
    ASSUME NEW o \in Object
    PROVE  Stored(o) \in Object \cup {NoObject}
BY DEF Stored

LEMMA MutateType ==
    ASSUME NEW m \in Mutation, NEW o \in Object
    PROVE  /\ Mutate(m, o) \in Object
           /\ Mutate(m, o).uid = o.uid
           /\ Mutate(m, o).deleting = o.deleting
BY DEF Mutate, Mutation, Object, SetStatusConditions, Conditions, Finalizers

\* o is left as x: the same object, with the controller's finalizer as before, and
\* still to be deleted if it was.
LeftAs(o, x) ==
    /\ x \in Object
    /\ x.uid = o.uid
    /\ o.deleting => x.deleting
    /\ Finalizer \in x.finalizers <=> Finalizer \in o.finalizers

\* o is left as x or is gone, the latter only without the controller's finalizer.
LeftOrGone(o, x) ==
    LeftAs(o, x) \/ (x = NoObject /\ Finalizer \notin o.finalizers)

LEMMA StoredLeft ==
    ASSUME NEW o \in Object, NEW x, LeftAs(o, x)
    PROVE  LeftOrGone(o, Stored(x))
BY DEF LeftAs, LeftOrGone, Stored

\* Users and other controllers neither touch the controller's finalizer nor take
\* back a deletion.
LEMMA EditedLeft ==
    ASSUME NEW o \in Object, NEW e \in Edited(o) \cup {Released(o)}
    PROVE  LeftOrGone(o, e)
<1>1. \A spec \in Specs : LeftAs(o, Respec(o, spec))
  <2> TAKE spec \in Specs
  <2> DEFINE g == IF spec = o.spec THEN o.generation ELSE o.generation + 1
  <2>1. g \in Nat
    BY DEF Object
  <2> HIDE DEF g
  <2>2. LeftAs(o, [o EXCEPT !.spec = spec])
    BY DEF Object, LeftAs
  <2>3. LeftAs(o, [[o EXCEPT !.spec = spec] EXCEPT !.generation = g])
    BY Zenon, <2>1, <2>2 DEF Object, LeftAs
  <2> QED  BY <2>3 DEF Respec, g
<1>2. \A status \in {"False", "True"} :
          LeftAs(o, [o EXCEPT !.conditions = [@ EXCEPT !["Other"] = status]])
  <2> TAKE status \in {"False", "True"}
  <2> DEFINE c == [o.conditions EXCEPT !["Other"] = status]
  <2>1. c \in Conditions
    BY DEF Object, Conditions, ConditionTypes
  <2> HIDE DEF c
  <2>2. LeftAs(o, [o EXCEPT !.conditions = c])
    BY <2>1 DEF Object, LeftAs
  <2> QED  BY <2>2 DEF c
<1>3. LeftOrGone(o, Stored(MarkDeleted(o)))
  <2> DEFINE g == o.generation + 1
  <2>1. g \in Nat
    BY DEF Object
  <2> HIDE DEF g
  <2>2. LeftAs(o, [o EXCEPT !.deleting = TRUE])
    BY Zenon DEF Object, LeftAs
  <2>3. LeftAs(o, [[o EXCEPT !.deleting = TRUE] EXCEPT !.generation = g])
    BY Zenon, <2>1, <2>2 DEF Object, LeftAs
  <2> QED  BY <2>3, StoredLeft DEF MarkDeleted, g
<1>4. LeftAs(o, [o EXCEPT !.finalizers = @ \cup {Foreign}])
  BY ObjectAssumption DEF Object, Finalizers, LeftAs
<1>5. LeftOrGone(o, Released(o))
  <2>1. LeftAs(o, [o EXCEPT !.finalizers = @ \ {Foreign}])
    BY ObjectAssumption DEF Object, LeftAs
  <2> QED  BY <2>1, StoredLeft DEF Released
<1> QED  BY <1>1, <1>2, <1>3, <1>4, <1>5 DEF Edited, LeftOrGone

LEMMA NewType ==
    ASSUME NEW uid \in Nat, NEW spec \in Specs
    PROVE  New(uid, spec) \in Object /\ New(uid, spec).uid = uid
BY DEF New, Object, NoConditions, Conditions, ConditionTypes

\* The update of a fresh copy changes the object as the mutation does.
LEMMA FreshUpdate ==
    ASSUME NEW m \in Mutation, NEW o \in Object
    PROVE  LET c == Mutate(m, o) IN
           /\ m.op = "conditions" => [o EXCEPT !.conditions = c.conditions] = c
           /\ m.op # "conditions" =>
                  [Respec(o, c.spec) EXCEPT !.finalizers = c.finalizers] = c
BY Zenon DEF Mutate, Mutation, Object, Respec, SetStatusConditions, Conditions, Finalizers

-----------------------------------------------------------------------------
(* The API server.                                                         *)

LEMMA AppendFacts ==
    ASSUME NEW S, NEW h \in Seq(S), NEW o \in S
    PROVE  /\ Append(h, o) \in Seq(S)
           /\ Len(Append(h, o)) = Len(h) + 1
           /\ Append(h, o)[Len(h) + 1] = o
           /\ \A n \in 1..Len(h) : Append(h, o)[n] = h[n]
OBVIOUS

\* The uids of all versions were given to objects that were created.
UidsAreGiven ==
    \A n \in 1..Len(history) :
        history[n] # NoObject => history[n].uid \in 1..incarnations

\* What a write leaves of the history, and what it adds.
LEMMA WriteFacts ==
    ASSUME history \in Seq(Object \cup {NoObject}), history # <<>>,
           NEW o \in Object \cup {NoObject}, Write(o)
    PROVE  /\ history' \in Seq(Object \cup {NoObject})
           /\ history' # <<>>
           /\ Len(history') \in {Len(history), Len(history) + 1}
           /\ \A n \in 1..Len(history) : history'[n] = history[n]
           /\ Latest' = o
           /\ \A n \in 1..Len(history') : n \in 1..Len(history) \/ n = Len(history')
<1>1. CASE o = Latest
  BY <1>1 DEF Write, Latest
<1>2. CASE o # Latest
  <2>1. history' = Append(history, o)
    BY <1>2 DEF Write
  <2>2. Append(history, o) # <<>>
    BY AppendFacts
  <2> HIDE DEF Write
  <2> QED  BY <2>1, <2>2, AppendFacts DEF Latest
<1> QED  BY <1>1, <1>2

\* A copy that is about to be written is the mutation of a version.
CopiesAreVersions ==
    \A w \in Workers :
        /\ InCall(w) => mutation[w] \in Mutation
        /\ retryPc[w] = "update" =>
               /\ base[w] \in 1..Len(history)
               /\ history[base[w]] # NoObject
               /\ current[w] = Mutate(mutation[w], history[base[w]])

RetryInv == TypeOK /\ UidsAreGiven /\ CopiesAreVersions

LEMMA LatestType ==
    ASSUME TypeOK
    PROVE  /\ Len(history) \in 1..Len(history)
           /\ Latest \in Object \cup {NoObject}
           /\ \A w \in Workers : Cached(w) \in Object \cup {NoObject}
<1>1. Len(history) \in Nat /\ Len(history) # 0
  BY DEF TypeOK, RetryTypeOK
<1> QED  BY <1>1 DEF TypeOK, RetryTypeOK, Latest, Cached

LEMMA RetryInvInit == Init => RetryInv
<1> SUFFICES ASSUME Init PROVE RetryInv
  OBVIOUS
<1>1. history = <<NoObject>> /\ Len(history) = 1 /\ history[1] = NoObject
  BY DEF Init, RetryInit
<1>2. history \in Seq(Object \cup {NoObject})
  BY <1>1
<1>3. TypeOK
  BY <1>1, <1>2, RetryAssumption, FederationAssumption
     DEF Init, RetryInit, TypeOK, RetryTypeOK
<1>4. UidsAreGiven
  BY <1>1 DEF UidsAreGiven
<1>5. CopiesAreVersions
  BY DEF Init, RetryInit, CopiesAreVersions, InCall
<1> QED  BY <1>3, <1>4, <1>5 DEF RetryInv

\* A write of a user or of another controller.
LEMMA OtherWrites ==
    ASSUME RetryInv, NEW o \in Object \cup {NoObject}, Write(o),
           o # NoObject => o.uid \in 1..incarnations',
           incarnations' \in incarnations..MaxObjects,
           edits' \in 0..MaxEdits,
           UNCHANGED <<seen, callVars, workVars, faults>>
    PROVE  RetryInv'
<1> USE DEF RetryInv
<1>1. /\ history' \in Seq(Object \cup {NoObject})
      /\ history' # <<>>
      /\ Len(history) \in Nat /\ Len(history') \in Nat
      /\ Len(history) <= Len(history')
      /\ \A n \in 1..Len(history) : history'[n] = history[n]
      /\ history'[Len(history')] = o
      /\ \A n \in 1..Len(history') : n \in 1..Len(history) \/ n = Len(history')
  BY SMTT(30), WriteFacts DEF TypeOK, RetryTypeOK, Latest
<1>2. incarnations \in Nat /\ incarnations' \in Nat /\ incarnations <= incarnations'
      /\ incarnations' \in 0..MaxObjects
  BY FederationAssumption DEF TypeOK
<1>3. TypeOK'
  BY SMTT(30), <1>1, <1>2 DEF TypeOK, RetryTypeOK, callVars, workVars
<1>4. UidsAreGiven'
  BY <1>1, <1>2 DEF UidsAreGiven
<1>5. CopiesAreVersions'
  BY <1>1 DEF CopiesAreVersions, InCall, callVars
<1> QED  BY <1>3, <1>4, <1>5

\* What the API server has accepted is the mutation of the latest version.
LEMMA AcceptFacts ==
    ASSUME RetryInv, NEW w \in Workers, NEW a, Accept(w, a)
    PROVE  /\ mutation[w] \in Mutation
           /\ Latest \in Object
           /\ base[w] = Len(history)
           /\ Mutate(mutation[w], Latest) \in Object
           /\ Write(Stored(Mutate(mutation[w], Latest)))
<1>1. /\ mutation[w] \in Mutation
      /\ Latest \in Object
      /\ base[w] = Len(history)
      /\ current[w] = Mutate(mutation[w], Latest)
  BY LatestType DEF RetryInv, CopiesAreVersions, Accept, InCall, Latest
<1>2. Written(w) = Mutate(mutation[w], Latest)
  BY <1>1, FreshUpdate DEF Written
<1> QED  BY <1>1, <1>2, MutateType DEF Accept

LEMMA AcceptInv ==
    ASSUME RetryInv, NEW w \in Workers, NEW a \in {"ok", "error"}, Accept(w, a),
           UNCHANGED <<workVars, incarnations, edits>>, faults' \in 0..MaxFaults
    PROVE  RetryInv'
<1> USE DEF RetryInv
<1> DEFINE o == Stored(Mutate(mutation[w], Latest))
<1>1. /\ o \in Object \cup {NoObject}
      /\ o # NoObject => o.uid = Latest.uid
      /\ Write(o)
      /\ Latest \in Object
  BY Zenon, AcceptFacts, StoredType, MutateType DEF Stored
<1> HIDE DEF o
<1>2. /\ history' \in Seq(Object \cup {NoObject})
      /\ history' # <<>>
      /\ Len(history) \in Nat /\ Len(history') \in Nat
      /\ Len(history) <= Len(history')
      /\ \A n \in 1..Len(history) : history'[n] = history[n]
      /\ history'[Len(history')] = o
      /\ \A n \in 1..Len(history') : n \in 1..Len(history) \/ n = Len(history')
  BY SMTT(30), <1>1, WriteFacts DEF TypeOK, RetryTypeOK, Latest
<1>3. Len(history) \in 1..Len(history) /\ Latest.uid \in 1..incarnations
  BY <1>1, LatestType, ObjectAssumption DEF UidsAreGiven, Latest
<1>4. TypeOK'
  BY SMTT(30), <1>2, RetryAssumption DEF TypeOK, RetryTypeOK, workVars, Accept, Return
<1>5. UidsAreGiven'
  BY Zenon, <1>1, <1>2, <1>3 DEF UidsAreGiven
<1>6. CopiesAreVersions'
  BY SMTT(30), <1>2 DEF CopiesAreVersions, InCall, Accept, Return, TypeOK, RetryTypeOK
<1> QED  BY <1>4, <1>5, <1>6

\* The steps of a call that write nothing.
LEMMA CallStepInv ==
    ASSUME RetryInv, NEW w \in Workers, UNCHANGED <<workVars, incarnations, edits>>,
           faults' \in 0..MaxFaults,
           \/ Get(w) \/ GetNotFound(w) \/ UpdateConflicts(w)
           \/ UpdateRejected(w) \/ CallFails(w)
    PROVE  RetryInv'
<1> USE DEF RetryInv
<1>1. CASE Get(w)
  <2>1. /\ mutation[w] \in Mutation
        /\ Cached(w) \in Object
        /\ seen[w] \in 1..Len(history)
        /\ Len(history) \in Nat
    BY SMTT(30), <1>1, LatestType DEF Get, CopiesAreVersions, InCall, TypeOK, RetryTypeOK
  <2>2. Mutate(mutation[w], Cached(w)) \in Object
    BY <2>1, MutateType
  <2>3. TypeOK'
    BY SMTT(30), <1>1, <2>1, <2>2 DEF Get, TypeOK, RetryTypeOK, workVars, apiVars
  <2>4. UidsAreGiven'
    BY <1>1 DEF Get, UidsAreGiven, apiVars
  <2>5. CopiesAreVersions'
    BY Zenon, <1>1, <2>1 DEF Get, CopiesAreVersions, InCall, Cached, apiVars, TypeOK,
       RetryTypeOK
  <2> QED  BY <2>3, <2>4, <2>5
<1>2. ASSUME Return(w, "error", "return"), UNCHANGED apiVars
      PROVE  RetryInv'
  <2>1. TypeOK'
    BY SMTT(30), <1>2, RetryAssumption DEF Return, TypeOK, RetryTypeOK, workVars, apiVars
  <2>2. UidsAreGiven'
    BY <1>2 DEF UidsAreGiven, apiVars
  <2>3. CopiesAreVersions'
    BY <1>2 DEF Return, CopiesAreVersions, InCall, apiVars, TypeOK, RetryTypeOK
  <2> QED  BY <2>1, <2>2, <2>3
<1>3. CASE UpdateConflicts(w)
  <2>1. CASE tries[w] + 1 = MaxTries
    BY <1>2, <1>3, <2>1 DEF UpdateConflicts
  <2>2. CASE tries[w] + 1 # MaxTries
    <3>1. tries[w] + 1 \in 0..MaxTries - 1
      <4>1. tries[w] \in 0..MaxTries - 1 /\ MaxTries \in Nat
        BY RetryAssumption DEF TypeOK, RetryTypeOK
      <4> QED  BY <2>2, <4>1
    <3>2. TypeOK'
      <4>1. tries' \in [Workers -> 0..MaxTries - 1]
        BY ZenonT(30), <1>3, <2>2, <3>1 DEF UpdateConflicts, TypeOK, RetryTypeOK
      <4>2. /\ retryPc' = [retryPc EXCEPT ![w] = "get"]
            /\ current' = [current EXCEPT ![w] = NoObject]
            /\ base' = [base EXCEPT ![w] = 0]
            /\ UNCHANGED <<history, seen, mutation, answer>>
        BY <1>3, <2>2 DEF UpdateConflicts, apiVars
      <4> QED  BY Zenon, <4>1, <4>2 DEF TypeOK, RetryTypeOK, workVars
    <3>3. UidsAreGiven'
      BY <1>3 DEF UpdateConflicts, UidsAreGiven, apiVars
    <3>4. CopiesAreVersions'
      BY SMTT(30), <1>3, <2>2 DEF UpdateConflicts, CopiesAreVersions, InCall, apiVars, TypeOK,
         RetryTypeOK
    <3> QED  BY <3>2, <3>3, <3>4
  <2> QED  BY <2>1, <2>2
<1> QED  BY <1>1, <1>2, <1>3 DEF GetNotFound, UpdateRejected, CallFails

\* The steps of Reconcile.
LEMMA ReconcileInv ==
    ASSUME RetryInv, NEW w \in Workers,
           \/ ReconcileNotFound(w) \/ ReconcileFinalizes(w) \/ ReconcileAdds(w)
           \/ ReconcileMain(w) \/ Finalize(w) \/ ReconcileReturns(w)
    PROVE  RetryInv'
<1> USE DEF RetryInv
<1>1. Cached(w) # NoObject => /\ Cached(w) \in Object
                              /\ Cached(w).uid \in 1..incarnations
  BY LatestType DEF Cached, TypeOK, RetryTypeOK, UidsAreGiven
<1>2. history' = history /\ seen' = seen /\ incarnations' = incarnations
  BY DEF ReconcileNotFound, ReconcileFinalizes, ReconcileAdds, ReconcileMain, Finalize,
     ReconcileReturns, TakeKey, Resume, apiVars, boundVars
<1>3. UidsAreGiven'
  BY <1>2 DEF UidsAreGiven
<1>4. NoConditions \in Conditions
  BY DEF NoConditions, Conditions
<1>5. Cached(w) # NoObject =>
          [Cached(w).conditions EXCEPT !["Available"] = "True"] \in Conditions
  BY Zenon, <1>1 DEF Object, Conditions
<1>6. ASSUME NEW m \in Mutation, StartCall(w, m)
      PROVE  CopiesAreVersions'
  BY <1>2, <1>6 DEF StartCall, CopiesAreVersions, InCall, TypeOK, RetryTypeOK
<1>7. CASE ReconcileNotFound(w) \/ ReconcileFinalizes(w)
  <2>0. cleaning' \in [Workers -> 0..incarnations]
    BY <1>1, <1>7 DEF ReconcileNotFound, ReconcileFinalizes, TypeOK
  <2>1. TypeOK'
    BY ZenonT(30), <1>7, <2>0 DEF ReconcileNotFound, ReconcileFinalizes, TakeKey, TypeOK,
       RetryTypeOK, apiVars, callVars, boundVars
  <2>2. CopiesAreVersions'
    BY Zenon, <1>2, <1>7 DEF ReconcileNotFound, ReconcileFinalizes, CopiesAreVersions, InCall,
       callVars
  <2> QED  BY <1>3, <2>1, <2>2
<1>8. CASE ReconcileAdds(w)
  <2> DEFINE m == [op |-> "add", conditions |-> NoConditions]
  <2>1. m \in Mutation
    BY <1>4 DEF Mutation
  <2> HIDE DEF m
  <2>2. StartCall(w, m)
    BY Zenon, <1>8 DEF ReconcileAdds, Add, m
  <2>3. TypeOK'
    BY Zenon, <1>8, <2>1, <2>2 DEF ReconcileAdds, TakeKey, StartCall, TypeOK, RetryTypeOK,
       apiVars, boundVars
  <2> QED  BY <1>3, <1>6, <2>1, <2>2, <2>3
<1>9. CASE ReconcileMain(w)
  <2> DEFINE conditions == [Cached(w).conditions EXCEPT !["Available"] = "True"]
             m == [op |-> "conditions", conditions |-> conditions]
  <2>1. m \in Mutation
    BY Zenon, <1>5, <1>9 DEF Mutation, ReconcileMain
  <2>2. StartCall(w, m) \/ UNCHANGED callVars
    BY Zenon, <1>9 DEF ReconcileMain
  <2> HIDE DEF m, conditions
  <2>3. TypeOK'
    <3>1. dirty' \subseteq 1..incarnations
      BY ZenonT(30), <1>1, <1>9 DEF ReconcileMain, TypeOK
    <3>2. RetryTypeOK'
      <4>1. CASE StartCall(w, m)
        BY <1>2, <2>1, <4>1 DEF StartCall, TypeOK, RetryTypeOK
      <4>2. CASE UNCHANGED callVars
        BY <1>2, <4>2 DEF TypeOK, RetryTypeOK, callVars
      <4> QED  BY <2>2, <4>1, <4>2
    <3> QED  BY Zenon, <1>9, <3>1, <3>2 DEF ReconcileMain, TakeKey, TypeOK, boundVars
  <2>4. CopiesAreVersions'
    <3>1. CASE StartCall(w, m)
      BY <1>6, <2>1, <3>1
    <3>2. CASE UNCHANGED callVars
      BY <1>2, <3>2 DEF CopiesAreVersions, InCall, callVars
    <3> QED  BY <2>2, <3>1, <3>2
  <2> QED  BY <1>3, <2>3, <2>4
<1>10. CASE Finalize(w)
  <2> DEFINE m == [op |-> "remove", conditions |-> NoConditions]
  <2>1. m \in Mutation
    BY <1>4 DEF Mutation
  <2>2. StartCall(w, m)
    BY <1>10 DEF Finalize
  <2> HIDE DEF m
  <2>3. TypeOK'
    <3>1. dirty' \subseteq 1..incarnations
      BY Zenon, <1>10 DEF Finalize, TypeOK
    <3>2. RetryTypeOK'
      BY <1>2, <2>1, <2>2 DEF StartCall, TypeOK, RetryTypeOK
    <3>3. cleaning' \in [Workers -> 0..incarnations]
      BY <1>10 DEF Finalize, TypeOK
    <3> QED  BY <1>10, <3>1, <3>2, <3>3 DEF Finalize, TypeOK, boundVars
  <2> QED  BY <1>3, <1>6, <2>1, <2>2, <2>3
<1>11. CASE ReconcileReturns(w)
  <2>1. TypeOK'
    BY <1>11 DEF ReconcileReturns, Resume, TypeOK, RetryTypeOK, apiVars, boundVars
  <2>2. CopiesAreVersions'
    BY Zenon, <1>2, <1>11 DEF ReconcileReturns, Resume, CopiesAreVersions, InCall, TypeOK,
       RetryTypeOK
  <2> QED  BY <1>3, <2>1, <2>2
<1> QED  BY <1>7, <1>8, <1>9, <1>10, <1>11

\* The watch and the restart of a process.
LEMMA ProcessInv ==
    ASSUME RetryInv, NEW w \in Workers,
           Watch(w) \/ CleanupFails(w) \/ Relist(w) \/ ProcessRestarts(w)
    PROVE  RetryInv'
<1> USE DEF RetryInv
<1>1. /\ history' = history /\ incarnations' = incarnations /\ edits' = edits
      /\ faults' \in 0..MaxFaults
  <2>1. Fault("cleanup") \/ Fault("relist") \/ Fault("restart") =>
            faults' \in 0..MaxFaults
    BY FederationAssumption DEF Fault, TypeOK
  <2> QED  BY <2>1 DEF Watch, CleanupFails, Relist, ProcessRestarts, CacheUpdate,
              WorkerRestarts, Fault, apiVars, boundVars, TypeOK
<1>2. UidsAreGiven'
  BY <1>1 DEF UidsAreGiven
<1>3. Len(history) \in 1..Len(history) /\ Len(history) \in Nat
  BY LatestType
<1>4. ASSUME NEW n \in 1..Len(history), CacheUpdate(w, n)
      PROVE  RetryInv'
  <2>1. seen' \in [Workers -> 1..Len(history)]
    BY <1>4 DEF CacheUpdate, TypeOK, RetryTypeOK
  <2>2. /\ queued' \in [Workers -> BOOLEAN]
        /\ overlooked' \in [Workers -> BOOLEAN]
    <3>1. queued' \in [Workers -> BOOLEAN]
      BY <1>4, Zenon DEF CacheUpdate, TypeOK, EventFilter
    <3>2. overlooked' \in [Workers -> BOOLEAN]
      BY <1>4, Zenon DEF CacheUpdate, TypeOK
    <3> QED  BY <3>1, <3>2
  <2>3. TypeOK'
    BY Zenon, <1>1, <1>4, <2>1, <2>2 DEF CacheUpdate, TypeOK, RetryTypeOK, callVars
  <2>4. CopiesAreVersions'
    BY <1>4 DEF CacheUpdate, CopiesAreVersions, InCall, callVars
  <2> QED  BY <1>2, <2>3, <2>4
<1>5. CASE Watch(w)
  <2>1. seen[w] + 1 \in 1..Len(history)
    BY <1>3, <1>5 DEF Watch, TypeOK, RetryTypeOK
  <2> QED  BY <1>4, <1>5, <2>1 DEF Watch
<1>6. CASE Relist(w)
  <2>1. PICK n \in seen[w] + 2..Len(history) : CacheUpdate(w, n)
    BY <1>6 DEF Relist
  <2>2. n \in 1..Len(history)
    BY <1>3, <2>1 DEF TypeOK, RetryTypeOK
  <2> QED  BY <1>4, <2>1, <2>2
<1>7. CASE CleanupFails(w)
  <2>1. TypeOK'
    BY SMTT(30), <1>1, <1>7 DEF CleanupFails, TypeOK, RetryTypeOK, apiVars, callVars
  <2>2. CopiesAreVersions'
    BY Zenon, <1>1, <1>7 DEF CleanupFails, CopiesAreVersions, InCall, callVars
  <2> QED  BY <1>2, <2>1, <2>2
<1>8. CASE ProcessRestarts(w)
  <2>1. RetryTypeOK'
    BY SMTT(30), <1>1, <1>3, <1>8, RetryAssumption DEF ProcessRestarts, WorkerRestarts, Return,
       TypeOK, RetryTypeOK
  <2>2. TypeOK'
    BY <1>1, <1>8, <2>1 DEF ProcessRestarts, TypeOK
  <2>3. CopiesAreVersions'
    BY <1>1, <1>8 DEF ProcessRestarts, WorkerRestarts, Return, CopiesAreVersions,
       InCall, TypeOK, RetryTypeOK
  <2> QED  BY <1>2, <2>2, <2>3
<1> QED  BY <1>5, <1>6, <1>7, <1>8

LEMMA RetryInvNext == RetryInv /\ [Next]_vars => RetryInv'
<1> SUFFICES ASSUME RetryInv, [Next]_vars PROVE RetryInv'
  OBVIOUS
<1>1. Latest \in Object \cup {NoObject} /\ Len(history) \in 1..Len(history)
  BY LatestType DEF RetryInv
<1>2. Latest # NoObject => Latest.uid \in 1..incarnations
  BY <1>1 DEF RetryInv, UidsAreGiven, Latest
<1>3. /\ incarnations \in 0..MaxObjects /\ MaxObjects \in Nat
      /\ edits \in 0..MaxEdits /\ MaxEdits \in Nat
      /\ faults \in 0..MaxFaults /\ MaxFaults \in Nat
  BY FederationAssumption DEF RetryInv, TypeOK
<1>4. ASSUME NEW w \in Workers, WorkerStep(w)
      PROVE  RetryInv'
  <2>1. CASE RetryStep(w)
    <3>1. UNCHANGED <<workVars, incarnations, edits>> /\ faults' \in 0..MaxFaults
      BY <1>3, <2>1 DEF RetryStep, boundVars
    <3> QED  BY <2>1, <3>1, CallStepInv, AcceptInv DEF RetryStep, UpdateSucceeds
  <2> QED  BY <1>4, <2>1, ReconcileInv DEF WorkerStep
<1>5. CASE CreateObject
  <2>1. PICK spec \in Specs : Write(New(incarnations + 1, spec))
    BY <1>5 DEF CreateObject
  <2>2. incarnations + 1 \in Nat /\ incarnations + 1 \in 1..incarnations'
        /\ incarnations' \in incarnations..MaxObjects
    BY <1>3, <1>5 DEF CreateObject
  <2>3. /\ New(incarnations + 1, spec) \in Object
        /\ New(incarnations + 1, spec).uid \in 1..incarnations'
    BY <2>2, NewType
  <2>4. edits' \in 0..MaxEdits /\ UNCHANGED <<seen, callVars, workVars, faults>>
    BY <1>3, <1>5 DEF CreateObject
  <2> QED  BY <2>1, <2>2, <2>3, <2>4, OtherWrites
<1>6. ASSUME NEW o \in Edited(Latest) \cup {Released(Latest)}, Latest # NoObject, Write(o),
             UNCHANGED <<seen, callVars, workVars, incarnations, faults>>,
             edits' \in 0..MaxEdits
      PROVE  RetryInv'
  <2>1. LeftOrGone(Latest, o)
    BY <1>1, <1>6, EditedLeft
  <2>2. /\ o \in Object \cup {NoObject}
        /\ o # NoObject => o.uid \in 1..incarnations'
    BY <1>2, <1>6, <2>1 DEF LeftOrGone, LeftAs
  <2>3. incarnations' \in incarnations..MaxObjects
    BY <1>3, <1>6
  <2> QED  BY <1>6, <2>2, <2>3, OtherWrites
<1>7. CASE EditObject
  <2>1. edits' \in 0..MaxEdits
    BY <1>3, <1>7 DEF EditObject
  <2> QED  BY <1>6, <1>7, <2>1 DEF EditObject
<1>8. CASE ReleaseObject
  BY <1>3, <1>6, <1>8 DEF ReleaseObject, boundVars
<1>9. ASSUME NEW w \in Workers, FaultyCall(w)
      PROVE  RetryInv'
  <2>1. UNCHANGED <<workVars, incarnations, edits>> /\ faults' \in 0..MaxFaults
    BY SMTT(30), <1>3, <1>9 DEF FaultyCall, Fault
  <2> QED  BY <1>9, <2>1, CallStepInv, AcceptInv DEF FaultyCall, ResponseLost
<1>10. CASE UNCHANGED vars
  BY <1>10 DEF vars, apiVars, callVars, workVars, boundVars, RetryInv, TypeOK,
     RetryTypeOK, UidsAreGiven, CopiesAreVersions, InCall
<1> QED  BY <1>4, <1>5, <1>7, <1>8, <1>9, <1>10, ProcessInv DEF Next

\* The controller's state stays within its types: in particular, no call is tried
\* more than MaxTries times, and what is cleaned up are objects that existed.
THEOREM FederationTypes == Spec => []TypeOK
<1>1. Spec => []RetryInv
  BY RetryInvInit, RetryInvNext, PTL DEF Spec
<1> QED  BY <1>1, PTL DEF RetryInv

-----------------------------------------------------------------------------
(* RetryUpdate and RetryStatusUpdate implement AtomicUpdates.              *)

asked == [w \in Workers |-> IF InCall(w) THEN mutation[w] ELSE NoMutation]

LEMMA AtomicInit == Init => Atomic!Init
BY DEF Init, RetryInit, Atomic!Init, Latest, InCall

\* AtomicUpdates speaks of the same objects.
LEMMA SameObjects ==
    /\ Atomic!Mutation = Mutation
    /\ \A o : Atomic!Stored(o) = Stored(o)
    /\ \A m, o : Atomic!Mutate(m, o) = Mutate(m, o)
    /\ \A uid, spec : Atomic!New(uid, spec) = New(uid, spec)
    /\ \A o : Atomic!Edited(o) = Edited(o)
    /\ \A o : Atomic!Released(o) = Released(o)
<1>1. \A o : Atomic!Stored(o) = Stored(o)
  BY DEF Stored, Atomic!Stored
<1>2. Atomic!Mutation = Mutation
  BY DEF Mutation, Atomic!Mutation, Conditions, Atomic!Conditions, ConditionTypes,
     Atomic!ConditionTypes
<1>3. \A m, o : Atomic!Mutate(m, o) = Mutate(m, o)
  BY DEF Mutate, Atomic!Mutate, SetStatusConditions, Atomic!SetStatusConditions,
     ConditionTypes, Atomic!ConditionTypes
<1>4. \A uid, spec : Atomic!New(uid, spec) = New(uid, spec)
  BY DEF New, Atomic!New, NoConditions, Atomic!NoConditions, ConditionTypes,
     Atomic!ConditionTypes
<1>5. \A o, spec : Atomic!Respec(o, spec) = Respec(o, spec)
  BY DEF Respec, Atomic!Respec
<1>6. \A o : Atomic!MarkDeleted(o) = MarkDeleted(o)
  BY DEF MarkDeleted, Atomic!MarkDeleted
<1>7. \A o : Atomic!Edited(o) = Edited(o)
  BY <1>1, <1>5, <1>6, Zenon DEF Edited, Atomic!Edited
<1>8. \A o : Atomic!Released(o) = Released(o)
  BY <1>1 DEF Released, Atomic!Released
<1> QED  BY <1>1, <1>2, <1>3, <1>4, <1>7, <1>8

LEMMA CallIsAtomic ==
    ASSUME RetryInv, NEW w \in Workers, NEW m \in Mutation, StartCall(w, m),
           UNCHANGED <<history, incarnations>>
    PROVE  Atomic!Call(w)
<1>1. ~InCall(w) /\ asked[w] = NoMutation
  BY DEF StartCall, InCall, asked
<1>2. asked' = [asked EXCEPT ![w] = m]
  BY Zenon DEF StartCall, InCall, asked, RetryInv, TypeOK, RetryTypeOK
<1>3. UNCHANGED <<Latest, incarnations, answer>>
  BY DEF StartCall, Latest
<1> QED  BY Zenon, <1>1, <1>2, <1>3, SameObjects DEF Atomic!Call, asked

LEMMA ReturnIsAtomic ==
    ASSUME RetryInv, NEW w \in Workers, NEW a, NEW pc \in {"none", "return"},
           Return(w, a, pc), UNCHANGED incarnations
    PROVE  Atomic!Return(w, a)
<1>1. asked' = [asked EXCEPT ![w] = NoMutation]
  BY Zenon DEF Return, InCall, asked, RetryInv, TypeOK, RetryTypeOK
<1> QED  BY <1>1 DEF Return, Atomic!Return, asked

LEMMA InCallAsks ==
    ASSUME RetryInv, NEW w \in Workers, InCall(w)
    PROVE  asked[w] = mutation[w] /\ asked[w] # NoMutation
BY RetryAssumption DEF RetryInv, CopiesAreVersions, asked

LEMMA SucceedIsAtomic ==
    ASSUME RetryInv, NEW w \in Workers, NEW a \in {"ok", "error"}, Accept(w, a),
           UNCHANGED incarnations
    PROVE  Atomic!Succeed(w)
<1>1. asked[w] = mutation[w] /\ asked[w] # NoMutation
  BY InCallAsks DEF Accept, InCall
<1>2. Latest # NoObject
  BY AcceptFacts, ObjectAssumption
<1>3. Latest' = Stored(Mutate(asked[w], Latest))
  BY Zenon, <1>1, AcceptFacts, StoredType, WriteFacts DEF RetryInv, TypeOK, RetryTypeOK
<1>4. Atomic!Return(w, a)
  BY Zenon, ReturnIsAtomic DEF Accept
<1> QED  BY <1>1, <1>2, <1>3, <1>4, SameObjects DEF Atomic!Succeed, asked

LEMMA FailIsAtomic ==
    ASSUME RetryInv, NEW w \in Workers, InCall(w), NEW pc \in {"none", "return"},
           Return(w, "error", pc), UNCHANGED <<history, incarnations>>
    PROVE  Atomic!Fail(w)
<1>1. asked[w] # NoMutation
  BY InCallAsks
<1>2. Atomic!Return(w, "error")
  BY ReturnIsAtomic
<1> QED  BY <1>1, <1>2 DEF Atomic!Fail, asked, Latest

\* Steps that the callers of RetryUpdate do not see.
LEMMA Stutter ==
    ASSUME UNCHANGED <<history, incarnations, mutation, answer>>,
           \A w \in Workers : InCall(w)' <=> InCall(w)
    PROVE  UNCHANGED Atomic!atomicVars
BY DEF Atomic!atomicVars, Latest

LEMMA AtomicNext ==
    RetryInv /\ [Next]_vars => [Atomic!Next]_(Atomic!atomicVars)
<1> SUFFICES ASSUME RetryInv, [Next]_vars
             PROVE  Atomic!Next \/ UNCHANGED Atomic!atomicVars
  BY DEF Atomic!atomicVars
<1>1. ASSUME NEW w \in Workers, WorkerStep(w)
      PROVE  Atomic!Next \/ UNCHANGED Atomic!atomicVars
  <2>1. CASE ReconcileNotFound(w) \/ ReconcileFinalizes(w)
    BY <2>1, Stutter DEF ReconcileNotFound, ReconcileFinalizes, TakeKey, InCall,
       apiVars, callVars, boundVars
  <2>2. NoConditions \in Conditions
    BY DEF NoConditions, Conditions
  <2>3. CASE ReconcileAdds(w)
    <3> DEFINE m == [op |-> "add", conditions |-> NoConditions]
    <3>1. m \in Mutation
      BY <2>2 DEF Mutation
    <3>2. StartCall(w, m) /\ UNCHANGED <<history, incarnations>>
      BY <2>3 DEF ReconcileAdds, Add, TakeKey, apiVars, boundVars
    <3> HIDE DEF m
    <3> QED  BY <3>1, <3>2, CallIsAtomic DEF Atomic!Next
  <2>4. CASE ReconcileMain(w)
    <3> DEFINE conditions == [Cached(w).conditions EXCEPT !["Available"] = "True"]
               m == [op |-> "conditions", conditions |-> conditions]
    <3>1. Cached(w) \in Object
      BY <2>4, LatestType DEF ReconcileMain, RetryInv
    <3>2. conditions \in Conditions
      BY Zenon, <3>1 DEF Object, Conditions
    <3>3. m \in Mutation
      BY <3>2 DEF Mutation
    <3>4. /\ StartCall(w, m) \/ UNCHANGED callVars
          /\ UNCHANGED <<history, incarnations>>
      BY Zenon, <2>4 DEF ReconcileMain, TakeKey, apiVars, boundVars
    <3> HIDE DEF m, conditions
    <3>5. CASE StartCall(w, m)
      BY <3>3, <3>4, <3>5, CallIsAtomic DEF Atomic!Next
    <3>6. CASE UNCHANGED callVars
      BY <3>4, <3>6, Stutter DEF callVars, InCall
    <3> QED  BY <3>4, <3>5, <3>6
  <2>5. CASE Finalize(w)
    <3> DEFINE m == [op |-> "remove", conditions |-> NoConditions]
    <3>1. m \in Mutation
      BY <2>2 DEF Mutation
    <3>2. StartCall(w, m) /\ UNCHANGED <<history, incarnations>>
      BY <2>5 DEF Finalize, apiVars, boundVars
    <3> HIDE DEF m
    <3> QED  BY <3>1, <3>2, CallIsAtomic DEF Atomic!Next
  <2>6. CASE RetryStep(w)
    <3>0. UNCHANGED incarnations
      BY <2>6 DEF RetryStep, boundVars
    <3>1. CASE Get(w)
      BY <3>0, <3>1, Stutter DEF Get, InCall, apiVars, RetryInv, TypeOK, RetryTypeOK
    <3>2. CASE GetNotFound(w)
      BY <3>0, <3>2, FailIsAtomic DEF GetNotFound, InCall, apiVars, Atomic!Next
    <3>3. CASE UpdateSucceeds(w)
      BY <3>0, <3>3, SucceedIsAtomic DEF UpdateSucceeds, Atomic!Next
    <3>4. CASE UpdateConflicts(w)
      <4>1. CASE tries[w] + 1 = MaxTries
        BY <3>0, <3>4, <4>1, FailIsAtomic DEF UpdateConflicts, InCall, apiVars,
           Atomic!Next
      <4>2. CASE tries[w] + 1 # MaxTries
        BY SMTT(30), <3>0, <3>4, <4>2, Stutter DEF UpdateConflicts, InCall, apiVars, RetryInv,
           TypeOK, RetryTypeOK
      <4> QED  BY <4>1, <4>2
    <3>5. CASE UpdateRejected(w)
      BY <3>0, <3>5, FailIsAtomic DEF UpdateRejected, InCall, apiVars, Atomic!Next
    <3> QED  BY <2>6, <3>1, <3>2, <3>3, <3>4, <3>5 DEF RetryStep
  <2>7. CASE ReconcileReturns(w)
    BY Zenon, <2>7, Stutter DEF ReconcileReturns, Resume, InCall, apiVars, boundVars, RetryInv,
       TypeOK, RetryTypeOK
  <2> QED  BY <1>1, <2>1, <2>3, <2>4, <2>5, <2>6, <2>7 DEF WorkerStep
<1>2. ASSUME NEW w \in Workers, Watch(w) \/ CleanupFails(w) \/ Relist(w)
      PROVE  Atomic!Next \/ UNCHANGED Atomic!atomicVars
  BY Zenon, <1>2, Stutter DEF Watch, CleanupFails, Relist, CacheUpdate, Fault, InCall, apiVars,
     callVars, boundVars
<1>3. ASSUME NEW w \in Workers, FaultyCall(w)
      PROVE  Atomic!Next \/ UNCHANGED Atomic!atomicVars
  <2>0. UNCHANGED incarnations
    BY <1>3 DEF FaultyCall, Fault
  <2>1. CASE CallFails(w)
    BY <2>0, <2>1, FailIsAtomic DEF CallFails, InCall, apiVars, Atomic!Next
  <2>2. CASE ResponseLost(w)
    BY <2>0, <2>2, SucceedIsAtomic DEF ResponseLost, Atomic!Next
  <2> QED  BY <1>3, <2>1, <2>2 DEF FaultyCall
<1>4. ASSUME NEW w \in Workers, ProcessRestarts(w)
      PROVE  Atomic!Next \/ UNCHANGED Atomic!atomicVars
  <2>1. WorkerRestarts(w) /\ UNCHANGED <<history, incarnations>>
    BY Zenon, <1>4 DEF ProcessRestarts, WorkerRestarts, Fault
  <2>2. CASE InCall(w)
    BY <2>1, <2>2, FailIsAtomic DEF WorkerRestarts, InCall, Atomic!Next
  <2>3. CASE ~InCall(w)
    <3>1. answer' = answer /\ (\A v \in Workers : InCall(v)' <=> InCall(v))
      BY <2>1, <2>3 DEF WorkerRestarts, Return, InCall, RetryInv, TypeOK, RetryTypeOK
    <3>2. \A v \in Workers : InCall(v) => mutation'[v] = mutation[v]
      BY <2>1, <2>3 DEF WorkerRestarts, Return, RetryInv, TypeOK, RetryTypeOK
    <3> QED  BY Zenon, <2>1, <3>1, <3>2 DEF Atomic!atomicVars, Latest
  <2> QED  BY Zenon, <2>2, <2>3
<1>5. CASE CreateObject
  <2>1. PICK spec \in Specs : Write(New(incarnations + 1, spec))
    BY <1>5 DEF CreateObject
  <2>2. incarnations + 1 \in Nat
    BY FederationAssumption DEF RetryInv, TypeOK
  <2>3. Latest' = New(incarnations + 1, spec)
    BY Zenon, <2>1, <2>2, NewType, WriteFacts DEF RetryInv, TypeOK, RetryTypeOK
  <2>4. Atomic!Create
    BY <1>5, <2>3, SameObjects DEF CreateObject, Atomic!Create, InCall, callVars
  <2> QED  BY <2>4 DEF Atomic!Next
<1>6. CASE EditObject \/ ReleaseObject
  <2>1. PICK o \in Edited(Latest) \cup {Released(Latest)} : Write(o)
    BY <1>6 DEF EditObject, ReleaseObject
  <2>2. Latest # NoObject /\ Latest \in Object
    BY <1>6, LatestType DEF EditObject, ReleaseObject, RetryInv
  <2>3. o \in Object \cup {NoObject}
    BY <2>2, EditedLeft DEF LeftOrGone, LeftAs
  <2>4. Latest' = o
    BY Zenon, <2>1, <2>3, WriteFacts DEF RetryInv, TypeOK, RetryTypeOK
  <2>5. Atomic!Change
    BY <1>6, <2>2, <2>4, SameObjects DEF EditObject, ReleaseObject, Atomic!Change,
       InCall, callVars, boundVars
  <2> QED  BY <2>5 DEF Atomic!Next
<1>7. CASE UNCHANGED vars
  BY <1>7, Stutter DEF vars, apiVars, callVars, boundVars, InCall
<1> QED  BY <1>1, <1>2, <1>3, <1>4, <1>5, <1>6, <1>7 DEF Next

\* RetryUpdate and RetryStatusUpdate do what AtomicUpdates promises, for any number
\* of concurrent callers, versions, tries and faults.
THEOREM RetryImplementsAtomicUpdates == Spec => RetryIsAtomic
<1>1. Spec => []RetryInv
  BY RetryInvInit, RetryInvNext, PTL DEF Spec
<1> QED  BY <1>1, AtomicInit, AtomicNext, PTL DEF Spec, RetryIsAtomic, Atomic!Spec

=============================================================================
