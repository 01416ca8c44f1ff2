-------------------------- MODULE FinalizerProofs --------------------------
(***************************************************************************)
(* The finalizer handler with one reconciling worker: an object for which  *)
(* the main logic has run does not go before its cleanup has succeeded.    *)
(***************************************************************************)
EXTENDS RetryProofs

\* Version n carries the controller's finalizer.
Held(n) == history[n] # NoObject /\ Finalizer \in history[n].finalizers

\* What follows a version that the cache holds or has yet to bring. The cached
\* versions before it do not matter: nothing is written over them.
HeldVersions(w) ==
    \A m \in seen[w]..Len(history) : \A n \in m..Len(history) :
        Held(m) =>
            /\ ~history[m].deleting => Held(n)
            /\ Held(n) => /\ history[n].uid = history[m].uid
                          /\ history[m].deleting => history[n].deleting

\* While an object is cleaned up, no other one can carry the finalizer.
CleaningIsLast(w) ==
    cleaning[w] # 0 =>
        \A n \in seen[w]..Len(history) :
            Held(n) => history[n].deleting /\ history[n].uid = cleaning[w]

\* While the finalizer is removed, nothing is left to be cleaned up.
RemovingIsClean(w) ==
    InCall(w) /\ mutation[w].op = "remove" =>
        /\ dirty = {}
        /\ \A n \in seen[w]..Len(history) : Held(n) => history[n].deleting

\* A worker runs the cleanup or a call, not both.
OneThing(w) == cleaning[w] # 0 => retryPc[w] = "none"

\* A call reads the cache, which never goes back.
BaseIsCached(w) == retryPc[w] = "update" => base[w] <= seen[w]

DirtyIsHeld ==
    \A u \in dirty : Held(Len(history)) /\ Latest.uid = u

FinalizerInv(w) ==
    /\ RetryInv
    /\ BaseIsCached(w)
    /\ OneThing(w)
    /\ useFinalizer =>
           /\ HeldVersions(w)
           /\ CleaningIsLast(w)
           /\ RemovingIsClean(w)
           /\ DirtyIsHeld

-----------------------------------------------------------------------------
LEMMA TypeFacts ==
    ASSUME NEW w \in Workers, FinalizerInv(w)
    PROVE  /\ RetryInv /\ TypeOK /\ RetryTypeOK
           /\ Len(history) \in Nat /\ seen[w] \in 1..Len(history)
           /\ cleaning \in [Workers -> 0..incarnations]
           /\ retryPc[w] = "update" => base[w] \in Nat /\ base[w] <= seen[w]
<1>1. RetryInv /\ TypeOK /\ RetryTypeOK
  BY DEF FinalizerInv, RetryInv, TypeOK
<1>2. cleaning \in [Workers -> 0..incarnations]
  BY <1>1 DEF TypeOK
<1>3. Len(history) \in Nat /\ seen[w] \in 1..Len(history) /\ base[w] \in Nat
  BY <1>1 DEF RetryTypeOK
<1> QED  BY <1>1, <1>2, <1>3 DEF FinalizerInv, BaseIsCached

LEMMA FinalizerInvInit ==
    ASSUME NEW w \in Workers PROVE Init => FinalizerInv(w)
<1> SUFFICES ASSUME Init PROVE FinalizerInv(w)
  OBVIOUS
<1>1. RetryInv
  BY RetryInvInit
<1>2. history = <<NoObject>> /\ Len(history) = 1 /\ history[1] = NoObject
  BY DEF Init, RetryInit
<1>3. \A n \in 1..1 : ~Held(n)
  BY <1>2 DEF Held
<1>4. /\ seen[w] = 1 /\ retryPc[w] = "none" /\ cleaning[w] = 0 /\ dirty = {}
  BY DEF Init, RetryInit
<1>5. HeldVersions(w)
  BY <1>2, <1>3, <1>4 DEF HeldVersions
<1> QED  BY <1>1, <1>4, <1>5 DEF FinalizerInv, BaseIsCached, OneThing, CleaningIsLast,
            RemovingIsClean, DirtyIsHeld, InCall

\* The facts about the last version and the one that is written after it.
LEMMA NextVersion ==
    ASSUME RetryInv, NEW o \in Object \cup {NoObject}, Write(o)
    PROVE  /\ Len(history) \in Nat \ {0}
           /\ Len(history') \in {Len(history), Len(history) + 1}
           /\ \A n \in 1..Len(history) : Held(n)' <=> Held(n)
           /\ \A n \in 1..Len(history) : history'[n] = history[n]
           /\ Held(Len(history))' <=> o # NoObject /\ Finalizer \in o.finalizers
           /\ history'[Len(history')] = o
           /\ Latest' = o
<1>1. /\ Len(history') \in {Len(history), Len(history) + 1}
      /\ \A n \in 1..Len(history) : history'[n] = history[n]
      /\ Latest' = o
  BY WriteFacts DEF RetryInv, TypeOK, RetryTypeOK
<1>2. Len(history) \in Nat \ {0}
  BY LatestType DEF RetryInv
<1>3. history'[Len(history')] = o
  BY <1>1 DEF Latest
<1>4. Held(Len(history))' <=> o # NoObject /\ Finalizer \in o.finalizers
  BY <1>3 DEF Held
<1>5. \A n \in 1..Len(history) : Held(n)' <=> Held(n)
  BY <1>1 DEF Held
<1> QED  BY <1>1, <1>2, <1>3, <1>4, <1>5

\* o carries the finalizer exactly if the latest version does, and is no other
\* object then.
Follows(o) ==
    /\ Held(Len(history)) <=> o # NoObject /\ Finalizer \in o.finalizers
    /\ Held(Len(history)) => /\ o.uid = Latest.uid
                             /\ Latest.deleting => o.deleting

LEMMA FollowingVersion ==
    ASSUME NEW w \in Workers, RetryInv, HeldVersions(w),
           NEW o \in Object \cup {NoObject}, Write(o), Follows(o), seen'[w] = seen[w]
    PROVE  HeldVersions(w)'
<1> DEFINE L == Len(history)
           M == Len(history')
<1>1. /\ L \in Nat \ {0}
      /\ M \in {L, L + 1}
      /\ \A n \in 1..L : Held(n)' <=> Held(n)
      /\ \A n \in 1..L : history'[n] = history[n]
      /\ \A n : n = M => (Held(n)' <=> Held(L))
      /\ Held(L) => /\ history'[M].uid = history[L].uid
                    /\ history[L].deleting => history'[M].deleting
      /\ seen[w] \in 1..L
  <2>1. \A n : n = M => (Held(n)' <=> Held(L))
    BY NextVersion DEF Follows, Held
  <2> QED  BY Zenon, <2>1, NextVersion DEF Follows, Latest, RetryInv, TypeOK, RetryTypeOK
<1> SUFFICES ASSUME NEW m \in seen[w]..M, NEW n \in m..M, Held(m)'
             PROVE  /\ ~history'[m].deleting => Held(n)'
                    /\ Held(n)' => /\ history'[n].uid = history'[m].uid
                                   /\ history'[m].deleting => history'[n].deleting
  BY DEF HeldVersions
<1>2. CASE n \in 1..L
  BY <1>1, <1>2 DEF HeldVersions
<1>3. CASE n \notin 1..L
  <2>1. n = M
    BY <1>1, <1>3
  <2>2. CASE m = M
    BY <2>1, <2>2
  <2>3. CASE m # M
    <3>1. m \in seen[w]..L /\ L \in m..L /\ m \in 1..L
      BY <1>1, <2>3
    <3>2. /\ ~history[m].deleting => Held(L)
          /\ Held(L) => /\ history[L].uid = history[m].uid
                        /\ history[m].deleting => history[L].deleting
      BY <1>1, <3>1 DEF HeldVersions
    <3> QED  BY <1>1, <2>1, <3>1, <3>2
  <2> QED  BY <2>2, <2>3
<1> QED  BY <1>2, <1>3

\* A write of a user or of another controller.
LEMMA FollowingInv ==
    ASSUME NEW w \in Workers, FinalizerInv(w), RetryInv',
           NEW o \in Object \cup {NoObject}, Write(o), Follows(o),
           UNCHANGED <<seen, callVars, workVars>>
    PROVE  FinalizerInv(w)'
<1> DEFINE L == Len(history)
           M == Len(history')
<1>1. /\ L \in Nat \ {0}
      /\ M \in {L, L + 1}
      /\ \A n \in 1..L : Held(n)' <=> Held(n)
      /\ \A n \in 1..L : history'[n] = history[n]
      /\ \A n : n = M => (Held(n)' <=> Held(L))
      /\ Held(L) => /\ history'[M].uid = history[L].uid
                    /\ history[L].deleting => history'[M].deleting
      /\ seen[w] \in 1..L
  <2>1. \A n : n = M => (Held(n)' <=> Held(L))
    BY NextVersion DEF Follows, Held, FinalizerInv
  <2> QED  BY Zenon, <2>1, NextVersion DEF Follows, Latest, FinalizerInv, RetryInv, TypeOK,
              RetryTypeOK
<1>2. BaseIsCached(w)' /\ OneThing(w)'
  BY DEF FinalizerInv, BaseIsCached, OneThing, callVars, workVars
<1> SUFFICES ASSUME useFinalizer
             PROVE  /\ HeldVersions(w)'
                    /\ CleaningIsLast(w)'
                    /\ RemovingIsClean(w)'
                    /\ DirtyIsHeld'
  BY <1>2 DEF FinalizerInv, workVars
<1>3. HeldVersions(w)'
  BY Zenon, FollowingVersion DEF FinalizerInv
<1>4. \A n \in seen[w]..M :
          \/ n \in seen[w]..L /\ (Held(n)' <=> Held(n)) /\ history'[n] = history[n]
          \/ /\ Held(n)' <=> Held(L)
             /\ L \in seen[w]..L
             /\ Held(L) => /\ history'[n].uid = history[L].uid
                           /\ history[L].deleting => history'[n].deleting
  BY <1>1
<1>5. CleaningIsLast(w)'
  <2>1. cleaning' = cleaning /\ seen' = seen
    BY DEF workVars
  <2>2. CASE cleaning[w] = 0
    BY <2>1, <2>2 DEF CleaningIsLast
  <2>3. CASE cleaning[w] # 0
    <3>1. \A n \in seen[w]..L :
              Held(n) => history[n].deleting /\ history[n].uid = cleaning[w]
      BY <2>3 DEF FinalizerInv, CleaningIsLast
    <3> QED  BY <1>4, <2>1, <3>1 DEF CleaningIsLast
  <2> QED  BY <2>2, <2>3
<1>6. RemovingIsClean(w)'
  <2>1. /\ seen' = seen /\ dirty' = dirty /\ mutation' = mutation
        /\ retryPc' = retryPc
    BY DEF workVars, callVars
  <2>2. CASE InCall(w) /\ mutation[w].op = "remove"
    <3>1. dirty = {} /\ \A n \in seen[w]..L : Held(n) => history[n].deleting
      BY <2>2 DEF FinalizerInv, RemovingIsClean
    <3> QED  BY Zenon, <1>4, <2>1, <3>1 DEF RemovingIsClean
  <2>3. CASE ~(InCall(w) /\ mutation[w].op = "remove")
    BY <2>1, <2>3 DEF RemovingIsClean, InCall
  <2> QED  BY <2>2, <2>3
<1>7. DirtyIsHeld'
  <2>1. Latest' = o /\ (Held(L)' <=> o # NoObject /\ Finalizer \in o.finalizers)
    BY NextVersion DEF FinalizerInv
  <2> QED  BY <2>1 DEF DirtyIsHeld, FinalizerInv, Follows, workVars
<1> QED  BY <1>3, <1>5, <1>6, <1>7

\* Only the removal takes the finalizer away.
LEMMA MutatedVersion ==
    ASSUME NEW m \in Mutation, NEW o \in Object
    PROVE  LET x == Stored(Mutate(m, o)) IN
           /\ x \in Object \cup {NoObject}
           /\ x # NoObject => x.uid = o.uid /\ x.deleting = o.deleting
           /\ m.op # "remove" /\ Finalizer \in o.finalizers =>
                  x # NoObject /\ Finalizer \in x.finalizers
<1>1. /\ Mutate(m, o) \in Object
      /\ Mutate(m, o).uid = o.uid
      /\ Mutate(m, o).deleting = o.deleting
  BY MutateType
<1>2. m.op # "remove" /\ Finalizer \in o.finalizers =>
          Finalizer \in Mutate(m, o).finalizers
  BY DEF Mutate, Mutation, Object
<1> QED  BY <1>1, <1>2, ObjectAssumption DEF Stored

LEMMA AcceptFinalizerInv ==
    ASSUME NEW w \in Workers, FinalizerInv(w), RetryInv', NEW a, Accept(w, a),
           UNCHANGED workVars
    PROVE  FinalizerInv(w)'
<1> DEFINE o == Stored(Mutate(mutation[w], Latest))
           L == Len(history)
           M == Len(history')
<1>1. /\ mutation[w] \in Mutation
      /\ Latest \in Object
      /\ base[w] = Len(history)
      /\ Write(o)
  BY AcceptFacts DEF FinalizerInv
<1>2. /\ o \in Object \cup {NoObject}
      /\ o # NoObject => o.uid = Latest.uid /\ o.deleting = Latest.deleting
      /\ mutation[w].op # "remove" /\ Held(L) =>
             o # NoObject /\ Finalizer \in o.finalizers
  BY Zenon, <1>1, MutatedVersion DEF Held, Latest
<1> HIDE DEF o
<1>3. /\ L \in Nat \ {0}
      /\ M \in {L, L + 1}
      /\ \A n \in 1..L : Held(n)' <=> Held(n)
      /\ \A n \in 1..L : history'[n] = history[n]
      /\ Held(L)' <=> o # NoObject /\ Finalizer \in o.finalizers
      /\ history'[M] = o
      /\ Latest' = o
  BY Zenon, <1>1, <1>2, NextVersion DEF FinalizerInv
<1>4. \A n : n = M => (Held(n)' <=> o # NoObject /\ Finalizer \in o.finalizers)
  BY Zenon, <1>3 DEF Held
<1>5. seen[w] = L /\ seen'[w] = L
  <2>1. seen[w] \in 1..L /\ base[w] <= seen[w]
    BY Zenon DEF FinalizerInv, BaseIsCached, RetryInv, TypeOK, RetryTypeOK, Accept
  <2> QED  BY <1>1, <1>3, <2>1 DEF Accept
<1>6. retryPc'[w] = "return" /\ cleaning'[w] = 0 /\ dirty' = dirty
      /\ useFinalizer' = useFinalizer
  <2>1. cleaning[w] = 0
    BY DEF FinalizerInv, OneThing, Accept
  <2> QED  BY <2>1 DEF Accept, Return, FinalizerInv, RetryInv, TypeOK, RetryTypeOK,
              workVars
<1>7. BaseIsCached(w)' /\ OneThing(w)' /\ CleaningIsLast(w)' /\ RemovingIsClean(w)'
  BY Zenon, <1>6 DEF BaseIsCached, OneThing, CleaningIsLast, RemovingIsClean, InCall
<1>8. useFinalizer /\ mutation[w].op = "remove" =>
          dirty = {} /\ (Held(L) => Latest.deleting)
  <2>1. L \in seen[w]..L
    BY <1>3, <1>5
  <2> QED  BY <2>1 DEF FinalizerInv, RemovingIsClean, InCall, Accept, Latest
<1>9. useFinalizer => HeldVersions(w)'
  <2> SUFFICES ASSUME useFinalizer, NEW m \in L..M, NEW n \in m..M, Held(m)'
               PROVE  /\ ~history'[m].deleting => Held(n)'
                      /\ Held(n)' => /\ history'[n].uid = history'[m].uid
                                     /\ history'[m].deleting => history'[n].deleting
    BY Zenon, <1>5 DEF HeldVersions
  <2>1. CASE m = n
    BY <2>1
  <2>2. CASE m # n
    <3>1. m = L /\ n = M
      BY <1>3, <2>2
    <3>2. Held(L) /\ history'[m] = Latest
      BY <1>3, <3>1 DEF Latest
    <3>3. ~Latest.deleting => Held(n)'
      BY Zenon, <1>2, <1>4, <1>8, <3>1, <3>2
    <3> QED  BY <1>2, <1>3, <1>4, <3>1, <3>2, <3>3
  <2> QED  BY Zenon, <2>1, <2>2
<1>10. useFinalizer => DirtyIsHeld'
  BY Zenon, <1>2, <1>3, <1>6, <1>8 DEF FinalizerInv, DirtyIsHeld
<1> QED  BY <1>6, <1>7, <1>9, <1>10 DEF FinalizerInv

\* Steps that write nothing, start no removal and leave what is to be cleaned up.
LEMMA QuietFinalizerInv ==
    ASSUME NEW w \in Workers, FinalizerInv(w), RetryInv',
           UNCHANGED <<history, useFinalizer, dirty>>,
           seen'[w] \in seen[w]..Len(history),
           cleaning'[w] \in {0, cleaning[w]},
           BaseIsCached(w)', OneThing(w)',
           InCall(w)' /\ mutation'[w].op = "remove" =>
               InCall(w) /\ mutation[w].op = "remove"
    PROVE  FinalizerInv(w)'
<1>1. /\ Len(history) \in Nat /\ seen[w] \in 1..Len(history)
      /\ Len(history') = Len(history)
  BY DEF FinalizerInv, RetryInv, TypeOK, RetryTypeOK
<1>2. \A n : Held(n)' <=> Held(n)
  BY DEF Held
<1>3. \A n \in seen'[w]..Len(history) : n \in seen[w]..Len(history)
  BY <1>1
<1>4. useFinalizer => HeldVersions(w)'
  <2> SUFFICES ASSUME useFinalizer, NEW m \in seen'[w]..Len(history),
                      NEW n \in m..Len(history), Held(m)
               PROVE  /\ ~history[m].deleting => Held(n)
                      /\ Held(n) => /\ history[n].uid = history[m].uid
                                    /\ history[m].deleting => history[n].deleting
    BY <1>1, <1>2 DEF HeldVersions
  <2> QED  BY Zenon, <1>3 DEF FinalizerInv, HeldVersions
<1>5. useFinalizer => CleaningIsLast(w)'
  BY Zenon, <1>1, <1>2, <1>3 DEF FinalizerInv, CleaningIsLast
<1>6. useFinalizer => RemovingIsClean(w)'
  BY Zenon, <1>1, <1>2, <1>3 DEF FinalizerInv, RemovingIsClean
<1>7. useFinalizer => DirtyIsHeld'
  BY <1>2 DEF FinalizerInv, DirtyIsHeld, Latest
<1> QED  BY Zenon, <1>4, <1>5, <1>6, <1>7 DEF FinalizerInv

LEMMA ReconcileFinalizerInv ==
    ASSUME NEW w \in Workers, FinalizerInv(w), RetryInv',
           \/ ReconcileNotFound(w) \/ ReconcileFinalizes(w) \/ ReconcileAdds(w)
           \/ ReconcileMain(w) \/ Finalize(w) \/ ReconcileReturns(w)
    PROVE  FinalizerInv(w)'
<1>1. /\ RetryInv /\ TypeOK /\ RetryTypeOK
      /\ Len(history) \in Nat /\ seen[w] \in 1..Len(history)
      /\ cleaning \in [Workers -> 0..incarnations]
  BY TypeFacts
<1>2. /\ UNCHANGED <<history, seen, useFinalizer>>
      /\ seen'[w] \in seen[w]..Len(history)
  <2>1. UNCHANGED <<history, seen, useFinalizer>>
    BY Zenon DEF ReconcileNotFound, ReconcileFinalizes, ReconcileAdds, ReconcileMain,
       Finalize, ReconcileReturns, TakeKey, Resume, apiVars
  <2> QED  BY SMTT(30), <1>1, <2>1
<1>3. \A n : Held(n)' <=> Held(n)
  BY <1>2 DEF Held
<1>4. Cached(w) = history[seen[w]] /\ seen[w] \in seen[w]..Len(history)
      /\ Len(history) \in seen[w]..Len(history)
  BY <1>1 DEF Cached
<1>5. HeldVersions(w) => HeldVersions(w)'
  BY SMTT(30), <1>2, <1>3 DEF HeldVersions
<1>6. CASE ReconcileNotFound(w)
  <2>1. UNCHANGED <<dirty, cleaning, retryPc, mutation, base>>
    BY <1>6 DEF ReconcileNotFound, callVars
  <2> QED  BY Zenon, <1>2, <2>1, QuietFinalizerInv DEF FinalizerInv, BaseIsCached, OneThing,
              InCall
<1>7. CASE ReconcileFinalizes(w)
  <2>1. /\ retryPc[w] = "none" /\ UNCHANGED <<dirty, retryPc, mutation, base>>
        /\ cleaning'[w] = Cached(w).uid
        /\ Cached(w) # NoObject /\ Cached(w).deleting /\ Held(seen[w])
    BY Zenon, <1>1, <1>4, <1>7 DEF ReconcileFinalizes, TakeKey, Idle, FinalizeNeeded, callVars,
       Held
  <2>2. BaseIsCached(w)' /\ OneThing(w)' /\ RemovingIsClean(w)'
    BY Zenon, <2>1 DEF BaseIsCached, OneThing, RemovingIsClean, InCall
  <2>3. useFinalizer => CleaningIsLast(w)'
    <3>1. useFinalizer => HeldVersions(w)
      BY Zenon DEF FinalizerInv
    <3>2. useFinalizer =>
              \A n \in seen[w]..Len(history) :
                  Held(n) => history[n].uid = Cached(w).uid /\ history[n].deleting
      BY <1>4, <2>1, <3>1 DEF HeldVersions
    <3> QED  BY Zenon, <1>2, <1>3, <2>1, <3>2 DEF CleaningIsLast
  <2>4. useFinalizer => DirtyIsHeld'
    BY Zenon, <1>2, <1>3, <2>1 DEF FinalizerInv, DirtyIsHeld, Latest
  <2> QED  BY Zenon, <1>2, <1>5, <2>2, <2>3, <2>4 DEF FinalizerInv
<1>8. CASE ReconcileAdds(w)
  <2>1. /\ cleaning[w] = 0 /\ UNCHANGED <<dirty, cleaning>>
        /\ retryPc'[w] = "get" /\ mutation'[w].op = "add"
    BY <1>1, <1>8 DEF ReconcileAdds, TakeKey, Idle, Add, StartCall, RetryTypeOK
  <2> QED  BY Zenon, <1>2, <2>1, QuietFinalizerInv DEF BaseIsCached, OneThing
<1>9. CASE ReconcileMain(w)
  <2>1. /\ retryPc[w] = "none" /\ cleaning[w] = 0 /\ UNCHANGED cleaning
        /\ retryPc'[w] = "none" \/ (retryPc'[w] = "get" /\ mutation'[w].op # "remove")
        /\ dirty' = dirty \cup {Cached(w).uid}
        /\ useFinalizer => Held(seen[w]) /\ ~Cached(w).deleting
    <3>1. /\ Idle(w) /\ UNCHANGED cleaning /\ dirty' = dirty \cup {Cached(w).uid}
          /\ useFinalizer => Held(seen[w]) /\ ~Cached(w).deleting
      BY Zenon, <1>4, <1>9 DEF ReconcileMain, TakeKey, FinalizeNeeded, Held
    <3> DEFINE m == [op |-> "conditions",
                     conditions |-> [Cached(w).conditions EXCEPT !["Available"] = "True"]]
    <3>2. StartCall(w, m) \/ UNCHANGED callVars
      BY Zenon, <1>9 DEF ReconcileMain
    <3>3. m.op # "remove"
      BY Zenon
    <3> HIDE DEF m
    <3>4. retryPc'[w] = retryPc[w] \/ (retryPc'[w] = "get" /\ mutation'[w] = m)
      BY <1>1, <3>2 DEF StartCall, RetryTypeOK, callVars
    <3> QED  BY Zenon, <3>1, <3>3, <3>4 DEF Idle
  <2>2. /\ BaseIsCached(w)' /\ OneThing(w)' /\ CleaningIsLast(w)'
        /\ RemovingIsClean(w)'
    BY Zenon, <2>1 DEF BaseIsCached, OneThing, CleaningIsLast, RemovingIsClean, InCall
  <2>3. useFinalizer =>
            Held(Len(history)) /\ history[Len(history)].uid = Cached(w).uid
    <3>1. useFinalizer => HeldVersions(w)
      BY Zenon DEF FinalizerInv
    <3> QED  BY ZenonT(30), <1>4, <2>1, <3>1 DEF HeldVersions
  <2>4. useFinalizer => DirtyIsHeld'
    BY Zenon, <1>2, <1>3, <2>1, <2>3 DEF FinalizerInv, DirtyIsHeld, Latest
  <2> QED  BY Zenon, <1>2, <1>5, <2>2, <2>4 DEF FinalizerInv
<1>10. CASE Finalize(w)
  <2>1. /\ cleaning[w] # 0 /\ cleaning'[w] = 0 /\ dirty' = dirty \ {cleaning[w]}
        /\ retryPc'[w] = "get"
    BY Zenon, <1>1, <1>10 DEF Finalize, StartCall, RetryTypeOK
  <2>2. BaseIsCached(w)' /\ OneThing(w)' /\ CleaningIsLast(w)'
    BY Zenon, <2>1 DEF BaseIsCached, OneThing, CleaningIsLast
  <2>3. useFinalizer =>
            \A n \in seen[w]..Len(history) :
                Held(n) => history[n].deleting /\ history[n].uid = cleaning[w]
    BY Zenon, <2>1 DEF FinalizerInv, CleaningIsLast
  <2>4. useFinalizer => dirty' = {}
    BY Zenon, <1>4, <2>1, <2>3 DEF FinalizerInv, DirtyIsHeld, Latest
  <2>5. useFinalizer => RemovingIsClean(w)' /\ DirtyIsHeld'
    BY ZenonT(30), <1>2, <1>3, <2>3, <2>4 DEF RemovingIsClean, DirtyIsHeld
  <2> QED  BY Zenon, <1>2, <1>5, <2>2, <2>5 DEF FinalizerInv
<1>11. CASE ReconcileReturns(w)
  <2>1. /\ UNCHANGED <<dirty, cleaning>> /\ retryPc'[w] = "none"
    BY Zenon, <1>1, <1>11 DEF ReconcileReturns, Resume, RetryTypeOK
  <2> QED  BY Zenon, <1>2, <2>1, QuietFinalizerInv DEF BaseIsCached, OneThing, InCall
<1> QED  BY <1>6, <1>7, <1>8, <1>9, <1>10, <1>11

LEMMA CallFinalizerInv ==
    ASSUME NEW w \in Workers, FinalizerInv(w), RetryInv', UNCHANGED workVars,
           \/ Get(w) \/ GetNotFound(w) \/ UpdateConflicts(w)
           \/ UpdateRejected(w) \/ CallFails(w)
    PROVE  FinalizerInv(w)'
<1>1. RetryTypeOK /\ Len(history) \in Nat /\ seen[w] \in 1..Len(history)
  BY TypeFacts
<1>2. /\ UNCHANGED <<history, seen, useFinalizer, dirty, cleaning>>
      /\ seen'[w] \in seen[w]..Len(history)
      /\ InCall(w)
  <2>1. UNCHANGED <<history, seen, useFinalizer, dirty, cleaning>> /\ InCall(w)
    BY Zenon DEF Get, GetNotFound, UpdateConflicts, UpdateRejected, CallFails, apiVars,
       workVars, InCall
  <2> QED  BY SMTT(30), <1>1, <2>1
<1>3. cleaning[w] = 0 /\ OneThing(w)'
  BY Zenon, <1>2 DEF FinalizerInv, OneThing, InCall
<1>4. CASE Get(w)
  <2>1. retryPc[w] = "get" /\ base'[w] = seen[w] /\ mutation' = mutation
    BY <1>1, <1>4 DEF Get, RetryTypeOK
  <2>2. BaseIsCached(w)'
    BY SMTT(30), <1>1, <1>2, <2>1 DEF BaseIsCached
  <2> QED  BY Zenon, <1>2, <1>3, <2>1, <2>2, QuietFinalizerInv
<1>5. CASE retryPc'[w] = "return"
  BY Zenon, <1>2, <1>3, <1>5, QuietFinalizerInv DEF BaseIsCached, InCall
<1>6. CASE retryPc'[w] = "get" /\ mutation' = mutation
  BY Zenon, <1>2, <1>3, <1>6, QuietFinalizerInv DEF BaseIsCached, InCall
<1>7. ASSUME Return(w, "error", "return")
      PROVE  retryPc'[w] = "return"
  BY <1>1, <1>7 DEF Return, RetryTypeOK
<1>8. CASE UpdateConflicts(w)
  <2>1. CASE tries[w] + 1 = MaxTries
    BY Zenon, <1>5, <1>7, <1>8, <2>1 DEF UpdateConflicts
  <2>2. CASE tries[w] + 1 # MaxTries
    BY <1>1, <1>6, <1>8, <2>2 DEF UpdateConflicts, RetryTypeOK
  <2> QED  BY <2>1, <2>2
<1> QED  BY Zenon, <1>4, <1>5, <1>7, <1>8 DEF GetNotFound, UpdateRejected, CallFails

LEMMA ProcessFinalizerInv ==
    ASSUME NEW w \in Workers, FinalizerInv(w), RetryInv',
           Watch(w) \/ CleanupFails(w) \/ Relist(w) \/ ProcessRestarts(w)
    PROVE  FinalizerInv(w)'
<1>1. /\ RetryTypeOK /\ Len(history) \in Nat /\ seen[w] \in 1..Len(history)
      /\ cleaning \in [Workers -> 0..incarnations]
      /\ retryPc[w] = "update" => base[w] \in Nat /\ base[w] <= seen[w]
  BY Zenon, TypeFacts
<1>2. UNCHANGED <<history, useFinalizer, dirty>>
  BY Zenon DEF Watch, CleanupFails, Relist, ProcessRestarts, CacheUpdate, WorkerRestarts,
     apiVars
<1>3. ASSUME NEW n \in seen[w]..Len(history), CacheUpdate(w, n)
      PROVE  FinalizerInv(w)'
  <2>1. seen'[w] = n /\ UNCHANGED <<callVars, cleaning>>
    BY Zenon, <1>1, <1>3 DEF CacheUpdate, RetryTypeOK
  <2>2. OneThing(w)' /\ retryPc' = retryPc /\ base' = base
    BY Zenon, <2>1 DEF OneThing, FinalizerInv, callVars
  <2>3. BaseIsCached(w)'
    BY <1>1, <2>1, <2>2 DEF BaseIsCached
  <2> QED  BY Zenon, <1>2, <2>1, <2>2, <2>3, QuietFinalizerInv DEF InCall, callVars
<1>4. CASE Watch(w)
  BY SMTT(30), <1>1, <1>3, <1>4 DEF Watch
<1>5. CASE Relist(w)
  <2>1. PICK n \in seen[w] + 2..Len(history) : CacheUpdate(w, n)
    BY Zenon, <1>5 DEF Relist
  <2>2. n \in seen[w]..Len(history)
    BY SMTT(30), <1>1, <2>1
  <2> QED  BY <1>3, <2>1, <2>2
<1>6. CASE CleanupFails(w)
  <2>1. cleaning'[w] = 0 /\ UNCHANGED <<seen, callVars>>
    BY Zenon, <1>1, <1>6 DEF CleanupFails, apiVars
  <2>2. BaseIsCached(w)' /\ OneThing(w)' /\ seen'[w] \in seen[w]..Len(history)
    BY SMTT(30), <1>1, <2>1 DEF BaseIsCached, OneThing, FinalizerInv, callVars
  <2> QED  BY Zenon, <1>2, <2>1, <2>2, QuietFinalizerInv DEF InCall, callVars
<1>7. CASE ProcessRestarts(w)
  <2>1. /\ cleaning'[w] = 0 /\ seen'[w] = Len(history) /\ retryPc'[w] = "none"
    BY Zenon, <1>1, <1>7 DEF ProcessRestarts, WorkerRestarts, Return, RetryTypeOK
  <2>2. BaseIsCached(w)' /\ OneThing(w)' /\ seen'[w] \in seen[w]..Len(history)
    BY SMTT(30), <1>1, <2>1 DEF BaseIsCached, OneThing
  <2> QED  BY Zenon, <1>2, <2>1, <2>2, QuietFinalizerInv DEF InCall
<1> QED  BY Zenon, <1>4, <1>5, <1>6, <1>7

LEMMA FinalizerInvNext ==
    ASSUME NEW w, Workers = {w}
    PROVE  FinalizerInv(w) /\ [Next]_vars => FinalizerInv(w)'
<1> SUFFICES ASSUME FinalizerInv(w), [Next]_vars PROVE FinalizerInv(w)'
  OBVIOUS
<1>1. w \in Workers /\ RetryInv /\ RetryInv'
  BY RetryInvNext DEF FinalizerInv
<1>2. CASE WorkerStep(w)
  <2>1. CASE RetryStep(w)
    BY <1>1, <2>1, CallFinalizerInv, AcceptFinalizerInv DEF RetryStep, UpdateSucceeds
  <2> QED  BY <1>1, <1>2, <2>1, ReconcileFinalizerInv DEF WorkerStep
<1>3. CASE FaultyCall(w)
  BY <1>1, <1>3, CallFinalizerInv, AcceptFinalizerInv DEF FaultyCall, ResponseLost
<1>4. CASE CreateObject
  <2>1. PICK spec \in Specs : Write(New(incarnations + 1, spec))
    BY <1>4 DEF CreateObject
  <2>2. New(incarnations + 1, spec) \in Object
    BY <1>1, NewType, FederationAssumption DEF RetryInv, TypeOK
  <2>3. Finalizer \notin New(incarnations + 1, spec).finalizers
    BY DEF New
  <2>4. ~Held(Len(history))
    BY <1>4 DEF CreateObject, Held, Latest
  <2>5. Follows(New(incarnations + 1, spec))
    BY <2>3, <2>4 DEF Follows
  <2> QED  BY <1>1, <1>4, <2>1, <2>2, <2>5, FollowingInv DEF CreateObject
<1>5. CASE EditObject \/ ReleaseObject
  <2>1. PICK o \in Edited(Latest) \cup {Released(Latest)} : Write(o)
    BY Zenon, <1>5 DEF EditObject, ReleaseObject
  <2>2. Latest # NoObject /\ Latest \in Object
    BY <1>1, <1>5, LatestType DEF EditObject, ReleaseObject, RetryInv
  <2>3. LeftOrGone(Latest, o)
    BY Zenon, <2>2, EditedLeft
  <2>4. o \in Object \cup {NoObject} /\ Follows(o)
    BY Zenon, <2>2, <2>3, ObjectAssumption DEF LeftOrGone, LeftAs, Follows, Held, Latest
  <2>5. UNCHANGED <<seen, callVars, workVars>>
    BY Zenon, <1>5 DEF EditObject, ReleaseObject
  <2> QED  BY Zenon, <1>1, <2>1, <2>4, <2>5, FollowingInv
<1>6. CASE UNCHANGED vars
  <2>1. UNCHANGED <<history, seen, useFinalizer, dirty, cleaning, retryPc, base, mutation>>
    BY Zenon, <1>6 DEF vars, apiVars, callVars, workVars
  <2>2. seen'[w] \in seen[w]..Len(history)
    BY <1>1, <2>1, TypeFacts
  <2>3. BaseIsCached(w)' /\ OneThing(w)'
    BY Zenon, <2>1 DEF FinalizerInv, BaseIsCached, OneThing
  <2> QED  BY Zenon, <1>1, <2>1, <2>2, <2>3, QuietFinalizerInv DEF InCall
<1>7. ASSUME NEW v \in Workers
      PROVE  v = w
  OBVIOUS
<1> QED  BY <1>1, <1>2, <1>3, <1>4, <1>5, <1>6, <1>7, ProcessFinalizerInv DEF Next

\* With one replica of the controller, no object for which the main logic has run
\* is gone, or loses the finalizer, before a cleanup of it has succeeded.
THEOREM FinalizerHolds ==
    ASSUME NEW w, Workers = {w}
    PROVE  Spec => []NothingIsLeftBehind
<1>1. Init => FinalizerInv(w)
  BY FinalizerInvInit
<1>2. FinalizerInv(w) /\ [Next]_vars => FinalizerInv(w)'
  BY Zenon, FinalizerInvNext
<1>3. FinalizerInv(w) => NothingIsLeftBehind
  BY DEF FinalizerInv, DirtyIsHeld, NothingIsLeftBehind, Held, Latest
<1> QED  BY <1>1, <1>2, <1>3, PTL DEF Spec

=============================================================================
