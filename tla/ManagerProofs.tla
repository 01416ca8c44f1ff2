---------------------------- MODULE ManagerProofs ----------------------------
(***************************************************************************)
(* Lemmas about the config factories and the reconcilers: the resources    *)
(* that a factory returns have different keys, every import without a      *)
(* local Service gets a ServiceEntry, and the calls of a Reconcile lead    *)
(* from whatever the API server has to what the factory returned.          *)
(***************************************************************************)
EXTENDS ReconcilerManager, WellFoundedInduction, TLAPS

-----------------------------------------------------------------------------
(* Numbers and sequences.                                                  *)

\* A nonempty set of natural numbers has a least element.
LEMMA LeastNat ==
    ASSUME NEW S, S \subseteq Nat, S # {}
    PROVE  \E m \in S : \A n \in S : m <= n
<1> DEFINE R == OpToRel(<, Nat)
<1>1. IsWellFoundedOn(R, Nat)
  BY NatLessThanWellFounded
<1>2. \A x, y \in Nat : x < y => <<x, y>> \in R
  BY DEF OpToRel
<1> HIDE DEF R
<1>3. PICK m \in S : \A n \in S : ~(<<n, m>> \in R)
  BY <1>1, WFMin, Zenon
<1>4. \A n \in S : m <= n
  <2> TAKE n \in S
  <2>1. n \in Nat /\ m \in Nat
    OBVIOUS
  <2>2. ~(n < m)
    BY <1>2, <1>3, <2>1, Zenon
  <2> QED
    BY <2>1, <2>2
<1> QED
  BY <1>3, <1>4

\* A nonempty set of natural numbers that has an upper bound has a greatest
\* element.
LEMMA GreatestNat ==
    ASSUME NEW S, NEW N \in Nat, S \subseteq 0..N, S # {}
    PROVE  \E m \in S : \A n \in S : n <= m
<1> DEFINE T == {N - n : n \in S}
<1>1. T \subseteq Nat /\ T # {}
  <2>1. \A n \in S : N - n \in Nat
    OBVIOUS
  <2> QED
    BY <2>1, Zenon
<1>2. PICK t \in T : \A u \in T : t <= u
  BY <1>1, LeastNat, Zenon
<1>3. PICK m \in S : t = N - m
  BY <1>2
<1>4. ASSUME NEW n \in S PROVE n <= m
  <2>1. N - n \in T
    OBVIOUS
  <2>2. t <= N - n
    BY <1>2, <2>1
  <2> QED
    BY <1>3, <2>2
<1> QED
  BY <1>3, <1>4

\* Concatenation with a given prefix is one to one.
LEMMA ConcatInjective ==
    ASSUME NEW S, NEW p \in Seq(S), NEW m \in Seq(S), NEW n \in Seq(S),
           p \o m = p \o n
    PROVE  m = n
<1>1. Len(m) = Len(n)
  <2>1. Len(p \o m) = Len(p) + Len(m) /\ Len(p \o n) = Len(p) + Len(n)
    OBVIOUS
  <2> QED
    BY <2>1
<1>2. ASSUME NEW j \in 1..Len(m) PROVE m[j] = n[j]
  <2>1. (p \o m)[Len(p) + j] = m[j]
    OBVIOUS
  <2>2. (p \o n)[Len(p) + j] = n[j]
    BY <1>1
  <2> QED
    BY <2>1, <2>2
<1> QED
  BY <1>1, <1>2

LEMMA ElementType ==
    ASSUME NEW S, NEW s \in Seq(S), NEW j \in DOMAIN s
    PROVE  s[j] \in S
  OBVIOUS

LEMMA ShortSeqs ==
    ASSUME NEW S, NEW a \in S, NEW b \in S, NEW c \in S
    PROVE  /\ <<a>> \in Seq(S) /\ Len(<<a>>) > 0 /\ <<a>>[1] = a
           /\ <<a, b, c>> \in Seq(S) /\ Len(<<a, b, c>>) > 0 /\ <<a, b, c>>[1] = a
<1>1. <<a>> \in Seq(S) /\ Len(<<a>>) > 0 /\ <<a>>[1] = a
  OBVIOUS
<1>2. <<a, b, c>> \in Seq(S) /\ Len(<<a, b, c>>) > 0 /\ <<a, b, c>>[1] = a
  OBVIOUS
<1> QED
  BY <1>1, <1>2, Zenon

\* The first element of a concatenation.
LEMMA ConcatFirst ==
    ASSUME NEW S, NEW p \in Seq(S), NEW n \in Seq(S), Len(p) > 0
    PROVE  p \o n \in Seq(S) /\ Len(p \o n) > 0 /\ (p \o n)[1] = p[1]
<1>1. p \o n \in Seq(S) /\ Len(p \o n) = Len(p) + Len(n)
  OBVIOUS
<1>2. (p \o n)[1] = p[1]
  OBVIOUS
<1> QED
  BY <1>1, <1>2

\* The rest of a sequence.
LEMMA TailRange ==
    ASSUME NEW S, NEW q \in Seq(S), q # <<>>, NEW x \in Range(q), x # Head(q)
    PROVE  x \in Range(Tail(q))
<1>1. PICK j \in 1..Len(q) : x = q[j]
  BY DEF Range
<1>2. j - 1 \in 1..Len(Tail(q)) /\ Tail(q)[j - 1] = x
  BY <1>1
<1>3. DOMAIN Tail(q) = 1..Len(Tail(q))
  OBVIOUS
<1> QED
  BY <1>2, <1>3, Zenon DEF Range

-----------------------------------------------------------------------------
(* What the factories return.                                              *)

\* The map of a reconciler has one resource of every key of the list.
LEMMA OnePerKeyFacts ==
    ASSUME NEW list, NEW d \in OnePerKey(list)
    PROVE  /\ d \subseteq list
           /\ UniqueKeys(d)
           /\ \A r \in list : \E e \in d : e.key = r.key
<1>1. /\ d \subseteq list
      /\ \A r \in list : \E e \in d : \A f \in d : f.key = r.key <=> f = e
  BY Zenon DEF OnePerKey
<1>2. UniqueKeys(d)
  <2> SUFFICES ASSUME NEW r \in d, NEW q \in d, r.key = q.key
               PROVE  r = q
    BY Zenon DEF UniqueKeys
  <2>1. PICK e \in d : \A f \in d : f.key = r.key <=> f = e
    BY <1>1, Zenon
  <2> QED
    BY <2>1, Zenon
<1>3. \A r \in list : \E e \in d : e.key = r.key
  BY <1>1, Zenon
<1> QED
  BY <1>1, <1>2, <1>3, Zenon

\* The same where later remotes win, and a list that is not empty leaves at least
\* one resource.
LEMMA LastRemoteWinsFacts ==
    ASSUME NEW list, NEW d \in LastRemoteWins(list),
           \A e \in list : e.remote \in Peers
    PROVE  UniqueKeys(d) /\ (list # {} => d # {})
<1> DEFINE last == {f \in list : \A g \in list :
                       g.resource.key = f.resource.key => g.remote <= f.remote}
           kept == {e.resource : e \in last}
<1>1. d \in OnePerKey(kept)
  BY Zenon DEF LastRemoteWins
<1>2. ASSUME NEW e \in list PROVE \E f \in last : TRUE
  <2> DEFINE same == {g \in list : g.resource.key = e.resource.key}
             S == {g.remote : g \in same}
  <2>1. Len(Remotes) \in Nat /\ Peers = 1..Len(Remotes)
    BY FactoryAssumption DEF Peers
  <2>2. S \subseteq 0..Len(Remotes) /\ S # {}
    <3>1. Peers \subseteq 0..Len(Remotes)
      BY <2>1
    <3> QED
      BY <3>1, Zenon
  <2>3. PICK m \in S : \A n \in S : n <= m
    BY <2>1, <2>2, GreatestNat, Zenon
  <2>4. PICK f \in same : m = f.remote
    BY <2>3, Zenon
  <2>5. f \in last
    BY <2>3, <2>4, Zenon
  <2> QED
    BY <2>5, Zenon
<1>3. list # {} => kept # {}
  BY <1>2, Zenon
<1> HIDE DEF kept, last
<1> QED
  BY <1>1, <1>3, OnePerKeyFacts, Zenon

\* Names of remotes are sequences of words.
LEMMA RemoteNames ==
    ASSUME NEW r \in Peers
    PROVE  Remotes[r].name \in Seq(STRING) /\ Remotes[r].addresses # <<>>
<1>1. Remotes \in Seq([name : Seq(STRING), router : BOOLEAN,
                       addresses : Seq(STRING) \ {<<>>}])
  BY FactoryAssumption
<1>2. Remotes[r] \in [name : Seq(STRING), router : BOOLEAN,
                      addresses : Seq(STRING) \ {<<>>}]
  BY <1>1, ElementType, Zenon DEF Peers
<1> QED
  BY <1>2

\* The words that names are made of. That a literal is a STRING is beyond the
\* provers.
Words == STRING \cup {"import", "svc", "cluster", "local",
                      "federation", "discovery", "service"}

LEMMA WordSeqs ==
    ASSUME NEW s \in Seq(STRING)
    PROVE  s \in Seq(Words)
<1>1. \A j \in 1..Len(s) : s[j] \in Words
  <2>1. \A j \in 1..Len(s) : s[j] \in STRING
    OBVIOUS
  <2> QED
    BY <2>1, Zenon DEF Words
<1> HIDE DEF Words
<1> QED
  BY <1>1

\* The name of the entry of an import begins with "import", that of the entry of
\* a remote's controller with "federation".
LEMMA EntryNames ==
    ASSUME NEW i, i.hostname \in Services, NEW r \in Peers
    PROVE  EntryName(i, r)[1] = "import"
<1> DEFINE h1 == i.hostname[1]
           h2 == i.hostname[2]
           n == Remotes[r].name
           t == h1 \o h2 \o <<"svc", "cluster", "local">>
           u == <<"import">> \o t
<1>1. h1 \in Seq(Words) /\ h2 \in Seq(Words) /\ n \in Seq(Words)
  <2>1. Services \subseteq Seq(STRING) \X Seq(STRING)
    BY FactoryAssumption, Zenon
  <2>2. i.hostname \in Seq(STRING) \X Seq(STRING)
    BY <2>1, Zenon
  <2>3. h1 \in Seq(STRING) /\ h2 \in Seq(STRING)
    BY <2>2
  <2> QED
    BY <2>3, WordSeqs, RemoteNames, Zenon
<1>2. EntryName(i, r) = u \o n
  BY Zenon DEF EntryName, SeparateWithDash
<1> HIDE DEF h1, h2, n
<1>3. t \in Seq(Words)
  <2>1. h1 \o h2 \in Seq(Words)
    BY <1>1
  <2>2. <<"svc", "cluster", "local">> \in Seq(Words)
    BY ShortSeqs, Zenon DEF Words
  <2> QED
    BY <2>1, <2>2
<1> HIDE DEF t
<1>4. u \in Seq(Words) /\ Len(u) > 0 /\ u[1] = "import"
  <2>1. <<"import">> \in Seq(Words) /\ Len(<<"import">>) > 0 /\ <<"import">>[1] = "import"
    BY ShortSeqs, Zenon DEF Words
  <2> QED
    BY <1>3, <2>1, ConcatFirst, Zenon
<1> HIDE DEF u
<1>5. (u \o n)[1] = u[1]
  BY <1>1, <1>4, ConcatFirst, Zenon
<1> QED
  BY <1>2, <1>4, <1>5, Zenon

RemoteEntryName(r) == <<"federation", "discovery", "service">> \o Remotes[r].name

LEMMA RemoteEntryNames ==
    ASSUME NEW r \in Peers
    PROVE  /\ ServiceEntryForRemote(r).key = <<Local.controlPlane, RemoteEntryName(r)>>
           /\ RemoteEntryName(r)[1] = "federation"
           /\ \A q \in Peers : RemoteEntryName(r) = RemoteEntryName(q) => r = q
<1> DEFINE f == <<"federation", "discovery", "service">>
<1>1. \A q \in Peers : Remotes[q].name \in Seq(Words)
  BY RemoteNames, WordSeqs, Zenon
<1>2. f \in Seq(Words) /\ Len(f) > 0 /\ f[1] = "federation"
  BY ShortSeqs, Zenon DEF Words
<1>3. ServiceEntryForRemote(r).key = <<Local.controlPlane, RemoteEntryName(r)>>
  <2>1. DiscoveryService(Remotes[r].name, IstioSystem)[1] = RemoteEntryName(r)
    BY DEF DiscoveryService, RemoteEntryName
  <2> QED
    BY <2>1, Zenon DEF ServiceEntryForRemote, Resource
<1>4. \A q \in Peers : RemoteEntryName(q) = f \o Remotes[q].name
  BY Zenon DEF RemoteEntryName
<1> HIDE DEF f
<1>5. RemoteEntryName(r)[1] = "federation"
  <2>1. (f \o Remotes[r].name)[1] = f[1]
    BY <1>1, <1>2, ConcatFirst, Zenon
  <2> QED
    BY <1>2, <1>4, <2>1, Zenon
<1>6. ASSUME NEW q \in Peers, RemoteEntryName(r) = RemoteEntryName(q)
      PROVE  r = q
  <2>1. Remotes[r].name = Remotes[q].name
    BY <1>1, <1>2, <1>4, <1>6, ConcatInjective, Zenon
  <2> QED
    BY <2>1, FactoryAssumption, Zenon
<1> QED
  BY <1>3, <1>5, <1>6, Zenon

\* The imports without a local Service are imports of the remotes.
LEMMA MissingType ==
    ASSUME NEW services, NEW imports \in [Peers -> SUBSET FederatedService],
           NEW m \in Missing(services, imports)
    PROVE  m[1].hostname \in Services /\ m[2] \in Peers
<1>1. PICK r \in Peers : m \in {<<i, r>> : i \in {j \in imports[r] :
                                                services[j.hostname] = NoService}}
  BY Zenon DEF Missing
<1>2. PICK i \in imports[r] : m = <<i, r>>
  BY <1>1, Zenon
<1>3. i \in FederatedService
  BY Zenon
<1>4. i.hostname \in Services
  BY <1>3 DEF FederatedService
<1> QED
  BY <1>2, <1>4

\* Every import without a local Service has the key of its name in what the
\* factory of ServiceEntries returns, and all entries are in the namespace of the
\* control plane.
LEMMA ServiceEntriesCover ==
    ASSUME NEW services, NEW imports \in [Peers -> SUBSET FederatedService],
           NEW d \in ServiceEntries(services, imports)
    PROVE  /\ \A q \in d : q.key = <<Local.controlPlane, q.key[2]>>
           /\ \A m \in Missing(services, imports) :
                 \E q \in d : q.key = <<Local.controlPlane, EntryName(m[1], m[2])>>
<1> DEFINE missing == Missing(services, imports)
           remotes == {q \in Peers : Remotes[q].addresses # <<>>}
<1>1. PICK e \in OnePerKey(ImportEntries(missing)) :
          d = {ServiceEntryForRemote(r) : r \in remotes} \cup e
  BY Zenon DEF ServiceEntries
<1> HIDE DEF missing, remotes
<1>2. /\ e \subseteq ImportEntries(missing)
      /\ \A r \in ImportEntries(missing) : \E f \in e : f.key = r.key
  <2> DEFINE list == ImportEntries(missing)
  <2>1. e \in OnePerKey(list)
    OBVIOUS
  <2> HIDE DEF list
  <2>2. e \subseteq list /\ \A r \in list : \E f \in e : f.key = r.key
    BY <2>1, OnePerKeyFacts
  <2> QED
    BY <2>2, Zenon DEF list
<1>3. \A m \in missing : ImportEntry(missing, m).key =
                            <<Local.controlPlane, EntryName(m[1], m[2])>>
  BY Zenon DEF ImportEntry, Resource
<1>4. ASSUME NEW q \in d PROVE q.key = <<Local.controlPlane, q.key[2]>>
  <2>1. CASE q \in e
    <3>1. PICK m \in missing : q = ImportEntry(missing, m)
      BY <1>2, <2>1, Zenon DEF ImportEntries
    <3> QED
      BY <1>3, <3>1
  <2>2. CASE q \in {ServiceEntryForRemote(r) : r \in remotes}
    <3>1. PICK r \in Peers : q = ServiceEntryForRemote(r)
      BY <2>2, Zenon DEF remotes
    <3> QED
      BY <3>1, RemoteEntryNames
  <2> QED
    BY <1>1, <2>1, <2>2, Zenon
<1>5. ASSUME NEW m \in missing
      PROVE  \E q \in d : q.key = <<Local.controlPlane, EntryName(m[1], m[2])>>
  <2> DEFINE same == {o \in missing : SameEntry(m, o)}
             S == {o[2] : o \in same}
  <2>1. \A o \in missing : o[2] \in Nat
    <3>1. Peers \subseteq Nat
      BY FactoryAssumption DEF Peers
    <3> QED
      BY <3>1, MissingType, Zenon DEF missing
  <2>2. S \subseteq Nat /\ S # {}
    BY <2>1, Zenon DEF SameEntry
  <2>3. PICK n \in S : \A k \in S : n <= k
    BY <2>2, LeastNat, Zenon
  <2>4. PICK o \in same : n = o[2]
    BY <2>3, Zenon
  <2>5. \A q \in missing : SameEntry(o, q) => o[2] <= q[2]
    BY <2>3, <2>4, Zenon DEF SameEntry
  <2>6. ImportEntry(missing, o) \in ImportEntries(missing)
    BY <2>4, <2>5, Zenon DEF ImportEntries
  <2>7. PICK f \in e : f.key = ImportEntry(missing, o).key
    BY <1>2, <2>6, Zenon
  <2>8. f.key = <<Local.controlPlane, EntryName(m[1], m[2])>>
    BY <1>3, <2>4, <2>7, Zenon DEF SameEntry
  <2> QED
    BY <1>1, <2>8, Zenon
<1> QED
  BY <1>4, <1>5, Zenon DEF missing

\* No two ServiceEntries have the same key.
LEMMA ServiceEntriesUnique ==
    ASSUME NEW services, NEW imports \in [Peers -> SUBSET FederatedService],
           NEW d \in ServiceEntries(services, imports)
    PROVE  UniqueKeys(d)
<1> DEFINE missing == Missing(services, imports)
           remotes == {q \in Peers : Remotes[q].addresses # <<>>}
           own == {ServiceEntryForRemote(r) : r \in remotes}
<1>1. PICK e \in OnePerKey(ImportEntries(missing)) : d = own \cup e
  BY Zenon DEF ServiceEntries
<1>2. \A m \in missing : m[1].hostname \in Services /\ m[2] \in Peers
  BY MissingType, Zenon
<1> HIDE DEF missing
<1>3. e \subseteq ImportEntries(missing) /\ UniqueKeys(e)
  BY OnePerKeyFacts, Zenon
<1>4. ASSUME NEW x \in e
      PROVE  \E n : x.key = <<Local.controlPlane, n>> /\ n[1] = "import"
  <2>1. PICK m \in missing : x = ImportEntry(missing, m)
    BY <1>3, Zenon DEF ImportEntries
  <2>2. x.key = <<Local.controlPlane, EntryName(m[1], m[2])>>
    BY <2>1, Zenon DEF ImportEntry, Resource
  <2>3. EntryName(m[1], m[2])[1] = "import"
    BY <1>2, EntryNames, Zenon
  <2> QED
    BY <2>2, <2>3, Zenon
<1>5. ASSUME NEW x \in own
      PROVE  \E r \in Peers : /\ x = ServiceEntryForRemote(r)
                              /\ x.key = <<Local.controlPlane, RemoteEntryName(r)>>
                              /\ RemoteEntryName(r)[1] = "federation"
  BY RemoteEntryNames, Zenon
<1> HIDE DEF own
<1>6. ASSUME NEW x \in own, NEW y \in own, x.key = y.key PROVE x = y
  <2>1. PICK r \in Peers : /\ x = ServiceEntryForRemote(r)
                           /\ x.key = <<Local.controlPlane, RemoteEntryName(r)>>
    BY <1>5, Zenon
  <2>2. PICK q \in Peers : /\ y = ServiceEntryForRemote(q)
                           /\ y.key = <<Local.controlPlane, RemoteEntryName(q)>>
    BY <1>5, Zenon
  <2>3. RemoteEntryName(r) = RemoteEntryName(q)
    BY <1>6, <2>1, <2>2
  <2> QED
    BY <2>1, <2>2, <2>3, RemoteEntryNames, Zenon
<1>7. ASSUME NEW x \in own, NEW y \in e PROVE x.key # y.key
  <2>1. PICK r \in Peers : /\ x.key = <<Local.controlPlane, RemoteEntryName(r)>>
                           /\ RemoteEntryName(r)[1] = "federation"
    BY <1>5, Zenon
  <2>2. PICK n : y.key = <<Local.controlPlane, n>> /\ n[1] = "import"
    BY <1>4, Zenon
  <2> QED
    BY <2>1, <2>2
<1>8. ASSUME NEW x \in d, NEW y \in d, x.key = y.key PROVE x = y
  BY <1>1, <1>3, <1>6, <1>7, <1>8, Zenon DEF UniqueKeys
<1> QED
  BY <1>8, Zenon DEF UniqueKeys

\* What the factory of any kind returns has different keys. Of the kinds whose
\* reconciler does nothing for an empty list it is never empty.
LEMMA DesiredFacts ==
    ASSUME NEW all, NEW services, NEW imports \in [Peers -> SUBSET FederatedService], NEW answers,
           NEW k \in Reconcilers, NEW d \in Desired(k, all, services, imports, answers)
    PROVE  UniqueKeys(d) /\ (k \in {"DestinationRule", "EnvoyFilter"} => d # {})
<1>1. CASE k = "Gateway"
  <2>1. d = {IngressGateway(all)}
    BY <1>1 DEF Desired
  <2> QED
    BY <1>1, <2>1 DEF UniqueKeys
<1>2. CASE k = "PeerAuthentication"
  <2>1. PICK x : d = {x}
    <3>1. d \in {p.apply : p \in PeerAuthenticationPlans}
      BY <1>2 DEF Desired
    <3>2. PICK p \in PeerAuthenticationPlans : d = p.apply
      BY <3>1, Zenon
    <3>3. PICK x : p = [apply |-> {x}, delete |-> {}]
      BY Zenon DEF PeerAuthenticationPlans
    <3> QED
      BY <3>2, <3>3
  <2> QED
    BY <1>2, <2>1 DEF UniqueKeys
<1>3. CASE k = "ServiceEntry"
  <2>1. d \in ServiceEntries(services, imports)
    BY <1>3 DEF Desired
  <2> QED
    BY <1>3, <2>1, ServiceEntriesUnique
<1>4. CASE k = "WorkloadEntry"
  <2> DEFINE present == Present(services, imports)
             list(l) == UNION {WorkloadEntriesOf(e[1], e[2], l[e]) : e \in present}
  <2>1. d \in WorkloadEntries(services, imports, answers)
    BY <1>4 DEF Desired
  <2>2. PICK l : d \in LastRemoteWins(list(l))
    BY <2>1, Zenon DEF WorkloadEntries
  <2>3. ASSUME NEW x \in list(l) PROVE x.remote \in Peers
    <3>1. PICK e \in present : x \in WorkloadEntriesOf(e[1], e[2], l[e])
      BY <2>3, Zenon
    <3>2. e[2] \in Peers
      <4>1. PICK r \in Peers : e \in {<<i, r>> : i \in {j \in imports[r] :
                                                services[j.hostname] # NoService}}
        BY Zenon DEF Present
      <4>2. PICK i : e = <<i, r>>
        BY <4>1, Zenon
      <4> QED
        BY <4>2
    <3>3. x.remote = e[2]
      <4>1. PICK y : x = [remote |-> e[2], resource |-> y]
        BY <3>1, Zenon DEF WorkloadEntriesOf
      <4> QED
        BY <4>1
    <3> QED
      BY <3>2, <3>3, Zenon
  <2> HIDE DEF list
  <2> QED
    BY <1>4, <2>2, <2>3, LastRemoteWinsFacts
<1>5. CASE k = "DestinationRule"
  <2> DEFINE list == DestinationRuleList(imports)
  <2>1. d \in LastRemoteWins(list)
    BY <1>5 DEF Desired, DestinationRules
  <2>2. ASSUME NEW x \in list PROVE x.remote \in Peers
    <3>1. PICK r \in Peers : \E y : x = [remote |-> r, resource |-> y]
      BY Zenon DEF DestinationRuleList
    <3> QED
      BY <3>1
  <2>3. list # {}
    <3>1. PICK r \in Peers : Remotes[r].router
      BY <1>5 DEF Reconcilers
    <3>2. PICK x : x \in RemoteRules(imports, r)
      BY Zenon DEF RemoteRules
    <3>3. [remote |-> r, resource |-> x] \in list
      <4> DEFINE of(q) == {[remote |-> q, resource |-> y] : y \in RemoteRules(imports, q)}
                 routers == {q \in Peers : Remotes[q].router}
      <4>1. list = UNION {of(q) : q \in routers}
        BY Zenon DEF DestinationRuleList
      <4>2. r \in routers /\ [remote |-> r, resource |-> x] \in of(r)
        BY <3>1, <3>2, Zenon
      <4> HIDE DEF of, routers, list
      <4> QED
        BY <4>1, <4>2, Zenon
    <3> QED
      BY <3>3, Zenon
  <2> HIDE DEF list
  <2> QED
    BY <2>1, <2>2, <2>3, LastRemoteWinsFacts, Zenon
<1>6. CASE k = "EnvoyFilter"
  <2> DEFINE list == {EnvoyFilter(e[1], e[2]) : e \in ExposedPorts(all)}
  <2>1. d \in OnePerKey(list)
    BY <1>6 DEF Desired, EnvoyFilters, Reconcilers
  <2>2. list # {}
    BY Zenon DEF ExposedPorts
  <2> HIDE DEF list
  <2> QED
    BY <2>1, <2>2, OnePerKeyFacts, Zenon
<1>7. CASE k = "Route"
  <2>1. d \in OnePerKey({Route(e[1], e[2]) : e \in ExposedPorts(all)})
    BY <1>7 DEF Desired, Routes
  <2> QED
    BY <1>7, <2>1, OnePerKeyFacts
<1> QED
  BY <1>1, <1>2, <1>3, <1>4, <1>5, <1>6, <1>7 DEF Reconcilers

\* Which imports need entries follows the existence of the local Services.
LEMMA SameExistence ==
    ASSUME NEW imports \in [Peers -> SUBSET FederatedService], NEW old, NEW new,
           \A t \in Services : old[t] = NoService <=> new[t] = NoService
    PROVE  /\ Missing(new, imports) = Missing(old, imports)
           /\ Present(new, imports) = Present(old, imports)
<1>1. \A r \in Peers : \A i \in imports[r] : i.hostname \in Services
  BY DEF FederatedService
<1> DEFINE missing(st, r) == {<<i, r>> : i \in {j \in imports[r] : st[j.hostname] = NoService}}
           present(st, r) == {<<i, r>> : i \in {j \in imports[r] : st[j.hostname] # NoService}}
           remotes == {q \in Peers : Remotes[q].addresses # <<>>}
<1>2. \A r \in Peers : missing(new, r) = missing(old, r) /\ present(new, r) = present(old, r)
  <2> TAKE r \in Peers
  <2>1. /\ {j \in imports[r] : new[j.hostname] = NoService}
              = {j \in imports[r] : old[j.hostname] = NoService}
        /\ {j \in imports[r] : new[j.hostname] # NoService}
              = {j \in imports[r] : old[j.hostname] # NoService}
    BY <1>1, Zenon
  <2> QED
    BY <2>1, Zenon
<1>3. \A st : /\ Missing(st, imports) = UNION {missing(st, r) : r \in remotes}
             /\ Present(st, imports) = UNION {present(st, r) : r \in Peers}
  BY DEF Missing, Present
<1> HIDE DEF missing, present
<1>4. Missing(new, imports) = Missing(old, imports)
  <2>1. {missing(new, r) : r \in remotes} = {missing(old, r) : r \in remotes}
    BY <1>2, Zenon
  <2> QED
    BY <1>3, <2>1, Zenon
<1>5. Present(new, imports) = Present(old, imports)
  <2>1. {present(new, r) : r \in Peers} = {present(old, r) : r \in Peers}
    BY <1>2, Zenon
  <2> QED
    BY <1>3, <2>1, Zenon
<1> QED
  BY <1>4, <1>5, Zenon

\* The selectors have the numbers from 1 on.
LEMMA SelectorNumbers ==
    /\ Len(GetLabelSelectors) \in Nat
    /\ DOMAIN GetLabelSelectors = 1..Len(GetLabelSelectors)
<1>1. GetLabelSelectors \in Seq(SUBSET Labels)
  BY ExportAssumption DEF GetLabelSelectors
<1> QED
  BY <1>1

\* A Service is exported if some selector matches it.
LEMMA ExportedSelected ==
    ASSUME NEW st, NEW t \in Services
    PROVE  t \in Exported(st) <=> st[t] # NoService /\ Selected(st[t]) # {}
<1>1. Range(GetLabelSelectors) = {GetLabelSelectors[n] : n \in DOMAIN GetLabelSelectors}
  BY Zenon DEF Range
<1>2. MatchExportRules(st[t]) <=>
          \E n \in DOMAIN GetLabelSelectors : Matches(GetLabelSelectors[n], st[t])
  BY <1>1, Zenon DEF MatchExportRules
<1> QED
  BY <1>2, Zenon DEF Exported, Selected

\* What a round of the loop over the selectors finds.
LEMMA ListServicesFacts ==
    ASSUME NEW st, NEW n
    PROVE  /\ \A f \in ListServices(st, n) :
                 /\ f[1] \in Services /\ st[f[1]] # NoService /\ n \in Selected(st[f[1]])
                 /\ f[2] = st[f[1]].ports
           /\ \A t \in Services :
                 st[t] # NoService /\ n \in Selected(st[t]) => t \in Found(ListServices(st, n))
<1> DEFINE match == {t \in Services : st[t] # NoService /\ n \in Selected(st[t])}
<1>1. ListServices(st, n) = {<<t, st[t].ports>> : t \in match}
  BY Zenon DEF ListServices, List
<1>2. ASSUME NEW f \in ListServices(st, n) PROVE f[1] \in match /\ f[2] = st[f[1]].ports
  <2>1. PICK t \in match : f = <<t, st[t].ports>>
    BY <1>1, Zenon
  <2> HIDE DEF match
  <2> QED
    BY <2>1
<1>3. ASSUME NEW t \in match PROVE t \in Found(ListServices(st, n))
  <2>1. <<t, st[t].ports>> \in ListServices(st, n)
    BY <1>1, Zenon
  <2>2. <<t, st[t].ports>>[1] = t
    OBVIOUS
  <2> QED
    BY <2>1, <2>2, Zenon DEF Found
<1> QED
  BY <1>2, <1>3, Zenon

\* What the factory of a kind reads of the Services, the imports and the DNS.
LEMMA DesiredInputs ==
    ASSUME NEW k \in Reconcilers, NEW services, NEW imports, NEW answers,
           NEW services2, NEW imports2, NEW answers2, NEW all, NEW all2,
           k = "Gateway" => Found(all2) = Found(all),
           k \in {"EnvoyFilter", "Route"} => ExposedPorts(all2) = ExposedPorts(all),
           k = "ServiceEntry" => Missing(services2, imports2) = Missing(services, imports),
           k = "WorkloadEntry" => /\ Present(services2, imports2) = Present(services, imports)
                                  /\ answers2 = answers,
           k = "DestinationRule" => imports2 = imports
    PROVE  Desired(k, all2, services2, imports2, answers2) = Desired(k, all, services, imports, answers)
<1> DEFINE new == Desired(k, all2, services2, imports2, answers2)
           old == Desired(k, all, services, imports, answers)
<1>1. CASE k = "Gateway"
  <2>1. old = {{IngressGateway(all)}} /\ new = {{IngressGateway(all2)}}
    BY <1>1 DEF Desired
  <2> QED
    BY <1>1, <2>1, Zenon DEF IngressGateway
<1>2. CASE k = "PeerAuthentication"
  BY <1>2 DEF Desired
<1>3. CASE k = "ServiceEntry"
  <2>1. old = ServiceEntries(services, imports)
        /\ new = ServiceEntries(services2, imports2)
    BY <1>3 DEF Desired
  <2> QED
    BY <1>3, <2>1, Zenon DEF ServiceEntries
<1>4. CASE k = "WorkloadEntry"
  <2>1. old = WorkloadEntries(services, imports, answers)
        /\ new = WorkloadEntries(services2, imports2, answers2)
    BY <1>4 DEF Desired
  <2> DEFINE W(present, a) ==
               UNION {LastRemoteWins(UNION {WorkloadEntriesOf(e[1], e[2], l[e]) : e \in present}) :
                      l \in Lookups(present, a)}
  <2>2. /\ WorkloadEntries(services, imports, answers) = W(Present(services, imports), answers)
        /\ WorkloadEntries(services2, imports2, answers2) = W(Present(services2, imports2), answers2)
    BY Zenon DEF WorkloadEntries
  <2> HIDE DEF W
  <2> QED
    BY <1>4, <2>1, <2>2, Zenon
<1>5. CASE k = "DestinationRule"
  BY <1>5 DEF Desired
<1>6. CASE k = "EnvoyFilter"
  <2>1. old = EnvoyFilters(all) /\ new = EnvoyFilters(all2)
    BY <1>6 DEF Desired
  <2> QED
    BY <1>6, <2>1, Zenon DEF EnvoyFilters
<1>7. CASE k = "Route"
  <2>1. old = Routes(all) /\ new = Routes(all2)
    BY <1>7 DEF Desired
  <2> QED
    BY <1>7, <2>1, Zenon DEF Routes
<1> QED
  BY <1>1, <1>2, <1>3, <1>4, <1>5, <1>6, <1>7 DEF Reconcilers

-----------------------------------------------------------------------------
(* What the calls of a Reconcile lead to.                                  *)

\* The calls that a reconciler derives from what is wanted and what is there lead
\* to what is wanted.
LEMMA SyncReaches ==
    ASSUME NEW k, NEW d, NEW old, UniqueKeys(d), UniqueKeys(old)
    PROVE  Reaches(k, Sync(d, old), old, d)
<1> DEFINE p == Sync(d, old)
<1>1. /\ p.apply = d \ old
      /\ p.delete = {o \in old : \A r \in d : r.key # o.key}
  BY DEF Sync
<1> HIDE DEF p
<1>2. p.apply \subseteq d /\ d \ p.apply \subseteq old
  BY <1>1, Zenon
<1>3. \A o \in p.delete, r \in d : o.key # r.key
  BY <1>1, Zenon
<1>4. ASSUME NEW q \in old
      PROVE  q \in d \cup p.delete \/ \E r \in p.apply : r.key = q.key
  <2>1. CASE \A r \in d : r.key # q.key
    BY <1>1, <2>1, Zenon
  <2>2. CASE \E r \in d : r.key = q.key
    <3>1. PICK r \in d : r.key = q.key
      BY <2>2, Zenon
    <3>2. CASE r \in old
      BY <3>1, <3>2, Zenon DEF UniqueKeys
    <3>3. CASE r \notin old
      BY <1>1, <3>1, <3>3, Zenon
    <3> QED
      BY <3>2, <3>3, Zenon
  <2> QED
    BY <2>1, <2>2, Zenon
<1> QED
  BY <1>2, <1>3, <1>4, Zenon DEF Reaches, p

\* The same for Routes, of which the reconciler never finds any.
LEMMA RouteSyncReaches ==
    ASSUME NEW d, NEW old
    PROVE  Reaches("Route", Sync(d, {}), old, d)
<1>1. Sync(d, {}).apply = d /\ Sync(d, {}).delete = {}
  BY DEF Sync
<1> QED
  BY <1>1, Zenon DEF Reaches

\* A call brings the resources closer to what the plan leads to.
LEMMA ApplyReaches ==
    ASSUME NEW k, NEW p, NEW old, NEW d, Reaches(k, p, old, d), UniqueKeys(d),
           NEW r \in p.apply, NEW next, next.apply = p.apply \ {r}, next.delete = p.delete,
           NEW new, new = {q \in old : q.key # r.key} \cup {r}
    PROVE  Reaches(k, next, new, d)
<1>1. /\ p.apply \subseteq d
      /\ d \ p.apply \subseteq old
      /\ \A o \in p.delete, x \in d : o.key # x.key
      /\ k # "Route" =>
            \A q \in old : q \in d \cup p.delete \/ \E x \in p.apply : x.key = q.key
  BY Zenon DEF Reaches
<1>2. next.apply \subseteq d
  BY <1>1, Zenon
<1>3. ASSUME NEW x \in d, x \notin next.apply PROVE x \in new
  <2>1. CASE x = r
    BY <2>1, Zenon
  <2>2. CASE x # r
    <3>1. x \in old
      BY <1>1, <1>3, <2>2, Zenon
    <3>2. x.key # r.key
      BY <1>1, <2>2, Zenon DEF UniqueKeys
    <3> QED
      BY <3>1, <3>2, Zenon
  <2> QED
    BY <2>1, <2>2, Zenon
<1>4. \A o \in next.delete, x \in d : o.key # x.key
  BY <1>1, Zenon
<1>5. ASSUME k # "Route", NEW q \in new
      PROVE  q \in d \cup next.delete \/ \E x \in next.apply : x.key = q.key
  <2>1. CASE q = r
    BY <1>1, <2>1, Zenon
  <2>2. CASE q \in old /\ q.key # r.key
    BY <1>1, <1>5, <2>2, Zenon
  <2> QED
    BY <2>1, <2>2, Zenon
<1> QED
  BY <1>2, <1>3, <1>4, <1>5, Zenon DEF Reaches

LEMMA DeleteReaches ==
    ASSUME NEW k, NEW p, NEW old, NEW d, Reaches(k, p, old, d), p.apply = {},
           NEW r \in p.delete, NEW next, next.apply = {}, next.delete = p.delete \ {r},
           NEW new, new = {q \in old : q.key # r.key}
    PROVE  Reaches(k, next, new, d)
<1>1. /\ d \subseteq old
      /\ \A o \in p.delete, x \in d : o.key # x.key
      /\ k # "Route" => \A q \in old : q \in d \cup p.delete
  BY Zenon DEF Reaches
<1>2. next.apply \subseteq d /\ d \ next.apply \subseteq new
  BY <1>1, Zenon
<1>3. \A o \in next.delete, x \in d : o.key # x.key
  BY <1>1, Zenon
<1>4. ASSUME k # "Route", NEW q \in new PROVE q \in d \cup next.delete
  BY <1>1, <1>4, Zenon
<1> QED
  BY <1>2, <1>3, <1>4, Zenon DEF Reaches

\* Every plan of a Reconcile leads to what the factory may return.
LEMMA PlansReachDesired ==
    ASSUME ManagerTypeOK, FixedKeys,
           NEW all, NEW services, NEW imports \in [Peers -> SUBSET FederatedService], NEW answers,
           NEW k \in Reconcilers, NEW p \in Plans(k, all, services, imports, answers)
    PROVE  \E d \in Desired(k, all, services, imports, answers) :
              Reaches(k, p, resources[k], d)
<1> DEFINE want == Desired(k, all, services, imports, answers)
<1>1. \A d \in want :
          UniqueKeys(d) /\ (k \in {"DestinationRule", "EnvoyFilter"} => d # {})
  BY DesiredFacts
<1>2. UniqueKeys(resources[k]) /\ k \in Kinds
  <2>1. k \in Kinds
    BY DEF Reconcilers, Kinds
  <2> QED
    BY <2>1, Zenon DEF ManagerTypeOK
<1>3. \A l : ListByLabel(l, PeerLabel) = resources[l]
  BY Zenon DEF ListByLabel
<1>4. ASSUME k \in {"Gateway", "PeerAuthentication"}, NEW r,
             p = [apply |-> {r}, delete |-> {}], r.key = FixedKey(k)
      PROVE  Reaches(k, p, resources[k], {r})
  <2>1. p.apply = {r} /\ p.delete = {}
    BY <1>4
  <2>2. \A q \in resources[k] : q.key = r.key
    BY <1>4, Zenon DEF FixedKeys
  <2> QED
    BY <2>1, <2>2, Zenon DEF Reaches
<1>5. CASE k = "Gateway"
  <2> DEFINE r == IngressGateway(all)
  <2>1. p = [apply |-> {r}, delete |-> {}] /\ want = {{r}}
    BY <1>5 DEF Plans, GatewayPlans, Desired
  <2>2. r.key = FixedKey(k)
    BY <1>5 DEF IngressGateway, Resource, FixedKey
  <2> HIDE DEF r, want
  <2> QED
    BY <1>4, <1>5, <2>1, <2>2, Zenon DEF want
<1>6. CASE k = "PeerAuthentication"
  <2> DEFINE r == Resource(Local.pod, <<"fds", "strict", "mtls">>, "STRICT")
  <2>1. p \in PeerAuthenticationPlans /\ want = {x.apply : x \in PeerAuthenticationPlans}
    BY <1>6 DEF Plans, Desired
  <2>2. p = [apply |-> {r}, delete |-> {}]
    BY <2>1, Zenon DEF PeerAuthenticationPlans
  <2>3. r.key = FixedKey(k)
    BY <1>6 DEF Resource, FixedKey
  <2> HIDE DEF r, want
  <2>4. p.apply = {r}
    BY <2>2
  <2>5. {r} \in want
    BY <2>1, <2>4, Zenon
  <2> QED
    BY <1>4, <1>6, <2>2, <2>3, <2>5, Zenon DEF want
<1>7. ASSUME NEW d \in want, p = Sync(d, resources[k])
      PROVE  Reaches(k, p, resources[k], d)
  BY <1>1, <1>2, <1>7, SyncReaches, Zenon
<1>8. CASE k = "ServiceEntry"
  <2>1. \E d \in want : p = Sync(d, ListByLabel(k, PeerLabel))
    BY <1>8 DEF Plans, ServiceEntryPlans, Desired
  <2> HIDE DEF want
  <2> QED
    BY <1>3, <1>7, <2>1, Zenon DEF want
<1>9. CASE k = "WorkloadEntry"
  <2>1. \E d \in want : p = Sync(d, ListByLabel(k, PeerLabel))
    BY <1>9 DEF Plans, WorkloadEntryPlans, Desired
  <2> HIDE DEF want
  <2> QED
    BY <1>3, <1>7, <2>1, Zenon DEF want
<1>10. CASE k = "DestinationRule"
  <2>1. \E d \in want : p = IF d = {} THEN NoPlan ELSE Sync(d, ListByLabel(k, PeerLabel))
    BY <1>10 DEF Plans, DestinationRulePlans, Desired
  <2>2. \A d \in want : d # {}
    BY <1>1, <1>10, Zenon
  <2> HIDE DEF want
  <2> QED
    BY <1>3, <1>7, <2>1, <2>2, Zenon DEF want
<1>11. CASE k = "EnvoyFilter"
  <2>1. \E d \in want : p = IF d = {} THEN NoPlan ELSE Sync(d, ListByLabel(k, PeerLabel))
    BY <1>11 DEF Plans, EnvoyFilterPlans, Desired
  <2>2. \A d \in want : d # {}
    BY <1>1, <1>11, Zenon
  <2> HIDE DEF want
  <2> QED
    BY <1>3, <1>7, <2>1, <2>2, Zenon DEF want
<1>12. CASE k = "Route"
  <2> DEFINE label == "federation.openshift.io/peer"
  <2>1. \E d \in want : p = Sync(d, ListByLabel(k, label))
    BY <1>12 DEF Plans, RoutePlans, Desired
  <2>2. ListByLabel(k, label) = {}
    BY DEF ListByLabel, PeerLabel
  <2> HIDE DEF want
  <2> QED
    BY <1>12, <2>1, <2>2, RouteSyncReaches, Zenon DEF want
<1> QED
  BY <1>5, <1>6, <1>8, <1>9, <1>10, <1>11, <1>12 DEF Reconcilers

\* The calls of a Reconcile: what it deletes has no key of what it wants.
LEMMA PlanKeys ==
    ASSUME NEW all, NEW services, NEW imports, NEW answers, NEW k \in Reconcilers,
           NEW p \in Plans(k, all, services, imports, answers),
           NEW r \in p.apply, NEW o \in p.delete
    PROVE  r.key # o.key
<1> DEFINE Apart(q) == \A x \in q.apply, y \in q.delete : x.key # y.key
<1>1. \A d, old : Apart(Sync(d, old))
  <2> TAKE d, old
  <2>1. /\ Sync(d, old).apply = d \ old
        /\ Sync(d, old).delete = {y \in old : \A x \in d : x.key # y.key}
    BY DEF Sync
  <2> QED
    BY <2>1, Zenon
<1>2. Apart(NoPlan)
  <2>1. NoPlan.apply = {}
    BY DEF NoPlan
  <2> QED
    BY <2>1, Zenon
<1>3. \A a : Apart([apply |-> a, delete |-> {}])
  <2> TAKE a
  <2>1. [apply |-> a, delete |-> {}].delete = {}
    OBVIOUS
  <2> QED
    BY <2>1, Zenon
<1> HIDE DEF Apart
<1>4. /\ \A q \in GatewayPlans(all) : Apart(q)
      /\ \A q \in PeerAuthenticationPlans : Apart(q)
  BY <1>3, Zenon DEF GatewayPlans, PeerAuthenticationPlans
<1>5. /\ \A q \in ServiceEntryPlans(services, imports) : Apart(q)
      /\ \A q \in WorkloadEntryPlans(services, imports, answers) : Apart(q)
      /\ \A q \in DestinationRulePlans(imports) : Apart(q)
      /\ \A q \in EnvoyFilterPlans(all) : Apart(q)
      /\ \A q \in RoutePlans(all) : Apart(q)
  BY <1>1, <1>2, Zenon
     DEF ServiceEntryPlans, WorkloadEntryPlans, DestinationRulePlans, EnvoyFilterPlans,
         RoutePlans
<1>6. Apart(p)
  BY <1>4, <1>5 DEF Plans, Reconcilers
<1> QED
  BY <1>6, Zenon DEF Apart

\* A plan is a record of two sets.
LEMMA PlanShape ==
    ASSUME NEW all, NEW services, NEW imports, NEW answers,
           NEW k \in Reconcilers, NEW p \in Plans(k, all, services, imports, answers)
    PROVE  DOMAIN p = {"apply", "delete"}
<1> DEFINE Shape(q) == \E a, o : q = [apply |-> a, delete |-> o]
<1>1. Shape(NoPlan) /\ \A d, old : Shape(Sync(d, old))
  BY Zenon DEF NoPlan, Sync
<1>2. \A q \in GatewayPlans(all) : Shape(q)
  BY Zenon DEF GatewayPlans
<1>3. \A q \in PeerAuthenticationPlans : Shape(q)
  BY Zenon DEF PeerAuthenticationPlans
<1> HIDE DEF Shape
<1>4. /\ \A q \in ServiceEntryPlans(services, imports) : Shape(q)
      /\ \A q \in WorkloadEntryPlans(services, imports, answers) : Shape(q)
      /\ \A q \in DestinationRulePlans(imports) : Shape(q)
      /\ \A q \in EnvoyFilterPlans(all) : Shape(q)
      /\ \A q \in RoutePlans(all) : Shape(q)
  BY <1>1, Zenon DEF ServiceEntryPlans, WorkloadEntryPlans, DestinationRulePlans,
                     EnvoyFilterPlans, RoutePlans
<1>5. Shape(p)
  BY <1>2, <1>3, <1>4 DEF Plans, Reconcilers
<1>6. PICK a, o : p = [apply |-> a, delete |-> o]
  BY <1>5, Zenon DEF Shape
<1> QED
  BY <1>6

\* The Gateway and the PeerAuthentication have their fixed keys.
LEMMA DesiredFixedKeys ==
    ASSUME NEW all, NEW services, NEW imports, NEW answers,
           NEW k \in {"Gateway", "PeerAuthentication"},
           NEW d \in Desired(k, all, services, imports, answers), NEW q \in d
    PROVE  q.key = FixedKey(k)
<1>1. CASE k = "Gateway"
  <2>1. q = IngressGateway(all)
    BY <1>1 DEF Desired
  <2> QED
    BY <1>1, <2>1 DEF IngressGateway, Resource, FixedKey
<1>2. CASE k = "PeerAuthentication"
  <2> DEFINE r == Resource(Local.pod, <<"fds", "strict", "mtls">>, "STRICT")
  <2>1. d \in {p.apply : p \in PeerAuthenticationPlans}
    BY <1>2 DEF Desired
  <2>2. PICK p \in PeerAuthenticationPlans : d = p.apply
    BY <2>1, Zenon
  <2>3. p = [apply |-> {r}, delete |-> {}]
    BY <2>2, Zenon DEF PeerAuthenticationPlans
  <2>4. r.key = FixedKey(k)
    BY <1>2 DEF Resource, FixedKey
  <2> HIDE DEF r
  <2> QED
    BY <2>2, <2>3, <2>4
<1> QED
  BY <1>1, <1>2

-----------------------------------------------------------------------------
(* The actions of the manager keep its types.                              *)

LEMMA ListServicesType ==
    ASSUME NEW services \in [Services -> Object \cup {NoService}], NEW n
    PROVE  ListServices(services, n) \subseteq Services \X PortLists
<1> SUFFICES ASSUME NEW f \in ListServices(services, n)
             PROVE  f \in Services \X PortLists
  BY Zenon
<1>1. PICK t \in Services : services[t] # NoService /\ f = <<t, services[t].ports>>
  BY Zenon DEF ListServices, List
<1>2. services[t] \in Object
  BY <1>1, Zenon
<1> QED
  BY <1>1, <1>2 DEF Object

LEMMA LoopType ==
    ASSUME ManagerTypeOK, NEW services, NEW imports, NEW answers,
           NEW k \in Reconcilers, NEW set \in SUBSET (Services \X PortLists),
           NEW n \in Nat, Loop(k, set, n, services, imports, answers),
           current' = k, unseen' \subseteq Kinds,
           UNCHANGED <<resources, rmPc, failed>>, initial' \subseteq initial
    PROVE  ManagerTypeOK'
<1>1. k # "none"
  BY DEF Reconcilers
<1>2. /\ round' \in Nat /\ found' \subseteq Services \X PortLists
      /\ round' # 0 => k \in ListingKinds /\ plan' = NoPlan
      /\ plan' = NoPlan \/ plan' \in Plans(k, set, services, imports, answers)
  BY DEF Loop
<1>3. DOMAIN plan' = {"apply", "delete"}
  <2>1. DOMAIN NoPlan = {"apply", "delete"}
    BY DEF NoPlan
  <2> QED
    BY <1>2, <2>1, PlanShape, Zenon
<1> QED
  BY <1>1, <1>2, <1>3, Zenon DEF ManagerTypeOK

LEMMA ReconcileType ==
    ASSUME ManagerTypeOK, NEW services \in [Services -> Object \cup {NoService}],
           NEW imports, NEW answers,
           NEW k \in Reconcilers, Reconcile(k, services, imports, answers),
           UNCHANGED <<resources, rmPc, failed>>, initial' \subseteq initial
    PROVE  ManagerTypeOK'
<1>1. /\ current' = k /\ unseen' = unseen \ {k}
      /\ Loop(k, {}, 1, services, imports, answers)
  BY Zenon DEF Reconcile
<1>2. {} \in SUBSET (Services \X PortLists) /\ 1 \in Nat
  OBVIOUS
<1>3. unseen' \subseteq Kinds
  BY <1>1, Zenon DEF ManagerTypeOK
<1> QED
  BY <1>1, <1>2, <1>3, LoopType, Zenon

LEMMA ListSelectorType ==
    ASSUME ManagerTypeOK, NEW services \in [Services -> Object \cup {NoService}],
           NEW imports, NEW answers, ListSelector(services, imports, answers)
    PROVE  ManagerTypeOK'
<1> DEFINE set == found \cup ListServices(services, round)
<1>1. /\ round # 0 /\ Loop(current, set, round + 1, services, imports, answers)
      /\ UNCHANGED <<resources, rmPc, initial, failed, current, unseen>>
  BY Zenon DEF ListSelector
<1>2. set \in SUBSET (Services \X PortLists)
  BY ListServicesType, Zenon DEF ManagerTypeOK
<1>3. round + 1 \in Nat
  BY DEF ManagerTypeOK
<1>4. current \in Reconcilers /\ unseen' \subseteq Kinds
  BY <1>1 DEF ManagerTypeOK, ListingKinds
<1> HIDE DEF set
<1> QED
  BY <1>1, <1>2, <1>3, <1>4, LoopType, Zenon

LEMMA ListFailsType ==
    ASSUME ManagerTypeOK, NEW services, NEW imports, NEW answers,
           ListFails(services, imports, answers)
    PROVE  ManagerTypeOK'
<1>1. /\ round # 0 /\ unseen' = unseen \cup {current}
      /\ UNCHANGED <<resources, rmPc, initial>>
  BY Zenon DEF ListFails
<1>2. current \in Reconcilers /\ plan = NoPlan
  BY <1>1 DEF ManagerTypeOK, ListingKinds
<1>3. unseen' \subseteq Kinds
  <2>1. Reconcilers \subseteq Kinds
    BY DEF Reconcilers, Kinds
  <2> QED
    BY <1>1, <1>2, <2>1, Zenon DEF ManagerTypeOK
<1>4. CASE current = "EnvoyFilter"
  <2>1. /\ Loop(current, found, round + 1, services, imports, answers)
        /\ UNCHANGED <<current, failed>>
    BY <1>4, Zenon DEF ListFails
  <2>2. round + 1 \in Nat /\ found \in SUBSET (Services \X PortLists)
    BY DEF ManagerTypeOK
  <2> QED
    BY <1>1, <1>2, <1>3, <2>1, <2>2, LoopType, Zenon
<1>5. CASE current # "EnvoyFilter"
  <2>1. /\ current' = "none" /\ round' = 0 /\ found' = {} /\ plan' = NoPlan
        /\ failed' = (failed \/ rmPc = "all")
    BY <1>2, <1>5, Zenon DEF ListFails
  <2>2. failed' \in BOOLEAN /\ round' \in Nat
    BY <2>1
  <2>3. found' \subseteq Services \X PortLists
    BY <2>1
  <2> QED
    BY <1>1, <1>2, <1>3, <2>1, <2>2, <2>3, Zenon DEF ManagerTypeOK
<1> QED
  BY <1>4, <1>5, Zenon

LEMMA CallType ==
    ASSUME ManagerTypeOK, NEW r, ApplyResource(r) \/ DeleteResource(r)
    PROVE  ManagerTypeOK'
<1>1. current # "none" /\ current \in Kinds /\ round = 0
  <2>1. r \in plan.apply \/ r \in plan.delete
    BY Zenon DEF ApplyResource, DeleteResource
  <2>2. plan # NoPlan
    BY <2>1 DEF NoPlan
  <2> QED
    BY <2>2 DEF ManagerTypeOK, Reconcilers, Kinds
<1>2. /\ DOMAIN resources' = Kinds
      /\ \A k \in Kinds : k # current => resources'[k] = resources[k]
      /\ \/ resources'[current] = {q \in resources[current] : q.key # r.key} \cup {r}
         \/ resources'[current] = {q \in resources[current] : q.key # r.key}
  BY <1>1 DEF ApplyResource, DeleteResource, ManagerTypeOK
<1>3. UniqueKeys(resources'[current])
  <2>1. UniqueKeys(resources[current])
    BY <1>1, Zenon DEF ManagerTypeOK
  <2> QED
    BY <1>2, <2>1, Zenon DEF UniqueKeys
<1>4. \A k \in Kinds : UniqueKeys(resources'[k])
  <2> TAKE k \in Kinds
  <2> QED
    BY <1>2, <1>3, Zenon DEF ManagerTypeOK
<1>5. DOMAIN plan' = {"apply", "delete"} /\ UNCHANGED <<rmPc, initial, failed, current, round, found, unseen>>
  BY DEF ApplyResource, DeleteResource, ManagerTypeOK
<1> QED
  BY <1>1, <1>2, <1>4, <1>5, Zenon DEF ManagerTypeOK

LEMMA OtherManagerType ==
    ASSUME ManagerTypeOK,
           ReconcileReturns \/ ReconcileFails \/ Start \/ ManagerRestart
    PROVE  ManagerTypeOK'
<1>1. DOMAIN NoPlan = {"apply", "delete"}
  BY DEF NoPlan
<1>2. Reconcilers \subseteq Kinds
  BY DEF Reconcilers, Kinds
<1>3. CASE ReconcileReturns
  BY <1>3, Zenon DEF ReconcileReturns, ManagerTypeOK
<1>4. CASE ReconcileFails
  <2>1. failed' \in BOOLEAN
    BY <1>4 DEF ReconcileFails
  <2>2. unseen' \subseteq Kinds
    BY <1>2, <1>4, Zenon DEF ReconcileFails, ManagerTypeOK
  <2> QED
    BY <1>1, <1>4, <2>1, <2>2, Zenon DEF ReconcileFails, ManagerTypeOK
<1>5. CASE Start
  BY <1>5 DEF Start, ManagerTypeOK
<1>6. CASE ManagerRestart
  BY <1>1, <1>6, Zenon DEF ManagerRestart, ManagerTypeOK
<1> QED
  BY <1>3, <1>4, <1>5, <1>6, Zenon

=============================================================================
