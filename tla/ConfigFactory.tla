---------------------------- MODULE ConfigFactory ----------------------------
(***************************************************************************)
(* The resources that the Istio and OpenShift config factories derive from *)
(* the export rules, the Services of the lister and the imported services. *)
(*                                                                         *)
(* A Service key is a pair <<name, namespace>>. Names are the sequences of *)
(* their dash-separated words, so that joining names with dashes, as the   *)
(* code does, is concatenation: service a-b of namespace c and service a   *)
(* of namespace b-c get the same resource name.                            *)
(*                                                                         *)
(* A factory returns a list, and its reconciler keeps the last resource of *)
(* every key. The order of a list depends on the order in which the lister *)
(* and the imported services are read, so a factory is modelled by the set *)
(* of the results it may have: sets of resources with different keys.      *)
(*                                                                         *)
(* The addresses of a remote are IPs or names; dns, a parameter of the     *)
(* operators that look names up, gives the set of IPs of every name. A     *)
(* lookup returns them in any order, and nothing if it fails.              *)
(*                                                                         *)
(* The factories for exported services list the Services of one label      *)
(* selector after the other, while the informer goes on. Their operators   *)
(* take what all the rounds have found together.                           *)
(***************************************************************************)
EXTENDS ExportRules

CONSTANTS
    Local,     \* MeshPeers.Local: name, router (IngressType is
               \* openshift-router), controlPlane and pod (namespaces)
    Remotes,   \* MeshPeers.Remotes, in order: name, router, addresses
    IPs        \* the IP addresses, in the order of sort.Strings

Peers == DOMAIN Remotes

\* The indices of the WorkloadEntries of one import; bounds the addresses of a
\* remote.
Indices == <<"0", "1", "2">>

ASSUME FactoryAssumption ==
    /\ Services \subseteq Seq(STRING) \X Seq(STRING)
    /\ PortLists \subseteq SUBSET STRING
    /\ Local \in [name : Seq(STRING), router : BOOLEAN,
                  controlPlane : Seq(STRING), pod : Seq(STRING)]
    /\ Remotes \in Seq([name : Seq(STRING), router : BOOLEAN,
                        addresses : Seq(STRING) \ {<<>>}])
    /\ IPs \in Seq(STRING)
    /\ \A r, q \in Peers : Remotes[r].name = Remotes[q].name => r = q

Resource(namespace, name, spec) ==
    [key |-> <<namespace, name>>, spec |-> spec]

\* The maps that keep one resource of every key.
OnePerKey(list) ==
    {d \in SUBSET list :
        \A r \in list : \E e \in d : \A f \in d : f.key = r.key <=> f = e}

\* The same, where the resources of later remotes replace those of earlier ones.
LastRemoteWins(list) ==
    OnePerKey({e.resource : e \in {f \in list : \A g \in list :
                   g.resource.key = f.resource.key => g.remote <= f.remote}})

\* separateWithDash(<name>.<namespace>.svc.cluster.local)
SeparateWithDash(s) == s[1] \o s[2] \o <<"svc", "cluster", "local">>

\* remote.ServiceName(), and the service of the local controller.
DiscoveryService(name, namespace) ==
    << <<"federation", "discovery", "service">> \o name, namespace >>

IstioSystem == <<"istio", "system">>
DiscoveryPort == "15080"

-----------------------------------------------------------------------------
(* Addresses.                                                              *)

IsIP(address) == address \in Range(IPs)

\* The addresses of the remotes that are looked up.
Names == {a \in UNION {Range(Remotes[r].addresses) : r \in Peers} : ~IsIP(a)}

\* The sequences that networking.Resolve may return.
Resolve(addresses, dns) ==
    LET answers(a) == IF IsIP(a) THEN {<<a>>}
                      ELSE Bijection(1..Cardinality(dns[a]), dns[a])
        upTo[n \in 0..Len(addresses)] ==
            IF n = 0 THEN {<<>>}
            ELSE {ips \o more : ips \in upTo[n - 1], more \in answers(addresses[n])}
    IN  upTo[Len(addresses)]

-----------------------------------------------------------------------------
(* Resources for exported services.                                        *)

\* What the n-th round of the loop over the selectors finds: Services with their
\* ports.
ListServices(services, n) == {<<s, services[s].ports>> : s \in List(services, n)}

\* What all the rounds find if the store does not change meanwhile.
ExportedServices(services) == {<<s, services[s].ports>> : s \in Exported(services)}

\* The names of what was found. A host that two selectors match is in the code's
\* list twice; the set keeps one of them.
Found(set) == {f[1] : f \in set}

IngressGateway(found) ==
    Resource(Local.controlPlane, <<"federation", "ingress", "gateway">>,
             {DiscoveryService(Local.name, Local.pod)} \cup Found(found))

\* The service-port pairs that get an EnvoyFilter and a Route each.
ExposedPorts(found) ==
    {<<DiscoveryService(Local.name, IstioSystem), DiscoveryPort>>}
    \cup UNION {{f[1]} \X f[2] : f \in found}

EnvoyFilter(s, port) ==
    Resource(Local.controlPlane, <<"sni">> \o s[1] \o s[2] \o <<port>>, <<s, port>>)

EnvoyFilters(found) ==
    IF Local.router
    THEN OnePerKey({EnvoyFilter(e[1], e[2]) : e \in ExposedPorts(found)})
    ELSE {{}}

Route(s, port) ==
    Resource(Local.controlPlane,
             s[1] \o s[2] \o <<port, "to", "federation", "ingress", "gateway">>,
             <<s, port>>)

Routes(found) ==
    OnePerKey({Route(e[1], e[2]) : e \in ExposedPorts(found)})

-----------------------------------------------------------------------------
(* Resources for imported services; imports[r] is what the store holds     *)
(* from remote r.                                                          *)

DestinationRule(s, ports) ==
    Resource(Local.controlPlane, <<"mtls", "sni">> \o SeparateWithDash(s),
             [host |-> s, ports |-> ports])

\* The rules for remote r. Nothing is ever put into destinationRulesAlreadyCreated.
RemoteRules(imports, r) ==
    {DestinationRule(DiscoveryService(Remotes[r].name, IstioSystem), {DiscoveryPort})}
    \cup {DestinationRule(i.hostname, i.ports) : i \in imports[r]}

DestinationRuleList(imports) ==
    UNION {{[remote |-> r, resource |-> d] : d \in RemoteRules(imports, r)} :
           r \in {q \in Peers : Remotes[q].router}}

DestinationRules(imports) == LastRemoteWins(DestinationRuleList(imports))

EntryName(i, r) ==
    <<"import">> \o SeparateWithDash(i.hostname) \o Remotes[r].name

Endpoints(i, r) ==
    {[address |-> a, remote |-> r, labels |-> i.labels, ports |-> i.ports] :
        a \in Range(Remotes[r].addresses)}

ServiceEntryForRemote(r) ==
    LET s == DiscoveryService(Remotes[r].name, IstioSystem)
        i == [hostname |-> s, labels |-> {}, ports |-> {DiscoveryPort}]
    IN  Resource(Local.controlPlane, s[1],
                 [host |-> s, ports |-> i.ports, static |-> IsIP(Remotes[r].addresses[1]),
                  endpoints |-> Endpoints(i, r)])

\* The imports that have no local Service, with their remotes.
Missing(services, imports) ==
    UNION {{<<i, r>> : i \in {j \in imports[r] : services[j.hostname] = NoService}} :
           r \in {q \in Peers : Remotes[q].addresses # <<>>}}

SameEntry(m, o) == EntryName(m[1], m[2]) = EntryName(o[1], o[2])

ImportEntry(missing, m) ==
    Resource(Local.controlPlane, EntryName(m[1], m[2]),
             [host |-> m[1].hostname, ports |-> m[1].ports,
              static |-> IsIP(Remotes[m[2]].addresses[1]),
              endpoints |-> UNION {Endpoints(o[1], o[2]) :
                                   o \in {q \in missing : SameEntry(m, q)}}])

\* Imports of equal names share the entry of the first of them.
ImportEntries(missing) ==
    {ImportEntry(missing, m) :
        m \in {o \in missing : \A q \in missing : SameEntry(o, q) => o[2] <= q[2]}}

ServiceEntries(services, imports) ==
    {{ServiceEntryForRemote(r) : r \in {q \in Peers : Remotes[q].addresses # <<>>}} \cup d :
        d \in OnePerKey(ImportEntries(Missing(services, imports)))}

\* The WorkloadEntries of import i of remote r, for one result of Resolve.
WorkloadEntriesOf(i, r, ips) ==
    {[remote |-> r,
      resource |-> Resource(i.hostname[2],
          <<"import">> \o Remotes[r].name \o i.hostname[1] \o <<Indices[k]>>,
          [address |-> ips[k], remote |-> r, labels |-> i.labels, ports |-> i.ports])] :
        k \in DOMAIN ips}

\* The imports that have a local Service, with their remotes.
Present(services, imports) ==
    UNION {{<<i, r>> : i \in {j \in imports[r] : services[j.hostname] # NoService}} :
           r \in Peers}

\* Every import makes its own lookups.
Lookups(present, dns) ==
    {l \in [present -> UNION {Resolve(Remotes[r].addresses, dns) : r \in Peers}] :
        \A e \in present : l[e] \in Resolve(Remotes[e[2]].addresses, dns)}

WorkloadEntries(services, imports, dns) ==
    LET present == Present(services, imports)
    IN  UNION {LastRemoteWins(UNION {WorkloadEntriesOf(e[1], e[2], l[e]) : e \in present}) :
               l \in Lookups(present, dns)}

=============================================================================
