----------------------------- MODULE ExportRules -----------------------------
(***************************************************************************)
(* Which Services of a cluster are exported, as the two places that decide *)
(* it do: MatchExportRules, which the Service event handler asks about one *)
(* object, and GenerateResponse, which the discovery server asks about the *)
(* whole informer store.                                                   *)
(*                                                                         *)
(* A Service object is abstracted to its labels and to its spec.ports, the *)
(* two fields that GenerateResponse copies into a FederatedService.        *)
(***************************************************************************)
EXTENDS Naturals, Sequences, FiniteSets, Functions

CONSTANTS
    Services,     \* namespace/name keys of the Services of the cluster
    Labels,       \* the key=value pairs that a Service may carry
    PortLists,    \* the values of spec.ports
    Rules,        \* ExportedServiceSet.Rules: for every rule, the sequence of
                  \* the matchLabels of its label selectors
    NoService     \* the value of a key that has no Service object

\* metav1.Service, as far as this code reads it.
Object == [labels : SUBSET Labels, ports : PortLists]

\* v1alpha1.FederatedService: hostname is <name>.<namespace>.svc.cluster.local,
\* one to one with the key of the Service.
FederatedService ==
    [hostname : Services, labels : SUBSET Labels, ports : PortLists]

ASSUME ExportAssumption ==
    /\ IsFiniteSet(Services)
    /\ Rules \in Seq(Seq(SUBSET Labels))
    /\ NoService \notin Object

\* Only the first rule counts.
GetLabelSelectors == IF Rules = <<>> THEN <<>> ELSE Rules[1]

\* labels.SelectorFromSet(selector).Matches(svc.labels)
Matches(selector, svc) == selector \subseteq svc.labels

\* One selector is enough.
MatchExportRules(svc) ==
    \E sel \in Range(GetLabelSelectors) : Matches(sel, svc)

Export(services, s) ==
    [hostname |-> s, labels |-> services[s].labels, ports |-> services[s].ports]

\* The selectors that match an object, by their positions.
Selected(svc) ==
    {n \in DOMAIN GetLabelSelectors : Matches(GetLabelSelectors[n], svc)}

\* ServiceLister.List of the n-th selector on the informer store, which may change
\* before the next one is listed. Without selectors nothing is listed.
List(services, n) ==
    {s \in Services : services[s] # NoService /\ n \in Selected(services[s])}

\* What the n-th round of the loop in GenerateResponse adds. A Service that two
\* selectors match is listed twice by the code; the set keeps one of two equal
\* resources.
ListExports(services, n) == {Export(services, s) : s \in List(services, n)}

\* The host names of a set of resources.
Hosts(resources) == {r.hostname : r \in resources}

\* The keys whose object matches the export rules.
Exported(services) ==
    {s \in Services : services[s] # NoService /\ MatchExportRules(services[s])}

=============================================================================
