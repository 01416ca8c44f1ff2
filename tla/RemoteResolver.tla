--------------------------- MODULE RemoteResolver ---------------------------
(***************************************************************************)
(* The goroutine that watches the IPs of the remotes, resolveRemoteIP.     *)
(*                                                                         *)
(* It runs behind an openshift-router only. Every second it resolves the   *)
(* first address of every remote and, if the sorted IPs are not those of   *)
(* the last time, sends a request for WorkloadEntries. The manager makes   *)
(* lookups of its own when it reconciles: nothing ties the two together.   *)
(* Actions constrain the variables of this module only; the send is a      *)
(* joint step with the manager.                                            *)
(***************************************************************************)
EXTENDS ConfigFactory, TLC

CONSTANT
    Answers    \* the sets of IPs that a name may have, {} while lookups fail

ASSUME ResolverAssumption ==
    /\ Answers \subseteq SUBSET Range(IPs)
    /\ Answers # {}
    /\ \A ips \in Answers : Cardinality(ips) <= Len(Indices)

VARIABLES
    dns,       \* the IPs of every name (external)
    prevIPs,   \* the IPs of the last time
    rsPc       \* "off": not started by main, or nothing to look up; "start":
               \* before the first lookups; "wait": for the ticker; "send":
               \* blocked in the send

resolverVars == <<dns, prevIPs, rsPc>>

\* main starts the goroutine, and there is an address to look up.
Resolves == Local.router /\ Peers # {}

ResolverRestart ==
    /\ prevIPs' = <<>>
    /\ rsPc' = IF Resolves THEN "start" ELSE "off"
    /\ UNCHANGED dns

ResolverInit ==
    /\ dns \in [Names -> Answers]
    /\ prevIPs = <<>>
    /\ rsPc = IF Resolves THEN "start" ELSE "off"

\* remote.Addresses[0] of every remote
FirstAddresses == [r \in Peers |-> Remotes[r].addresses[1]]

\* sort.Strings
Sorted(ips) ==
    LET rank(ip) == CHOOSE j \in DOMAIN IPs : IPs[j] = ip
    IN  SortSeq(ips, LAMBDA a, b : rank(a) < rank(b))

\* The sorted IPs, whatever the order of the answers.
CurrentIPs(answers) ==
    Sorted(CHOOSE ips \in Resolve(FirstAddresses, answers) : TRUE)

\* The IPs of the lookups at one time, sorted or not.
LookupResults ==
    UNION {{CurrentIPs(answers)} \cup Resolve(FirstAddresses, answers) :
           answers \in [Names -> Answers]}

ResolverTypeOK ==
    /\ dns \in [Names -> Answers]
    /\ prevIPs # <<>> => prevIPs \in LookupResults
    /\ rsPc \in (IF Resolves THEN {"start", "wait", "send"} ELSE {"off"})

\* The first lookups; the IPs are not sorted.
StartResolver ==
    /\ rsPc = "start"
    /\ prevIPs' \in Resolve(FirstAddresses, dns)
    /\ rsPc' = "wait"
    /\ UNCHANGED dns

\* Only the number of the IPs is compared.
TickComparesLengths ==
    /\ rsPc = "wait"
    /\ Len(CurrentIPs(dns)) # Len(prevIPs)
    /\ prevIPs' = CurrentIPs(dns)
    /\ rsPc' = "send"
    /\ UNCHANGED dns

\* The request is dropped if the manager is not waiting for one.
TickDropsRequest ==
    /\ rsPc = "wait"
    /\ CurrentIPs(dns) # prevIPs
    /\ prevIPs' = CurrentIPs(dns)
    /\ rsPc' \in {"wait", "send"}
    /\ UNCHANGED dns

\* The ticker fires and the IPs have changed; otherwise nothing happens.
Tick ==
    /\ rsPc = "wait"
    /\ CurrentIPs(dns) # prevIPs
    /\ prevIPs' = CurrentIPs(dns)
    /\ rsPc' = "send"
    /\ UNCHANGED dns

\* The manager takes the request.
SendResolverPush ==
    /\ rsPc = "send"
    /\ rsPc' = "wait"
    /\ UNCHANGED <<dns, prevIPs>>

\* The records of a name change, or its lookups begin or cease to fail.
ChangeRecords(name, ips) ==
    /\ ips # dns[name]
    /\ dns' = [dns EXCEPT ![name] = ips]
    /\ UNCHANGED <<prevIPs, rsPc>>

\* With these answers the resolver is about to send a request.
Notices(answers) ==
    \/ rsPc = "send"
    \/ rsPc = "wait" /\ CurrentIPs(answers) # prevIPs

=============================================================================
