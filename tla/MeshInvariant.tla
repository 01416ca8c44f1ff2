---------------------------- MODULE MeshInvariant ----------------------------
(***************************************************************************)
(* The inductive invariants behind SettledResourcesMatch and               *)
(* EnteredImportsStay.                                                     *)
(*                                                                         *)
(* A change of an input travels from its source to the manager: from the   *)
(* store through the queue and the worker, from a remote through a client, *)
(* from the DNS through the resolver, at startup through ReconcileAll. The *)
(* invariant says of every kind that a request for it is somewhere on this *)
(* way, or that the calls which the manager has yet to make lead to what   *)
(* is wanted now, or, while the exported Services are being listed, that   *)
(* the lists will be complete and have nothing stale.                      *)
(***************************************************************************)
EXTENDS MeshConfig

\* A request for kind k is under way, or none will come although the resources
\* may be wrong.
Pending(k) == Requested(k) \/ k \in unseen

PlansReach(k) == \E d \in Wanted(k) : Reaches(k, PlanOf(k), resources[k], d)

\* Before round n the factory of kind k has found set: exported Services, with
\* their current ports as far as the kind depends on them, and all but those
\* that a selector still to be listed matches.
FoundSoFar(k, set, n) ==
    /\ Found(set) \subseteq Exported(store)
    /\ k # "Gateway" => \A f \in set : f[2] = store[f[1]].ports
    /\ \A s \in Exported(store) \ Found(set) :
          \E m \in Selected(store[s]) : m >= n

UpToDate(k) ==
    IF Listing(k) THEN FoundSoFar(k, found, round) ELSE PlansReach(k)

SyncInv ==
    /\ TypeOK
    /\ FixedKeys
    /\ \A k \in Reconcilers : Pending(k) \/ UpToDate(k)

-----------------------------------------------------------------------------
\* The key of the ServiceEntry of the remote-service pair e.
EntryKey(e) == <<Local.controlPlane, EntryName([hostname |-> e[2]], e[1])>>

\* Entries are created in the namespace of the control plane.
EntriesInControlPlane ==
    \A q \in resources["ServiceEntry"] \cup PlanOf("ServiceEntry").apply :
        q.key = <<Local.controlPlane, q.key[2]>>

\* No Reconcile deletes what it applies.
AppliedAreKept == \A r \in plan.apply, o \in plan.delete : r.key # o.key

\* The entry of e is there and is not about to be deleted.
EntryIsKept(e) ==
    /\ e[2] \in Hosts(imported[e[1]])
    /\ store[e[2]] = NoService
    /\ \E q \in resources["ServiceEntry"] : q.key = EntryKey(e)
    /\ \A o \in PlanOf("ServiceEntry").delete : o.key # EntryKey(e)

EntryInv ==
    /\ TypeOK
    /\ EntriesInControlPlane
    /\ AppliedAreKept
    /\ \A e \in entered : EntryIsKept(e)

=============================================================================
