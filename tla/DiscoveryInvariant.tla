------------------------- MODULE DiscoveryInvariant -------------------------
(***************************************************************************)
(* The inductive invariant behind SettledPeersMirrorExports.               *)
(*                                                                         *)
(* The newest export set travels from the store through the queue, the     *)
(* worker and the loop to the stream, and by the initial snapshot past all *)
(* of them. The invariant says, for every place where resources wait to be *)
(* sent or read, that they are the newest ones unless a newer push is sure *)
(* to follow them to the same place.                                       *)
(***************************************************************************)
EXTENDS Discovery

\* A push is still to be generated, or was lost.
Behind == PushPending \/ lostPush

\* The loop is yet to send its resources on stream i.
Visits(i) == loopPc = "range" /\ i \in todo

Fresh(resources) == Hosts(resources) = Exported(store)

\* The resources of the first n selectors: what is exported and not among them is
\* matched by a later selector.
FreshSoFar(services, resources, n) ==
    /\ Hosts(resources) \subseteq Exported(services)
    /\ \A s \in Exported(services) :
          s \in Hosts(resources) \/ \E k \in Selected(services[s]) : k > n

\* The goroutine of stream i serves a live subscriber.
Served(i) == open[i] /\ recvPc[i] \in {"recv", "list", "send"}

\* A stream is stored as a subscriber before its request is read and deleted
\* only when it is broken: a push that follows the snapshot visits it.
ServedAreSubscribed == \A i \in Conns : Served(i) => i \in subscribers

\* The request of a stream is not read before the stream is handled.
NewAreRequested ==
    \A i \in Conns : open[i] /\ recvPc[i] = "new" => request[i]

\* Every stream belongs to one client.
StreamsAreOwned ==
    /\ \A c \in Clients : stream[c] \in 0..conns
    /\ \A c, d \in Clients : stream[c] = stream[d] /\ stream[c] # 0 => c = d

\* While the loop lists, the worker waits to hand over the next request.
LoopListsFresh ==
    loopPc = "generate" /\ ~Unpushed /\ ~lostPush
        => FreshSoFar(store, loopResources, loopListed)

LoopIsFresh == loopPc = "range" /\ ~Behind => Fresh(loopResources)

ListedIsFresh ==
    \A i \in Conns :
        open[i] /\ recvPc[i] = "list" /\ ~heldStale[i] /\ ~Behind /\ ~Visits(i)
            => FreshSoFar(store, snapshot[i], listed[i])

HeldIsFresh ==
    \A i \in Conns :
        open[i] /\ recvPc[i] = "send" /\ ~heldStale[i] /\ ~Behind /\ ~Visits(i)
            => Fresh(snapshot[i])

\* What client c has, or will have when it has read its stream.
Arrives(c, i) ==
    IF responses[i] = <<>> THEN dropped[c] \/ Fresh(imported[c])
                           ELSE Fresh(responses[i][Len(responses[i])])

LastIsFresh ==
    \A c \in Clients, i \in Conns :
        (/\ stream[c] = i
         /\ open[i] /\ recvPc[i] = "recv" /\ ~request[i]
         /\ ~lastStale[i] /\ ~Behind /\ ~Visits(i))
            => Arrives(c, i)

FreshInv ==
    /\ ServedAreSubscribed
    /\ NewAreRequested
    /\ StreamsAreOwned
    /\ LoopListsFresh
    /\ LoopIsFresh
    /\ ListedIsFresh
    /\ HeldIsFresh
    /\ LastIsFresh

-----------------------------------------------------------------------------
(* The inductive invariant behind StableExportsStayImported: wherever      *)
(* resources wait, they hold every service that was exported all along, or *)
(* a selector that is still to be listed matches it.                       *)

Covers(resources) == stable \subseteq Hosts(resources)

CoversSoFar(resources, n) ==
    \A s \in stable :
        s \in Hosts(resources) \/ \E k \in Selected(store[s]) : k > n

\* The informer may be behind, but not in what the selectors see.
StableAreSelected ==
    \A s \in stable :
        /\ NoService \notin {cluster[s], store[s]}
        /\ Selected(store[s]) = Selected(cluster[s])
        /\ Selected(store[s]) # {}

ServerCovers ==
    /\ loopPc = "generate" => CoversSoFar(loopResources, loopListed)
    /\ \A i \in Conns : recvPc[i] = "list" => CoversSoFar(snapshot[i], listed[i])
    /\ loopPc = "range" => Covers(loopResources)
    /\ \A i \in Conns : recvPc[i] = "send" => Covers(snapshot[i])
    /\ \A i \in Conns :
          \A k \in 1..Len(responses[i]) : Covers(responses[i][k])

StableInv ==
    /\ StableAreSelected
    /\ ServerCovers
    /\ StableExportsStayImported

=============================================================================
