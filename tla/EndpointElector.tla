--------------------------- MODULE EndpointElector ---------------------------
(***************************************************************************)
(* TEndpointElectorSafe, the list of endpoints of one database with its    *)
(* two indexes, and TEndpointPool, which refreshes the list by discovery.  *)
(* Objects (table sessions) are linked to the node they live on and are    *)
(* told when its endpoint disappears.                                      *)
(*                                                                         *)
(* Records_ is sorted by priority and BestK_ is the last index of the best *)
(* priority: the model keeps the records as a function of the endpoint and *)
(* the first BestK_ + 1 of them as the set best.  One tag of registries is *)
(* modelled.  Critical sections of Mutex_ are single steps.                *)
(***************************************************************************)
EXTENDS Naturals, FiniteSets, FiniteSetsExt, Functions

CONSTANTS
    Endpoints,     \* endpoint addresses
    Nodes,         \* node ids; 0 when the server reports none
    Loads,         \* priorities the server's load factors give
    Pessimized,    \* the priority of a banned endpoint, the type's maximum
    Objects,       \* linked objects
    Callers,       \* threads that call UpdateAsync
    Discoveries    \* lists the discovery service may return

Priorities == Loads \cup {Pessimized}

Record == [priority : Priorities, node : Nodes]

ASSUME LoadsNat ==
    /\ Loads \subseteq Nat /\ Pessimized \in Nat
    /\ \A l \in Loads : l < Pessimized
ASSUME DiscoveriesLists ==
    \A l \in Discoveries : \E D \in SUBSET Endpoints :
        l \in [D -> [priority : Loads, node : Nodes]]

VARIABLES
    records,    \* Records_: endpoint -> record
    known,      \* KnownEndpoints_: endpoint -> record
    byNode,     \* KnownEndpointsByNodeId_: node -> endpoint, record, objects
    best,       \* endpoints of the first BestK_ + 1 records
    ratio,      \* PessimizationRatio_
    removed,    \* objects of the registries SetNewState still has to notify
    link,       \* whether an object's registry is the map's or was dropped
    told,       \* objects whose OnEndpointRemoved was called
    promise,    \* stage of the discovery DiscoveryPromise_ stands for
    waiting,    \* callers that hold a future of DiscoveryPromise_
    settling    \* callers whose promise was swapped out and is not set yet

elector == <<records, known, byNode, best, ratio>>
objects == <<removed, link, told>>
pool == <<promise, waiting, settling>>
vars == <<elector, objects, pool>>

----------------------------------------------------------------------------
Empty == [x \in {} |-> x]

Init ==
    /\ records = Empty /\ known = Empty /\ byNode = Empty
    /\ best = {} /\ ratio = 0
    /\ removed = {} /\ link = [o \in Objects |-> "none"] /\ told = {}
    /\ promise = "none" /\ waiting = {} /\ settling = {}

----------------------------------------------------------------------------
\* TEndpointElectorSafe.

NodesOf(recs) == {recs[e].node : e \in DOMAIN recs}

At(recs, n) == {e \in DOMAIN recs : recs[e].node = n}

\* The sort by priority and GetBestK.
Best(recs) ==
    {e \in DOMAIN recs : \A f \in DOMAIN recs : recs[e].priority <= recs[f].priority}

\* The endpoint a node's entry names: its last record in the sorted list.
LastOf(recs, n) ==
    {e \in At(recs, n) : \A f \in At(recs, n) : recs[f].priority <= recs[e].priority}

ObjsKept(entries, n) == IF n \in DOMAIN entries THEN entries[n].objs ELSE {}

NodeEntry(recs, n, e, objs) ==
    [endpoint |-> e, priority |-> recs[e].priority, objs |-> objs]

\* Nodes that lose an endpoint, as far as the index knows them.
GoneNodes(list) ==
    {records[e].node : e \in DOMAIN records \ DOMAIN list} \cap DOMAIN byNode

\* SetNewState up to the end of its critical section.  Duplicates of an
\* endpoint are dropped before: a list is a function of the endpoint.
SetNewState(list) ==
    LET gone == GoneNodes(list)
        kept == Restrict(byNode, DOMAIN byNode \ gone)
        dropped == UNION {byNode[n].objs : n \in gone}
    IN  /\ records' = list
        /\ known' = [e \in DOMAIN list |-> list[e]]
        /\ \E pick \in [NodesOf(list) -> DOMAIN list] :
              /\ \A n \in NodesOf(list) : pick[n] \in LastOf(list, n)
              /\ byNode' = [n \in DOMAIN kept \cup NodesOf(list) |->
                    IF n \in NodesOf(list)
                    THEN NodeEntry(list, n, pick[n], ObjsKept(kept, n))
                    ELSE kept[n]]
        /\ best' = Best(list)
        /\ ratio' = 0
        /\ removed' = dropped
        /\ link' = [o \in Objects |-> IF o \in dropped THEN "dropped" ELSE link[o]]

\* GetEndpoint: the endpoints it may return for a preferred node and endpoint.
GetEndpoint(node, endpoint) ==
    IF node # 0 /\ node \in DOMAIN byNode THEN {byNode[node].endpoint}
    ELSE IF endpoint \in DOMAIN known THEN {endpoint}
    ELSE best

NextRatio(r) == (r * Cardinality(DOMAIN records) + 100) \div Cardinality(DOMAIN records)

Worse(recs, hit) ==
    [e \in DOMAIN recs |->
        IF e \in hit THEN [recs[e] EXCEPT !.priority = Pessimized] ELSE recs[e]]

\* Mutant: only Records_ hears of the ban.
KnownBefore(hit) == known

KnownAfter(hit) == Worse(known, hit)

\* Mutant: BestK_ is not computed again.
BestBefore(recs) == best

BestAfter(recs) == Best(recs)

\* PessimizeEndpointUnlocked for each endpoint of hit, the sort and GetBestK.
Pessimize(hit) ==
    /\ hit # {}
    /\ records' = Worse(records, hit)
    /\ known' = KnownAfter(hit)
    /\ byNode' = [n \in DOMAIN byNode |->
          IF byNode[n].endpoint \in hit /\ records[byNode[n].endpoint].node = n
          THEN [byNode[n] EXCEPT !.priority = Pessimized] ELSE byNode[n]]
    /\ best' = BestAfter(records')
    /\ ratio' = FoldSet(LAMBDA e, r : NextRatio(r), ratio, hit)
    /\ UNCHANGED <<objects, pool>>

Healthy == {e \in DOMAIN records : records[e].priority # Pessimized}

PessimizeEndpoint(e) == Pessimize({e} \cap Healthy)

PessimizeNode(n) == n # 0 /\ Pessimize(At(records, n) \cap Healthy)

\* LinkObjToEndpoint; without an entry for the node it returns false.
LinkObjToEndpoint(o, n) ==
    /\ link[o] = "none"
    /\ n \in DOMAIN byNode
    /\ byNode' = [byNode EXCEPT ![n].objs = @ \cup {o}]
    /\ link' = [link EXCEPT ![o] = "current"]
    /\ UNCHANGED <<records, known, best, ratio, removed, told, pool>>

\* Unlink, before the object is destroyed.  Its name is free for another one.
Unlink(o) ==
    /\ link[o] # "none"
    /\ byNode' = [n \in DOMAIN byNode |-> [byNode[n] EXCEPT !.objs = @ \ {o}]]
    /\ removed' = removed \ {o}
    /\ link' = [link EXCEPT ![o] = "none"]
    /\ told' = told \ {o}
    /\ UNCHANGED <<records, known, best, ratio, pool>>

----------------------------------------------------------------------------
\* TEndpointPool.

\* UpdateAsync: the first caller asks the provider, the others share its future.
UpdateAsync(c) ==
    /\ c \notin waiting \cup settling
    /\ waiting' = waiting \cup {c}
    /\ promise' = IF promise = "none" THEN "asked" ELSE promise
    /\ UNCHANGED <<elector, objects, settling>>

\* The handler, when the discovery succeeded.
HandleList(list) ==
    /\ promise = "asked"
    /\ SetNewState(list)
    /\ promise' = "listed"
    /\ UNCHANGED <<told, waiting, settling>>

\* The handler, when it failed.
HandleFailure ==
    /\ promise = "asked"
    /\ promise' = "notified"
    /\ UNCHANGED <<elector, objects, waiting, settling>>

\* Mutant: the notification is lost.
NotifiesNone(objs) == {}

Notifies(objs) == objs

\* NotifyEndpointRemoved for the registries that were dropped.
NotifyEndpointRemoved ==
    /\ promise = "listed"
    /\ told' = told \cup Notifies(removed)
    /\ removed' = {}
    /\ promise' = "notified"
    /\ UNCHANGED <<elector, link, waiting, settling>>

\* Mutant: a caller that joined has a promise of its own.
HolderOnly == {CHOOSE c \in waiting : TRUE}

Holders == waiting

\* DiscoveryPromise_.Swap(promise).
SwapPromise ==
    /\ promise = "notified"
    /\ promise' = "none"
    /\ settling' = settling \cup Holders
    /\ waiting' = waiting \ Holders
    /\ UNCHANGED <<elector, objects>>

\* promise.SetValue reaches a caller.
SetValue(c) ==
    /\ c \in settling
    /\ settling' = settling \ {c}
    /\ UNCHANGED <<elector, objects, promise, waiting>>

Discovery ==
    \/ \E list \in Discoveries : HandleList(list)
    \/ HandleFailure \/ NotifyEndpointRemoved \/ SwapPromise

Next ==
    \/ \E e \in Endpoints : PessimizeEndpoint(e)
    \/ \E n \in Nodes : PessimizeNode(n)
    \/ \E o \in Objects, n \in Nodes : LinkObjToEndpoint(o, n)
    \/ \E o \in Objects : Unlink(o)
    \/ \E c \in Callers : UpdateAsync(c) \/ SetValue(c)
    \/ Discovery

Spec == Init /\ [][Next]_vars

\* The discovery RPC has a deadline, and its handler runs to the end.
FairSpec ==
    /\ Spec
    /\ WF_vars(Discovery)
    /\ \A c \in Callers : WF_vars(SetValue(c))

----------------------------------------------------------------------------
\* Properties.

\* Every variable has its type.  (The ratio is a sum of rounded steps.)
TypeOK ==
    /\ DOMAIN records \subseteq Endpoints
    /\ \A e \in DOMAIN records : records[e] \in Record
    /\ DOMAIN byNode \subseteq Nodes
    /\ \A n \in DOMAIN byNode :
          byNode[n] \in [endpoint : Endpoints, priority : Priorities, objs : SUBSET Objects]
    /\ best \subseteq Endpoints
    /\ removed \subseteq Objects /\ told \subseteq Objects
    /\ link \in [Objects -> {"none", "current", "dropped"}]
    /\ promise \in {"none", "asked", "listed", "notified"}
    /\ waiting \subseteq Callers /\ settling \subseteq Callers
    /\ waiting # {} => promise # "none"

\* The three copies of a record agree and every record's node has an entry
\* (ForEachEndpoint takes it with at), after any refreshes and bans.
IndexesAgree ==
    /\ known = records
    /\ \A e \in DOMAIN records : records[e].node \in DOMAIN byNode
    /\ \A n \in DOMAIN byNode : At(records, n) # {} =>
          /\ byNode[n].endpoint \in At(records, n)
          /\ byNode[n].priority = records[byNode[n].endpoint].priority

\* Without a preference GetEndpoint returns an endpoint of the list, and a
\* banned one only when all are.
BestAreHealthy ==
    /\ best \subseteq DOMAIN records
    /\ DOMAIN records # {} => best # {}
    /\ Healthy # {} => best \subseteq Healthy

\* Each linked object is in one registry: in the map's, of one node, until it
\* unlinks or its registry is dropped.
LinkedOnce ==
    \A o \in Objects :
        Cardinality({n \in DOMAIN byNode : o \in byNode[n].objs})
            = IF link[o] = "current" THEN 1 ELSE 0

\* An object whose registry was dropped was told or is on the list of those to
\* tell, and the list is not lost: it is there only between the refresh that
\* made it and the notification.
DropsRemembered ==
    /\ \A o \in Objects : link[o] = "dropped" => o \in removed \cup told
    /\ removed # {} => promise = "listed"

\* Every object whose registry was dropped is told, unless it unlinks first.
DroppedAreTold ==
    \A o \in Objects : link[o] = "dropped" ~> (o \in told \/ link[o] # "dropped")

\* Every future UpdateAsync returns is set.
UpdatesComplete ==
    \A c \in Callers : c \in waiting ~> c \notin waiting \cup settling

\* "Returns preferred (if presents) or best endpoint": what GetEndpoint
\* returns is in the current list.
ReturnsPresent ==
    \A n \in Nodes, e \in Endpoints : GetEndpoint(n, e) \subseteq DOMAIN records

\* "percent of endpoints pessimized by transport error to start recheck": when
\* more than 50 % are pessimized the ratio exceeds 50.
HalfPessimizedIsSeen ==
    2 * Cardinality(DOMAIN records \ Healthy) > Cardinality(DOMAIN records) => ratio > 50
==============================================================================
