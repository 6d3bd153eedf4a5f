----------------------- MODULE EndpointElectorProofs -----------------------
(***************************************************************************)
(* The endpoint list and its indexes, for any endpoints, nodes, objects,   *)
(* callers and lists.  The invariant adds to the properties that best is   *)
(* computed from the records and that an object's registries are one       *)
(* node's or none (a set, where LinkedOnce counts).                        *)
(***************************************************************************)
EXTENDS EndpointElector, FiniteSetTheorems, WellFoundedInduction, TLAPS

Homes(o) == {n \in DOMAIN byNode : o \in byNode[n].objs}

LinkOK ==
    \A o \in Objects : IF link[o] = "current" THEN \E n : Homes(o) = {n} ELSE Homes(o) = {}

Entry == [endpoint : Endpoints, priority : Priorities, objs : SUBSET Objects]

IInv ==
    /\ TypeOK /\ IndexesAgree /\ LinkOK /\ DropsRemembered
    /\ best = Best(records)

----------------------------------------------------------------------------
\* A non-empty list has an endpoint of the best priority.
LEMMA BestExists ==
    ASSUME NEW recs, \A e \in DOMAIN recs : recs[e].priority \in Nat, DOMAIN recs # {}
    PROVE  Best(recs) # {}
<1> DEFINE P == {recs[e].priority : e \in DOMAIN recs}
<1>1. P \subseteq Nat /\ P # {}
  OBVIOUS
<1> HIDE DEF P
<1>2. \E x \in P : \A y \in P : ~ (<<y, x>> \in OpToRel(<, Nat))
  BY Zenon, <1>1, NatLessThanWellFounded, WFMin
<1>3. PICK x \in P : \A y \in P : x <= y
  <2>1. PICK x \in P : \A y \in P : ~ (<<y, x>> \in OpToRel(<, Nat))
    BY Zenon, <1>2
  <2>2. ASSUME NEW y \in P PROVE x <= y
    <3>1. x \in Nat /\ y \in Nat
      BY Zenon, <1>1, <2>1, <2>2
    <3>2. ~ (<<y, x>> \in {ss \in Nat \X Nat : ss[1] < ss[2]})
      BY <2>1, <2>2 DEF OpToRel
    <3> QED
      BY <3>1, <3>2
  <2> QED
    BY Zenon, <2>1, <2>2
<1>4. PICK e \in DOMAIN recs : recs[e].priority = x
  BY <1>3 DEF P
<1>5. \A f \in DOMAIN recs : recs[f].priority \in P
  BY DEF P
<1> QED
  BY <1>3, <1>4, <1>5 DEF Best

\* What a sequence of bans does to a list of records.
LEMMA WorseRecords ==
    ASSUME NEW recs, NEW hit,
           \A e \in DOMAIN recs : recs[e] \in Record
    PROVE  /\ DOMAIN Worse(recs, hit) = DOMAIN recs
           /\ \A e \in DOMAIN recs :
                 /\ Worse(recs, hit)[e] \in Record
                 /\ Worse(recs, hit)[e].node = recs[e].node
                 /\ Worse(recs, hit)[e].priority
                      = IF e \in hit THEN Pessimized ELSE recs[e].priority
           /\ \A n : At(Worse(recs, hit), n) = At(recs, n)
<1>1. DOMAIN Worse(recs, hit) = DOMAIN recs
  BY DEF Worse
<1>2. ASSUME NEW e \in DOMAIN recs
      PROVE  /\ Worse(recs, hit)[e] \in Record
             /\ Worse(recs, hit)[e].node = recs[e].node
             /\ Worse(recs, hit)[e].priority
                  = IF e \in hit THEN Pessimized ELSE recs[e].priority
  BY <1>2 DEF Worse, Record, Priorities
<1> QED
  BY <1>1, <1>2 DEF At

----------------------------------------------------------------------------
LEMMA ElectorInit == Init => IInv
<1> SUFFICES ASSUME Init PROVE IInv
  OBVIOUS
<1>1. DOMAIN Empty = {}
  BY DEF Empty
<1>2. TypeOK
  BY <1>1 DEF Init, TypeOK
<1>3. IndexesAgree
  BY <1>1 DEF Init, IndexesAgree
<1>4. LinkOK
  BY <1>1 DEF Init, LinkOK, Homes
<1>5. DropsRemembered
  BY DEF Init, DropsRemembered
<1>6. best = Best(records)
  BY <1>1 DEF Init, Best
<1> QED
  BY <1>2, <1>3, <1>4, <1>5, <1>6 DEF IInv

LEMMA PessimizeStep ==
    ASSUME IInv, NEW hit \in SUBSET DOMAIN records, Pessimize(hit)
    PROVE  IInv'
<1> USE DEF IInv
<1>1. \A e \in DOMAIN records : records[e] \in Record
  BY DEF TypeOK
<1>2. /\ records' = Worse(records, hit)
      /\ known' = records'
      /\ best' = Best(records')
      /\ DOMAIN byNode' = DOMAIN byNode
      /\ UNCHANGED <<removed, link, told, promise, waiting, settling>>
  BY Zenon DEF Pessimize, KnownAfter, BestAfter, IndexesAgree, objects, pool
<1>3. /\ DOMAIN records' = DOMAIN records
      /\ \A e \in DOMAIN records :
            /\ records'[e] \in Record
            /\ records'[e].node = records[e].node
            /\ records'[e].priority
                 = IF e \in hit THEN Pessimized ELSE records[e].priority
      /\ \A n : At(records', n) = At(records, n)
  BY <1>1, <1>2, WorseRecords
<1>4. ASSUME NEW n \in DOMAIN byNode
      PROVE  /\ byNode'[n] \in Entry
             /\ byNode'[n].endpoint = byNode[n].endpoint
             /\ byNode'[n].objs = byNode[n].objs
             /\ byNode'[n].priority
                  = IF byNode[n].endpoint \in hit /\ records[byNode[n].endpoint].node = n
                    THEN Pessimized ELSE byNode[n].priority
  <2>1. byNode[n] \in Entry
    BY <1>4 DEF TypeOK, Entry
  <2>2. byNode'[n] = IF byNode[n].endpoint \in hit /\ records[byNode[n].endpoint].node = n
                     THEN [byNode[n] EXCEPT !.priority = Pessimized] ELSE byNode[n]
    BY Zenon, <1>4 DEF Pessimize
  <2> QED
    BY <2>1, <2>2 DEF Entry, Priorities
<1>5. TypeOK'
  <2>1. best' \subseteq Endpoints
    BY <1>2, <1>3 DEF Best, TypeOK
  <2> QED
    BY <1>2, <1>3, <1>4, <2>1 DEF TypeOK, Entry
<1>6. IndexesAgree'
  <2>1. \A e \in DOMAIN records' : records'[e].node \in DOMAIN byNode'
    BY <1>2, <1>3 DEF IndexesAgree
  <2>2. ASSUME NEW n \in DOMAIN byNode', At(records', n) # {}
        PROVE  /\ byNode'[n].endpoint \in At(records', n)
               /\ byNode'[n].priority = records'[byNode'[n].endpoint].priority
    <3>1. /\ byNode[n].endpoint \in At(records, n)
          /\ byNode[n].priority = records[byNode[n].endpoint].priority
      BY <1>2, <1>3, <2>2 DEF IndexesAgree
    <3> QED
      BY <1>2, <1>3, <1>4, <2>2, <3>1 DEF At
  <2> QED
    BY <1>2, <2>1, <2>2 DEF IndexesAgree
<1>7. LinkOK'
  <2>1. \A o : Homes(o)' = Homes(o)
    BY <1>2, <1>4 DEF Homes
  <2> QED
    BY Zenon, <1>2, <2>1 DEF LinkOK
<1>8. DropsRemembered'
  BY <1>2 DEF DropsRemembered
<1> QED
  BY <1>2, <1>5, <1>6, <1>7, <1>8

LEMMA HandleListStep ==
    ASSUME IInv, NEW list \in Discoveries, HandleList(list)
    PROVE  IInv'
<1> USE DEF IInv
<1> DEFINE gone == GoneNodes(list)
           kept == Restrict(byNode, DOMAIN byNode \ gone)
           dropped == UNION {byNode[n].objs : n \in gone}
<1>1. /\ records' = list
      /\ known' = [e \in DOMAIN list |-> list[e]]
      /\ best' = Best(list)
      /\ removed' = dropped
      /\ link' = [o \in Objects |-> IF o \in dropped THEN "dropped" ELSE link[o]]
      /\ promise = "asked" /\ promise' = "listed"
      /\ UNCHANGED <<told, waiting, settling>>
  BY DEF HandleList, SetNewState
<1>2. PICK pick \in [NodesOf(list) -> DOMAIN list] :
          /\ \A n \in NodesOf(list) : pick[n] \in LastOf(list, n)
          /\ byNode' = [n \in DOMAIN kept \cup NodesOf(list) |->
                IF n \in NodesOf(list)
                THEN NodeEntry(list, n, pick[n], ObjsKept(kept, n))
                ELSE kept[n]]
  BY DEF HandleList, SetNewState
<1>3. /\ DOMAIN kept = DOMAIN byNode \ gone
      /\ \A n \in DOMAIN byNode \ gone : kept[n] = byNode[n]
  BY DEF Restrict
<1>4. /\ DOMAIN list \subseteq Endpoints
      /\ \A e \in DOMAIN list : list[e] \in [priority : Loads, node : Nodes]
      /\ \A e \in DOMAIN list : list[e] \in Record
  BY DiscoveriesLists DEF Record, Priorities
<1>5. gone \subseteq DOMAIN byNode
  BY DEF GoneNodes
<1> HIDE DEF gone, kept, dropped
<1>6. DOMAIN byNode' = (DOMAIN byNode \ gone) \cup NodesOf(list)
  BY <1>2, <1>3
<1>7. ASSUME NEW n \in NodesOf(list)
      PROVE  /\ byNode'[n].endpoint = pick[n]
             /\ byNode'[n].priority = list[pick[n]].priority
             /\ byNode'[n].objs = IF n \in DOMAIN byNode \ gone THEN byNode[n].objs ELSE {}
             /\ byNode'[n] = [endpoint |-> pick[n], priority |-> list[pick[n]].priority,
                              objs |-> byNode'[n].objs]
             /\ pick[n] \in At(list, n)
  BY Zenon, <1>2, <1>3, <1>7 DEF NodeEntry, ObjsKept, LastOf
<1>8. ASSUME NEW n \in (DOMAIN byNode \ gone) \ NodesOf(list)
      PROVE  byNode'[n] = byNode[n]
  BY <1>2, <1>3, <1>8
<1>9. \A n \in DOMAIN byNode : byNode[n] \in Entry
  BY DEF TypeOK, Entry
<1>10. \A n \in DOMAIN byNode' : byNode'[n] \in Entry
  <2>1. ASSUME NEW n \in NodesOf(list) PROVE byNode'[n] \in Entry
    <3>1. byNode'[n].objs \in SUBSET Objects
      BY Zenon, <1>7, <1>9, <2>1 DEF Entry
    <3>2. pick[n] \in DOMAIN list
      BY <1>2, <2>1
    <3>3. list[pick[n]].priority \in Priorities
      BY <1>4, <3>2 DEF Record
    <3>4. byNode'[n] = [endpoint |-> pick[n], priority |-> list[pick[n]].priority,
                        objs |-> byNode'[n].objs]
      BY <1>7, <2>1
    <3> QED
      BY <1>4, <3>1, <3>2, <3>3, <3>4 DEF Entry
  <2> QED
    BY <1>6, <1>8, <1>9, <2>1
<1>11. DOMAIN byNode' \subseteq Nodes
  BY <1>4, <1>6 DEF TypeOK, NodesOf
<1>12. dropped \subseteq Objects
  BY <1>5, <1>9 DEF dropped, Entry
<1>13. TypeOK'
  <2>1. best' \subseteq Endpoints
    BY <1>1, <1>4 DEF Best
  <2>2. link' \in [Objects -> {"none", "current", "dropped"}]
    BY <1>1 DEF TypeOK
  <2> QED
    BY <1>1, <1>4, <1>10, <1>11, <1>12, <2>1, <2>2 DEF TypeOK, Entry
<1>14. IndexesAgree'
  <2>1. known' = records'
    <3>1. list = [e \in DOMAIN list |-> list[e]]
      BY DiscoveriesLists
    <3> QED
      BY <1>1, <3>1
  <2>2. \A e \in DOMAIN records' : records'[e].node \in DOMAIN byNode'
    BY <1>1, <1>6 DEF NodesOf
  <2>3. ASSUME NEW n \in DOMAIN byNode', At(records', n) # {}
        PROVE  /\ byNode'[n].endpoint \in At(records', n)
               /\ byNode'[n].priority = records'[byNode'[n].endpoint].priority
    <3>1. n \in NodesOf(list)
      BY <1>1, <2>3 DEF NodesOf, At
    <3> QED
      BY Zenon, <1>1, <1>7, <3>1
  <2> QED
    BY <2>1, <2>2, <2>3 DEF IndexesAgree
<1>15. LinkOK'
  <2>1. ASSUME NEW o PROVE Homes(o)' = Homes(o) \ gone
    BY <1>6, <1>7, <1>8 DEF Homes
  <2>2. \A o : o \in dropped <=> Homes(o) \cap gone # {}
    BY <1>5 DEF Homes, dropped
  <2>3. ASSUME NEW o \in Objects
        PROVE  IF link'[o] = "current" THEN \E n : Homes(o)' = {n} ELSE Homes(o)' = {}
    <3>1. IF link[o] = "current" THEN \E n : Homes(o) = {n} ELSE Homes(o) = {}
      BY Zenon DEF LinkOK
    <3>2. link'[o] = IF o \in dropped THEN "dropped" ELSE link[o]
      BY <1>1
    <3>3. CASE o \in dropped
      <4>1. link[o] = "current"
        BY <2>2, <3>1, <3>3
      <4>2. Homes(o) \ gone = {}
        BY <2>2, <3>1, <3>3, <4>1
      <4> QED
        BY <2>1, <3>2, <3>3, <4>2
    <3>4. CASE o \notin dropped
      <4>1. Homes(o) \ gone = Homes(o)
        BY <2>2, <3>4
      <4> QED
        BY Zenon, <2>1, <3>1, <3>2, <3>4, <4>1
    <3> QED
      BY Zenon, <3>3, <3>4
  <2> QED
    BY Zenon, <2>3 DEF LinkOK
<1>16. DropsRemembered'
  BY <1>1 DEF DropsRemembered, TypeOK
<1> QED
  BY <1>1, <1>13, <1>14, <1>15, <1>16

LEMMA LinkStep ==
    ASSUME IInv, NEW o \in Objects, NEW n \in Nodes, LinkObjToEndpoint(o, n)
    PROVE  IInv'
<1> USE DEF IInv
<1>1. /\ link[o] = "none" /\ n \in DOMAIN byNode
      /\ byNode' = [byNode EXCEPT ![n].objs = @ \cup {o}]
      /\ link' = [link EXCEPT ![o] = "current"]
      /\ UNCHANGED <<records, known, best, removed, told, promise, waiting, settling>>
  BY DEF LinkObjToEndpoint, pool
<1>2. \A m \in DOMAIN byNode : byNode[m] \in Entry
  BY DEF TypeOK, Entry
<1>3. /\ DOMAIN byNode' = DOMAIN byNode
      /\ \A m \in DOMAIN byNode :
            /\ byNode'[m] \in Entry
            /\ byNode'[m].endpoint = byNode[m].endpoint
            /\ byNode'[m].priority = byNode[m].priority
            /\ byNode'[m].objs = IF m = n THEN byNode[m].objs \cup {o} ELSE byNode[m].objs
  <2>1. DOMAIN byNode' = DOMAIN byNode
    BY <1>1
  <2>2. ASSUME NEW m \in DOMAIN byNode, m # n PROVE byNode'[m] = byNode[m]
    BY <1>1, <2>2
  <2>3. byNode'[n] = [byNode[n] EXCEPT !.objs = @ \cup {o}]
    BY <1>1
  <2>4. /\ byNode'[n] \in Entry
        /\ byNode'[n].endpoint = byNode[n].endpoint
        /\ byNode'[n].priority = byNode[n].priority
        /\ byNode'[n].objs = byNode[n].objs \cup {o}
    BY <1>1, <1>2, <2>3 DEF Entry
  <2> QED
    BY <1>2, <2>1, <2>2, <2>4
<1>4. TypeOK'
  BY <1>1, <1>3 DEF TypeOK, Entry
<1>5. IndexesAgree'
  <2>1. \A m : At(records', m) = At(records, m)
    BY <1>1
  <2>2. UNCHANGED <<records, known>> /\ IndexesAgree
    BY <1>1
  <2> QED
    BY Zenon, <1>3, <2>1, <2>2 DEF IndexesAgree
<1>6. LinkOK'
  <2>1. ASSUME NEW p, p # o PROVE Homes(p)' = Homes(p)
    BY Zenon, <1>3, <2>1 DEF Homes
  <2>2. Homes(o)' = Homes(o) \cup {n}
    BY <1>1, <1>3 DEF Homes
  <2>3. Homes(o) = {} /\ link'[o] = "current"
    BY <1>1 DEF LinkOK, TypeOK
  <2>4. \A p \in Objects : p # o => link'[p] = link[p]
    BY <1>1 DEF TypeOK
  <2> QED
    BY <2>1, <2>2, <2>3, <2>4 DEF LinkOK
<1>7. DropsRemembered'
  BY <1>1 DEF DropsRemembered, TypeOK
<1>8. best' = Best(records')
  BY <1>1
<1> QED
  BY <1>4, <1>5, <1>6, <1>7, <1>8

LEMMA UnlinkStep ==
    ASSUME IInv, NEW o \in Objects, Unlink(o)
    PROVE  IInv'
<1> USE DEF IInv
<1>1. /\ byNode' = [n \in DOMAIN byNode |-> [byNode[n] EXCEPT !.objs = @ \ {o}]]
      /\ removed' = removed \ {o}
      /\ link' = [link EXCEPT ![o] = "none"]
      /\ told' = told \ {o}
      /\ UNCHANGED <<records, known, best, promise, waiting, settling>>
  BY DEF Unlink, pool
<1>2. \A m \in DOMAIN byNode : byNode[m] \in Entry
  BY DEF TypeOK, Entry
<1>3. /\ DOMAIN byNode' = DOMAIN byNode
      /\ \A m \in DOMAIN byNode :
            /\ byNode'[m] \in Entry
            /\ byNode'[m].endpoint = byNode[m].endpoint
            /\ byNode'[m].priority = byNode[m].priority
            /\ byNode'[m].objs = byNode[m].objs \ {o}
  <2>1. ASSUME NEW m \in DOMAIN byNode
        PROVE  byNode'[m] = [byNode[m] EXCEPT !.objs = @ \ {o}]
    BY <1>1, <2>1
  <2> QED
    BY <1>1, <1>2, <2>1 DEF Entry
<1>4. TypeOK'
  BY Zenon, <1>1, <1>3 DEF TypeOK, Entry
<1>5. IndexesAgree'
  <2>1. \A m : At(records', m) = At(records, m)
    BY <1>1
  <2>2. UNCHANGED <<records, known>> /\ IndexesAgree
    BY <1>1
  <2> QED
    BY <1>3, <2>1, <2>2 DEF IndexesAgree
<1>6. LinkOK'
  <2>1. ASSUME NEW p, p # o PROVE Homes(p)' = Homes(p)
    BY <1>3, <2>1 DEF Homes
  <2>2. Homes(o)' = {}
    BY <1>3 DEF Homes
  <2>3. link'[o] = "none" /\ \A p \in Objects : p # o => link'[p] = link[p]
    BY <1>1 DEF TypeOK
  <2> QED
    BY Zenon, <2>1, <2>2, <2>3 DEF LinkOK
<1>7. DropsRemembered'
  BY <1>1 DEF DropsRemembered, TypeOK
<1>8. best' = Best(records')
  BY <1>1
<1> QED
  BY <1>4, <1>5, <1>6, <1>7, <1>8

\* The steps of TEndpointPool that leave the list alone.
LEMMA PoolStep ==
    ASSUME IInv, UNCHANGED <<elector, link>>, TypeOK', DropsRemembered'
    PROVE  IInv'
<1>1. UNCHANGED <<records, known, byNode, best, link>>
  BY DEF elector
<1>2. IndexesAgree' /\ LinkOK' /\ best' = Best(records')
  BY ZenonT(40), <1>1 DEF IInv, IndexesAgree, LinkOK, Homes, At
<1> QED
  BY <1>2 DEF IInv

LEMMA ElectorStep == IInv /\ [Next]_vars => IInv'
<1> SUFFICES ASSUME IInv, [Next]_vars PROVE IInv'
  OBVIOUS
<1>0. TypeOK /\ DropsRemembered
  BY DEF IInv
<1>1. ASSUME NEW e \in Endpoints, PessimizeEndpoint(e) PROVE IInv'
  <2>1. {e} \cap Healthy \in SUBSET DOMAIN records
    BY DEF Healthy
  <2> QED
    BY <1>1, <2>1, PessimizeStep DEF PessimizeEndpoint
<1>2. ASSUME NEW n \in Nodes, PessimizeNode(n) PROVE IInv'
  <2>1. At(records, n) \cap Healthy \in SUBSET DOMAIN records
    BY DEF Healthy
  <2> QED
    BY <1>2, <2>1, PessimizeStep DEF PessimizeNode
<1>3. ASSUME NEW c \in Callers, UpdateAsync(c) PROVE IInv'
  <2>1. UNCHANGED <<elector, link, removed, told>>
    BY <1>3 DEF UpdateAsync, objects
  <2>2. TypeOK'
    BY <1>0, <1>3, <2>1 DEF UpdateAsync, TypeOK, elector
  <2>3. DropsRemembered'
    BY <1>0, <1>3, <2>1 DEF UpdateAsync, DropsRemembered
  <2> QED
    BY <2>1, <2>2, <2>3, PoolStep
<1>4. ASSUME NEW c \in Callers, SetValue(c) PROVE IInv'
  <2>1. UNCHANGED <<elector, link, removed, told, promise, waiting>>
    BY <1>4 DEF SetValue, objects
  <2>2. TypeOK'
    BY <1>0, <1>4, <2>1 DEF SetValue, TypeOK, elector
  <2>3. DropsRemembered'
    BY <1>0, <2>1 DEF DropsRemembered
  <2> QED
    BY <2>1, <2>2, <2>3, PoolStep
<1>5. CASE HandleFailure
  <2>1. UNCHANGED <<elector, link, removed, told>>
    BY <1>5 DEF HandleFailure, objects
  <2>2. TypeOK'
    BY <1>0, <1>5, <2>1 DEF HandleFailure, TypeOK, elector
  <2>3. DropsRemembered'
    BY <1>0, <1>5, <2>1 DEF HandleFailure, DropsRemembered
  <2> QED
    BY <2>1, <2>2, <2>3, PoolStep
<1>6. CASE NotifyEndpointRemoved
  <2>1. UNCHANGED <<elector, link>>
    BY <1>6 DEF NotifyEndpointRemoved
  <2>2. TypeOK'
    BY <1>0, <1>6, <2>1 DEF NotifyEndpointRemoved, Notifies, TypeOK, elector
  <2>3. DropsRemembered'
    BY <1>0, <1>6, <2>1 DEF NotifyEndpointRemoved, Notifies, DropsRemembered
  <2> QED
    BY <2>1, <2>2, <2>3, PoolStep
<1>7. CASE SwapPromise
  <2>1. UNCHANGED <<elector, link, removed, told>>
    BY SMTT(30), <1>7 DEF SwapPromise, objects
  <2>2. TypeOK'
    BY <1>0, <1>7, <2>1 DEF SwapPromise, Holders, TypeOK, elector
  <2>3. DropsRemembered'
    BY <1>0, <1>7, <2>1 DEF SwapPromise, DropsRemembered
  <2> QED
    BY <2>1, <2>2, <2>3, PoolStep
<1>8. CASE UNCHANGED vars
  <2>1. UNCHANGED <<elector, link, removed, told, promise, waiting, settling>>
    BY <1>8 DEF vars, objects, pool
  <2>2. TypeOK' /\ DropsRemembered'
    BY <1>0, <2>1 DEF TypeOK, DropsRemembered, elector
  <2> QED
    BY <2>1, <2>2, PoolStep
<1> QED
  BY <1>1, <1>2, <1>3, <1>4, <1>5, <1>6, <1>7, <1>8,
     HandleListStep, LinkStep, UnlinkStep DEF Next, Discovery

\* The invariant behind the theorems below holds in every reachable state.
THEOREM Invariance == Spec => []IInv
  BY ElectorInit, ElectorStep, PTL DEF Spec

\* Every variable has its type.
THEOREM TypeCorrect == Spec => []TypeOK
<1>1. IInv => TypeOK
  BY DEF IInv
<1> QED
  BY <1>1, Invariance, PTL

\* Records_, KnownEndpoints_ and KnownEndpointsByNodeId_ agree after any
\* sequence of refreshes and bans, so the at() of ForEachEndpoint finds its
\* entry.
THEOREM IndexesInStep == Spec => []IndexesAgree
<1>1. IInv => IndexesAgree
  BY DEF IInv
<1> QED
  BY <1>1, Invariance, PTL

\* GetEndpoint without a preference has an endpoint to return whenever the list
\* is not empty, and returns a banned one only when all are banned.
THEOREM BestIsHealthy == Spec => []BestAreHealthy
<1>1. IInv => BestAreHealthy
  <2> SUFFICES ASSUME IInv PROVE BestAreHealthy
    OBVIOUS
  <2>1. /\ best = Best(records)
        /\ \A e \in DOMAIN records : records[e] \in Record
        /\ known = records
    BY DEF IInv, TypeOK, IndexesAgree
  <2>2. \A e \in DOMAIN records :
            records[e].priority \in Nat /\ records[e].priority <= Pessimized
    <3>1. \A p \in Priorities : p \in Nat /\ p <= Pessimized
      BY LoadsNat DEF Priorities
    <3>2. \A e \in DOMAIN records : records[e].priority \in Priorities
      BY <2>1 DEF Record
    <3> QED
      BY <3>1, <3>2
  <2>3. best \subseteq DOMAIN records
    BY <2>1 DEF Best
  <2>4. DOMAIN records # {} => best # {}
    BY <2>1, <2>2, BestExists
  <2>5. ASSUME NEW h \in Healthy, NEW e \in best PROVE e \in Healthy
    <3>1. records[e].priority <= records[h].priority /\ e \in DOMAIN records
      BY <2>1, <2>5 DEF Best, Healthy
    <3> QED
      BY <2>2, <2>5, <3>1, LoadsNat DEF Healthy
  <2> QED
    BY <2>3, <2>4, <2>5 DEF BestAreHealthy
<1> QED
  BY <1>1, Invariance, PTL

\* A linked object is in the registry of one node, and of none once it unlinked
\* or its registry was dropped.
THEOREM ObjectLinkedOnce == Spec => []LinkedOnce
<1>1. IInv => LinkedOnce
  <2> SUFFICES ASSUME LinkOK, NEW o \in Objects
               PROVE  Cardinality(Homes(o)) = IF link[o] = "current" THEN 1 ELSE 0
    BY DEF IInv, LinkedOnce, Homes
  <2>1. IF link[o] = "current" THEN \E n : Homes(o) = {n} ELSE Homes(o) = {}
    BY Zenon DEF LinkOK
  <2> QED
    BY Zenon, <2>1, FS_EmptySet, FS_Singleton
<1> QED
  BY <1>1, Invariance, PTL

\* SetNewState forgets no object of a registry it drops, however refreshes,
\* unlinks and notifications are interleaved.
THEOREM NoDropForgotten == Spec => []DropsRemembered
<1>1. IInv => DropsRemembered
  BY DEF IInv
<1> QED
  BY <1>1, Invariance, PTL
=============================================================================
