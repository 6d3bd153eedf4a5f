-------------------------- MODULE MCEndpointElector --------------------------
(* Small lists of endpoints for the elector. *)
EXTENDS EndpointElector, TLC

CONSTANTS e1, e2, e3, o1, o2, c1, c2

MCEndpoints == {e1, e2, e3}
MCNodes == 0 .. 2
MCLoads == {0, 1}
MCObjects == {o1, o2}
MCCallers == {c1, c2}

R(p, n) == [priority |-> p, node |-> n]

\* Two nodes, one with two addresses; loads that change; a node that keeps its
\* address and gets another id; nodes without an id; nodes that disappear.
MCDiscoveries ==
    { (e1 :> R(0, 1)) @@ (e2 :> R(0, 1)) @@ (e3 :> R(1, 2)),
      (e1 :> R(1, 1)) @@ (e3 :> R(0, 2)),
      (e1 :> R(0, 2)) @@ (e2 :> R(0, 1)),
      (e2 :> R(0, 0)) @@ (e3 :> R(0, 0)),
      (e3 :> R(1, 1)),
      Empty }

\* Thirteen endpoints of a server that reports no node ids.
MCMany == 1 .. 13
MCNoNodes == {0}
MCManyList == {[e \in MCMany |-> R(0, 0)]}
MCNoObjects == {}
==============================================================================
