---------------------------- MODULE MCSessionPool ----------------------------
(* Instances of SessionPool for TLC. *)
EXTENDS SessionPool, TLC

CONSTANTS s1, s2, s3, c1, c2

MCSessions2 == {s1, s2}
MCSessions3 == {s1, s2, s3}
MCRequests2 == {c1, c2}

Symmetry3 == Permutations(MCSessions3) \cup Permutations(MCRequests2)
=============================================================================
