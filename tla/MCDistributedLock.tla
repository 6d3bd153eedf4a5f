------------------------- MODULE MCDistributedLock -------------------------
(***************************************************************************)
(* TLC instance of DistributedLock: two acquires and a release.  Acquires  *)
(* are interchangeable, and so are releases.                               *)
(***************************************************************************)
EXTENDS DistributedLock, TLC

Symmetry == Permutations(Acquires) \cup Permutations(SemOps \ Acquires)
=============================================================================
