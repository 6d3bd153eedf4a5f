------------------------ MODULE MCDriverStateTracker ------------------------
(* Callers of one key of the driver state cache. *)
EXTENDS DriverStateTracker

CONSTANTS c1, c2, c3, o1, o2

MCCallers == {c1, c2, c3}
MCNotifiers == {c1}
MCObjects == {o1, o2}
=============================================================================
