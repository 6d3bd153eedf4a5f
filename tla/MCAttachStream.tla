--------------------------- MODULE MCAttachStream ---------------------------
(* The attach stream with two network threads, the default, and three. *)
EXTENDS AttachStream

CONSTANTS w1, w2, w3, d

MCWorkers2 == {w1, w2}
MCWorkers == {w1, w2, w3}
=============================================================================
