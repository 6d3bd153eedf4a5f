----------------------- MODULE MCCoordinationSession -----------------------
(* TLC instance of CoordinationSession: one describe with a watch, one      *)
(* session lost callback, no semaphore.                                     *)
EXTENDS CoordinationSession
=============================================================================
