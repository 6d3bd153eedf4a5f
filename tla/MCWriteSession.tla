---------------------------- MODULE MCWriteSession ----------------------------
(* Instances of WriteSession for TLC. *)
EXTENDS WriteSession
=============================================================================
