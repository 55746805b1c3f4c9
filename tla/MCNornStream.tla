---------------------------- MODULE MCNornStream ----------------------------
(* Instances of NornStream for TLC. *)
EXTENDS NornStream
=============================================================================
