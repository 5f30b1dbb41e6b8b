----------------------------- MODULE MCEndpoint -----------------------------
(* Instances of Endpoint for TLC. *)
EXTENDS Endpoint

CONSTANTS t1, t2, s1, s2
=============================================================================
