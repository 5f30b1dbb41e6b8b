----------------------------- MODULE MCDispatch -----------------------------
(* Instances of Dispatch for TLC. *)
EXTENDS Dispatch

CONSTANTS c1, c2
=============================================================================
