-------------------------- MODULE MCNodeReconciler --------------------------
(* Instances of NodeReconciler for TLC. *)
EXTENDS NodeReconciler

CONSTANTS n1
=============================================================================
