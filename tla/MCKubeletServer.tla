--------------------------- MODULE MCKubeletServer ---------------------------
(* Instances of KubeletServer for TLC. *)
EXTENDS KubeletServer

CONSTANT other
=============================================================================
