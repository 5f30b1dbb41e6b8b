--------------------------- MODULE MCPodProvider ---------------------------
(* Instances of PodProvider for TLC. *)
EXTENDS PodProvider, TLC

CONSTANTS p1, j1, j2, j3

Jobs == Permutations(JobId)
=============================================================================
