------------------------ MODULE MCWorkloadReconciler ------------------------
(* Instances of WorkloadNames for TLC. *)
EXTENDS WorkloadNames

CONSTANT a

\* A job identifier that is the beginning of another one.
SomeIdentifiers == {<<"1">>, <<"1", "0">>}

\* Names shorter and longer than the room that a Pod name has for them.
SomeNames == BoundedSeq({"A", "_", "1", "sz"}, 5)
=============================================================================
