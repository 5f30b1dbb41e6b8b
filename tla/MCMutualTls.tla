---------------------------- MODULE MCMutualTls -----------------------------
(* Instances of MutualTls for TLC. *)
EXTENDS MutualTls

Called(endpoint, filter, days) ==
  [complete |-> TRUE, endpoint |-> endpoint, filter |-> filter, days |-> days]

\* Days are counted in three bits here: 5 of them are -3.
AllOptions ==
  {Called("name", f, 2) : f \in {"none", "misses", "broken"}} \cup
  {Called("name", "fits", d) : d \in {0, 1, 5}} \cup
  {Called(e, "none", 1) : e \in {"address", "opaque"}}
=============================================================================
