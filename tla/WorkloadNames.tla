--------------------------- MODULE WorkloadNames ----------------------------
(***************************************************************************)
(* WorkloadReconciler with the names that its Pods really have: the pairs  *)
(* of a job and an index that it uses for them stand for podName, whatever *)
(* the users have called their jobs.                                       *)
(***************************************************************************)
EXTENDS WorkloadReconciler, PodName

CONSTANTS
  Identifier,  \* identifiers that Slurm may have given to jobs
  JobName,     \* names that users may have given to them
  Index        \* indices of nodes

ASSUME NamesAssumption ==
  /\ Identifier \subseteq Seq(Digits) /\ <<>> \notin Identifier
  /\ JobName \subseteq Seq(Rune) /\ Index \subseteq 0..99

NamesFor(id, i) == {podName(id, name, i) : name \in JobName}

\* Indices for which Pods of two jobs, or of two nodes of a job, could get one name.
Confusable ==
  {i \in Index : \E id, other \in Identifier, k \in Index :
     <<id, i>> # <<other, k>> /\ NamesFor(id, i) \cap NamesFor(other, k) # {}}

\* The name of a Pod in the cluster tells of which job and node it is, however
\* much of the job's name was cut off: applying a Pod never takes over that of
\* another job, and the inventory never keeps one Pod for another one's sake.
NamesApart == \A n \in Present : n[2] \in Index \ Confusable

\* Users' names without Latin-1 letters, with which the conversion does what it says.
Plain == {name \in JobName : \A i \in DOMAIN name : name[i] \notin Latin}

\* Indices for which the name of some Pod would be refused.
Refused ==
  {i \in Index : \E id \in Identifier, name \in Plain : ~IsLabel(podName(id, name, i))}

\* Kubernetes accepts the name of every Pod, so that no job makes its round,
\* and all those after it, end with an error, as long as job names have
\* no letters of Latin-1 beyond ASCII.
NamesAccepted == \A n \in Present : n[2] \in Index \ Refused
=============================================================================
