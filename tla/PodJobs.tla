------------------------------ MODULE PodJobs -------------------------------
(***************************************************************************)
(* What Kubernetes and the agent see of the Pods of a node: the objects as *)
(* they are shown, requests for jobs and for their end, and the jobs.  It  *)
(* is what PodProvider promises, whatever the pod controller, the provider *)
(* and the tracker keep, read late, push or lose in between.               *)
(***************************************************************************)
EXTENDS Naturals

CONSTANTS Key, JobId, NoId, NoPod, NoJob

VARIABLES
  mirrored,  \* names of untracked Pods, which mirror jobs that exist already
  shown,     \* [Key -> [uid, id, phase] or NoPod]: the Pod objects
  deleting,  \* names whose object a user has asked to delete
  created,   \* [Key -> Nat]: how many objects the name has had
  asked,     \* requests for a job that the agent has not answered
  jobs,      \* [JobId -> [key, uid, phase] or NoJob]
  cancels,   \* [Key -> the job whose end the agent is being asked for, or NoId]
  restarts

vars == <<mirrored, shown, deleting, created, asked, jobs, cancels, restarts>>

Phase    == {"Pending", "Running", "Succeeded", "Failed"}
Terminal == {"Succeeded", "Failed"}

Init ==
  /\ mirrored \in SUBSET Key
  /\ shown = [k \in Key |-> NoPod]
  /\ deleting = {}
  /\ created = [k \in Key |-> 0]
  /\ asked = {}
  /\ jobs = [j \in JobId |-> NoJob]
  /\ cancels = [k \in Key |-> NoId]
  /\ restarts = 0

-----------------------------------------------------------------------------
(* Pod objects *)

Create(k) ==
  /\ shown[k] = NoPod
  /\ created' = [created EXCEPT ![k] = @ + 1]
  /\ shown' = [shown EXCEPT ![k] = [uid |-> created[k] + 1, id |-> NoId, phase |-> "Pending"]]
  /\ UNCHANGED <<mirrored, deleting, asked, jobs, cancels, restarts>>

Delete(k) ==
  /\ shown[k] # NoPod /\ k \notin deleting
  /\ deleting' = deleting \cup {k}
  /\ UNCHANGED <<mirrored, shown, created, asked, jobs, cancels, restarts>>

\* An object goes only after a user has asked for it.
Remove(k) ==
  /\ k \in deleting
  /\ deleting' = deleting \ {k}
  /\ shown' = [shown EXCEPT ![k] = NoPod]
  /\ UNCHANGED <<mirrored, created, asked, jobs, cancels, restarts>>

OwnJob(j, k, u) == jobs[j] # NoJob /\ jobs[j].key = k /\ jobs[j].uid = u

\* The first object of a name may be shown as Succeeded.
Succeeded(k) ==
  k \in mirrored \/ k \in deleting \/ created[k] > 1
    \/ \E j \in JobId : jobs[j] = [key |-> k, uid |-> 1, phase |-> "Succeeded"]

\* What is shown changes until it is an end; the identifier is that of a job of
\* this very object, or, after a push of an older copy, missing.
Show(k) ==
  /\ shown[k] # NoPod /\ shown[k].phase \notin Terminal
  /\ shown' # shown
  /\ \E p \in Phase, i \in JobId \cup {NoId} :
       /\ shown' = [shown EXCEPT ![k] = [uid |-> shown[k].uid, id |-> i, phase |-> p]]
       /\ p = "Succeeded" => Succeeded(k)
       /\ i # NoId => OwnJob(i, k, shown[k].uid)
  /\ UNCHANGED <<mirrored, deleting, created, asked, jobs, cancels, restarts>>

-----------------------------------------------------------------------------
(* Jobs *)

Dispatched(k, u) ==
  \/ \E r \in asked : r.key = k /\ r.uid = u
  \/ \E j \in JobId : OwnJob(j, k, u)

\* A job is asked for once, for an object that exists and is shown as neither
\* dispatched nor over; after a restart again only as long as Kubernetes does
\* not show the identifier.
Ask(k) ==
  /\ k \notin mirrored
  /\ shown[k] # NoPod /\ shown[k].id = NoId /\ shown[k].phase \notin Terminal
  /\ restarts = 0 => ~Dispatched(k, shown[k].uid)
  /\ asked' = asked \cup {[key |-> k, uid |-> shown[k].uid, run |-> restarts]}
  /\ UNCHANGED <<mirrored, shown, deleting, created, jobs, cancels, restarts>>

Submit(r, j) ==
  /\ r \in asked /\ jobs[j] = NoJob
  /\ asked' = asked \ {r}
  /\ jobs' = [jobs EXCEPT ![j] = [key |-> r.key, uid |-> r.uid, phase |-> "Pending"]]
  /\ UNCHANGED <<mirrored, shown, deleting, created, cancels, restarts>>

Refuse(r) ==
  /\ r \in asked
  /\ asked' = asked \ {r}
  /\ UNCHANGED <<mirrored, shown, deleting, created, jobs, cancels, restarts>>

\* The object is gone, or a user has asked to delete it.
Condemned(k, u) == shown[k] = NoPod \/ shown[k].uid # u \/ k \in deleting

\* Slurm decides what becomes of an active job.
Proceed(j) ==
  /\ jobs[j] # NoJob /\ jobs[j].phase \notin Terminal
  /\ \E p \in Phase : jobs' = [jobs EXCEPT ![j].phase = p]
  /\ UNCHANGED <<mirrored, shown, deleting, created, asked, cancels, restarts>>

\* Only the jobs of condemned objects are canceled.
AskCancel(k) ==
  /\ cancels[k] = NoId
  /\ \E j \in JobId :
       /\ jobs[j] # NoJob /\ jobs[j].key = k /\ Condemned(k, jobs[j].uid)
       /\ cancels' = [cancels EXCEPT ![k] = j]
  /\ UNCHANGED <<mirrored, shown, deleting, created, asked, jobs, restarts>>

\* The agent runs scancel, or the request is lost.
Cancel(k) ==
  /\ cancels[k] # NoId
  /\ cancels' = [cancels EXCEPT ![k] = NoId]
  /\ \/ UNCHANGED jobs
     \/ /\ jobs[cancels[k]].phase \notin Terminal
        /\ jobs' = [jobs EXCEPT ![cancels[k]].phase = "Failed"]
  /\ UNCHANGED <<mirrored, shown, deleting, created, asked, restarts>>

Restart ==
  /\ restarts' = restarts + 1
  /\ cancels' = [k \in Key |-> NoId]
  /\ UNCHANGED <<mirrored, shown, deleting, created, asked, jobs>>

-----------------------------------------------------------------------------
Next ==
  \/ \E k \in Key : Create(k) \/ Delete(k) \/ Remove(k) \/ Show(k)
  \/ \E k \in Key : Ask(k) \/ AskCancel(k) \/ Cancel(k)
  \/ \E r \in asked : Refuse(r) \/ \E j \in JobId : Submit(r, j)
  \/ \E j \in JobId : Proceed(j)
  \/ Restart

Spec == Init /\ [][Next]_vars
=============================================================================
