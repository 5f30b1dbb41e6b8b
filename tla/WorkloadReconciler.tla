------------------------- MODULE WorkloadReconciler -------------------------
(***************************************************************************)
(* The workload reconciler (controller/pkg/workload/reconciler.go) and its *)
(* inventory (controller/pkg/inventory/inventory.go).  A round streams the *)
(* jobs that the agent lists, applies one Pod for each node of each job,   *)
(* passes the phase of the job on to the Pod provider and the tracker, and *)
(* deletes the Pods that the previous inventory has and the round does     *)
(* not.  The agent's List (agent/pkg/server/workload.go), Slurm and the    *)
(* Kubernetes API are around it; a round may fail at any call it makes,    *)
(* which is also what stopping the loop or losing the agent does to it.    *)
(***************************************************************************)
EXTENDS Naturals, FiniteSets

CONSTANTS
  Job,         \* identifiers of jobs, never used twice
  MaxWidth,    \* bound: nodes allocated to one job
  Faults,      \* the calls that may fail
  MaxFail,     \* bound: calls that fail
  MaxRestart,  \* bound: restarts of the controller
  NoPod, NoJob, NoPhase, NoInventory, NoListing

Phase == {"Pending", "Running", "Ended"}

\* A job as the agent lists it: its phase, which is also its job-state label,
\* and how many nodes it has been allocated.
Listed == [phase : Phase, width : 0..MaxWidth]

\* The name of a Pod is made of the job's identifier and the node's index.
Name == Job \X (0..(MaxWidth - 1))

\* An untracked Pod: its job-state label, and whether a node is in its spec.
Pod == [phase : Phase, bound : BOOLEAN]

ASSUME ReconcilerAssumption ==
  /\ MaxWidth \in Nat \ {0}
  /\ Faults \subseteq {"list", "populate", "stream", "apply", "delete"}
  /\ MaxFail \in Nat /\ MaxRestart \in Nat

ASSUME ValueAssumption ==
  /\ NoPod \notin Pod /\ NoJob \notin Listed /\ NoPhase \notin Phase
  /\ \A names \in SUBSET Name : names # NoInventory
  /\ \A list \in [Job -> Listed \cup {NoJob}] : list # NoListing

VARIABLES
  jobs,       \* [Job -> Listed or NoJob]: what Slurm keeps
  submitted,  \* the jobs there have been
  cluster,    \* [Name -> Pod or NoPod]: untracked Pods in Kubernetes
  inventory,  \* wlReconciler.inventory, nil or a set of names
  stage,      \* where the round is
  listing,    \* what the agent has read from Slurm in this round
  received,   \* the jobs this round has received
  fresh,      \* newInventory
  told,       \* [Name -> phase last passed to the provider and the tracker]
  fails, restarts

slurmVars == <<jobs, submitted>>
roundVars == <<stage, listing, received, fresh>>
vars == <<slurmVars, cluster, inventory, roundVars, told, fails, restarts>>

TypeOK ==
  /\ jobs \in [Job -> Listed \cup {NoJob}]
  /\ submitted \subseteq Job
  /\ cluster \in [Name -> Pod \cup {NoPod}]
  /\ inventory \in {NoInventory} \cup SUBSET Name
  /\ stage \in {"idle", "opened", "receiving"}
  /\ listing \in {NoListing} \cup [Job -> Listed \cup {NoJob}]
  /\ received \subseteq Job
  /\ fresh \subseteq Name
  /\ told \in [Name -> Phase \cup {NoPhase}]
  /\ fails \in 0..MaxFail
  /\ restarts \in 0..MaxRestart

Init ==
  /\ jobs = [j \in Job |-> NoJob] /\ submitted = {}
  /\ cluster = [n \in Name |-> NoPod]
  /\ inventory = NoInventory
  /\ stage = "idle" /\ listing = NoListing /\ received = {} /\ fresh = {}
  /\ told = [n \in Name |-> NoPhase]
  /\ fails = 0 /\ restarts = 0

Present == {n \in Name : cluster[n] # NoPod}

-----------------------------------------------------------------------------
(* Slurm *)

SetJob(j, r) == /\ jobs' = [jobs EXCEPT ![j] = r]
                /\ UNCHANGED <<cluster, inventory, roundVars, told, fails, restarts>>

Submit(j) ==
  /\ j \notin submitted
  /\ submitted' = submitted \cup {j}
  /\ SetJob(j, [phase |-> "Pending", width |-> 0])

InPhase(j, p) == jobs[j] # NoJob /\ jobs[j].phase = p

Allocate(j) ==
  /\ InPhase(j, "Pending")
  /\ \E w \in 1..MaxWidth : SetJob(j, [phase |-> "Running", width |-> w])
  /\ UNCHANGED submitted

Requeue(j) ==
  /\ InPhase(j, "Running")
  /\ SetJob(j, [phase |-> "Pending", width |-> 0])
  /\ UNCHANGED submitted

End(j) ==
  /\ InPhase(j, "Pending") \/ InPhase(j, "Running")
  /\ SetJob(j, [jobs[j] EXCEPT !.phase = "Ended"])
  /\ UNCHANGED submitted

\* Slurm forgets a job some time after its end.
Purge(j) ==
  /\ InPhase(j, "Ended")
  /\ SetJob(j, NoJob)
  /\ UNCHANGED submitted

Slurm(j) == Submit(j) \/ Allocate(j) \/ Requeue(j) \/ End(j) \/ Purge(j)

-----------------------------------------------------------------------------
(* The round *)

Fault(call) == call \in Faults /\ fails < MaxFail /\ fails' = fails + 1

\* Back to waiting for the ticker.
Returns == stage' = "idle" /\ listing' = NoListing /\ received' = {} /\ fresh' = {}

Begin ==
  /\ stage = "idle"
  /\ stage' = "opened"
  /\ UNCHANGED <<slurmVars, cluster, inventory, listing, received, fresh, told, fails, restarts>>

ListFails ==
  /\ stage = "idle"
  /\ Fault("list")
  /\ UNCHANGED <<slurmVars, cluster, inventory, roundVars, told, restarts>>

\* The agent reads all jobs at once, while the controller may still be busy
\* with Populate.
AgentLists ==
  /\ stage # "idle"
  /\ listing = NoListing
  /\ listing' = jobs
  /\ UNCHANGED <<slurmVars, cluster, inventory, stage, received, fresh, told, fails, restarts>>

\* Mutant: the inventory of the first round is left empty.
PrepareEmpty ==
  /\ stage = "opened"
  /\ stage' = "receiving"
  /\ inventory' = IF inventory = NoInventory THEN {} ELSE inventory
  /\ UNCHANGED <<slurmVars, cluster, listing, received, fresh, told, fails, restarts>>

\* The inventory is populated in the first round only.
Prepare ==
  /\ stage = "opened"
  /\ stage' = "receiving"
  /\ inventory' = IF inventory = NoInventory THEN Present ELSE inventory
  /\ UNCHANGED <<slurmVars, cluster, listing, received, fresh, told, fails, restarts>>

\* The inventory has been assigned before Populate fails to fill it.
PopulateFails ==
  /\ stage = "opened" /\ inventory = NoInventory
  /\ Fault("populate")
  /\ inventory' = {}
  /\ Returns
  /\ UNCHANGED <<slurmVars, cluster, told, restarts>>

\* convertToPods: a Pod for each node, or one that is not scheduled.
PodsOf(j) == {j} \X {i \in 0..(MaxWidth - 1) : i = 0 \/ i < listing[j].width}
PodFor(j) == [phase |-> listing[j].phase, bound |-> listing[j].width > 0]

\* What server-side apply does to a Pod.  The node of a Pod cannot change: a
\* forced apply deletes the Pod and creates it again.
Action(n) ==
  CASE cluster[n] = NoPod \/ (cluster[n] # NoPod /\ cluster[n].bound # PodFor(n[1]).bound) -> "created"
    [] cluster[n] = PodFor(n[1]) -> "unchanged"
    [] OTHER -> "configured"

Applied(j, names) == [n \in Name |-> IF n \in names THEN PodFor(j) ELSE cluster[n]]

Awaited(j) == /\ stage = "receiving" /\ listing # NoListing
              /\ j \notin received /\ listing[j] # NoJob

\* Mutant: statuses are passed on for Pods that have just been created only.
ReceiveCreated(j) ==
  /\ Awaited(j)
  /\ received' = received \cup {j}
  /\ fresh' = fresh \cup PodsOf(j)
  /\ cluster' = Applied(j, PodsOf(j))
  /\ told' = [n \in Name |-> IF n \in PodsOf(j) /\ Action(n) = "created"
                             THEN listing[j].phase ELSE told[n]]
  /\ UNCHANGED <<slurmVars, inventory, stage, listing, fails, restarts>>

\* One turn of the loop: apply the Pods of a job, add them to newInventory,
\* and pass on the phase for those that were created or left as they were.
Receive(j) ==
  /\ Awaited(j)
  /\ received' = received \cup {j}
  /\ fresh' = fresh \cup PodsOf(j)
  /\ cluster' = Applied(j, PodsOf(j))
  /\ told' = [n \in Name |-> IF n \in PodsOf(j) /\ Action(n) # "configured"
                             THEN listing[j].phase ELSE told[n]]
  /\ UNCHANGED <<slurmVars, inventory, stage, listing, fails, restarts>>

\* Some Pods of the job have been applied, none of them is recorded.
ApplyFails(j) ==
  /\ Awaited(j)
  /\ Fault("apply")
  /\ \E names \in SUBSET PodsOf(j) : cluster' = Applied(j, names)
  /\ Returns
  /\ UNCHANGED <<slurmVars, inventory, told, restarts>>

Stale == inventory \ fresh

Without(names) == [n \in Name |-> IF n \in names THEN NoPod ELSE cluster[n]]

\* Mutant: any error of Recv is taken for the end of the stream.
StreamEnds ==
  /\ stage = "receiving"
  /\ Fault("stream")
  /\ cluster' = Without(Stale)
  /\ inventory' = fresh
  /\ Returns
  /\ UNCHANGED <<slurmVars, told, restarts>>

\* The agent cannot read the jobs, or the stream breaks before its end.
StreamFails ==
  /\ stage = "receiving"
  /\ Fault("stream")
  /\ Returns
  /\ UNCHANGED <<slurmVars, cluster, inventory, told, restarts>>

EndOfStream == /\ stage = "receiving" /\ listing # NoListing
               /\ \A j \in Job : listing[j] # NoJob => j \in received

\* Mutant: the new inventory does not become the current one.
CollectForgetting ==
  /\ EndOfStream
  /\ cluster' = Without(Stale)
  /\ Returns
  /\ UNCHANGED <<slurmVars, inventory, told, fails, restarts>>

\* Garbage collection, after which the new inventory is current.
Collect ==
  /\ EndOfStream
  /\ cluster' = Without(Stale)
  /\ inventory' = fresh
  /\ Returns
  /\ UNCHANGED <<slurmVars, told, fails, restarts>>

\* Some stale Pods have been deleted; the old inventory stays.
CollectFails ==
  /\ EndOfStream
  /\ Fault("delete")
  /\ \E names \in SUBSET Stale : cluster' = Without(names)
  /\ Returns
  /\ UNCHANGED <<slurmVars, inventory, told, restarts>>

Round ==
  \/ Begin \/ AgentLists \/ Prepare \/ Collect
  \/ \E j \in Job : Receive(j)

RoundFails ==
  \/ ListFails \/ PopulateFails \/ StreamFails \/ CollectFails
  \/ \E j \in Job : ApplyFails(j)

-----------------------------------------------------------------------------
\* A user deletes the Pod of a job.
DeletePod(n) ==
  /\ cluster[n] # NoPod
  /\ cluster' = [cluster EXCEPT ![n] = NoPod]
  /\ UNCHANGED <<slurmVars, inventory, roundVars, told, fails, restarts>>

Restart ==
  /\ restarts < MaxRestart
  /\ restarts' = restarts + 1
  /\ inventory' = NoInventory
  /\ told' = [n \in Name |-> NoPhase]
  /\ Returns
  /\ UNCHANGED <<slurmVars, cluster, fails>>

Next ==
  \/ \E j \in Job : Slurm(j)
  \/ Round \/ RoundFails
  \/ \E n \in Name : DeletePod(n)
  \/ Restart

Spec == Init /\ [][Next]_vars

\* Round follows round; nothing is asked of Slurm or of users.
FairSpec == Spec /\ WF_vars(Round)

-----------------------------------------------------------------------------
(* Properties *)

\* Garbage collection never deletes the Pod of a job that Slurm keeps, unless
\* the job has lost that node: whatever rounds failed before, wherever the
\* stream broke, whenever the controller restarted.
CollectsOnlyGone ==
  [][\A n \in Name :
       /\ stage = "receiving" /\ stage' = "idle"
       /\ cluster[n] # NoPod /\ cluster'[n] = NoPod
       => \/ jobs[n[1]] = NoJob
          \/ listing # NoListing /\ listing[n[1]] # NoJob /\ n \notin PodsOf(n[1])]_vars

\* Between rounds the inventory has every untracked Pod, so that the next round
\* can find out which ones are stale.  (As long as no call has failed: a round
\* that is cut short loses sight of the Pods it has applied.)
InventoryCovers ==
  fails = 0 /\ stage = "idle" /\ inventory # NoInventory => Present \subseteq inventory

\* The inventory has the Pod, or will have it once it is populated.
InSight(n) == inventory = NoInventory \/ n \in inventory

\* The Pod of a job that is not in Slurm any more is deleted, unless a failed
\* call has made the inventory lose sight of it.
CollectsStale ==
  \A n \in Name : cluster[n] # NoPod /\ n[1] \in submitted /\ jobs[n[1]] = NoJob
                  ~> cluster[n] = NoPod \/ (fails > 0 /\ ~InSight(n))

\* The end of a job that Slurm keeps listing reaches the job's Pods, however
\* many rounds were cut short.
DeliversEnd ==
  \A j \in Job : InPhase(j, "Ended") ~> ~InPhase(j, "Ended") \/ told[<<j, 0>>] = "Ended"
=============================================================================
