----------------------------- MODULE PodProvider -----------------------------
(***************************************************************************)
(* The pod provider of one Virtual Kubelet instance, with the controller's *)
(* job tracker behind it and the agent's Create and Delete handlers.       *)
(*                                                                         *)
(*   controller/pkg/provider/provider.go   CreatePod, UpdatePod, DeletePod *)
(*                                         and UpdateStatus, one mutex     *)
(*   controller/pkg/tracker/tracker.go     identifier label -> tracked Pod *)
(*   agent/pkg/server/workload.go          Create (sbatch), Delete         *)
(*                                                                         *)
(* Around them, modelled from how this code uses them: Kubernetes (the Pod *)
(* objects), the Virtual Kubelet pod controller (reads a Pod, later calls  *)
(* the provider; pushes notified Pods back), Slurm, and the reconciliation *)
(* goroutine that carries listed job phases to the tracker.  Any process   *)
(* may be interleaved between two steps of another, an answer of the agent *)
(* may be lost, and the controller or one instance may be restarted.       *)
(***************************************************************************)
EXTENDS Naturals, FiniteSets

CONSTANTS
  Key,         \* names of Pods scheduled to the node of the instance
  JobId,       \* identifiers Slurm gives to dispatched jobs
  NoId,        \* the identifier label is absent
  NoPod, NoJob, NoEntry, NoUpdate,
  NumWorkers,  \* workers of the pod controller (vk/instance.go has one)
  MaxUid,      \* bound: how often a Pod of one name is created
  MaxEdit,     \* bound: edits of labels by users
  MaxRestart,  \* bound: restarts of the controller or of the instance
  MaxFail,     \* bound: RPCs that end in an error
  MaxTrouble   \* bound: names used again, edits, restarts and errors together

Phase    == {"Pending", "Running", "Succeeded", "Failed"}
Terminal == {"Succeeded", "Failed"}

\* What the code reads of a corev1.Pod: which object it is, the workload
\* identifier label, any other label, status.phase and status.message.
Message == {"none", "created", "updated", "deleted", "status updated"}

Pod == [uid : 1..MaxUid, id : JobId \cup {NoId}, edit : 0..MaxEdit,
        phase : Phase, message : Message]

Job == [key : Key, uid : 1..MaxUid, phase : Phase]

ASSUME ProviderAssumption ==
  /\ NoId \notin JobId
  /\ NumWorkers \in Nat \ {0}
  /\ MaxUid \in Nat /\ MaxEdit \in Nat /\ MaxRestart \in Nat /\ MaxFail \in Nat
  /\ MaxTrouble \in Nat

\* What Kubernetes shows of a Pod to those who look for its job.
View == [uid : 1..MaxUid, id : JobId \cup {NoId}, phase : Phase]

ASSUME NoPodAssumption == NoPod \notin Pod \cup View
ASSUME NoJobAssumption == NoJob \notin Job

\* A Create request; run tells apart the requests of successive instances.
Request == [key : Key, uid : 1..MaxUid, run : 0..MaxRestart]

VARIABLES
  \* Kubernetes
  k8s,       \* [Key -> Pod or NoPod]: the Pod objects
  deleting,  \* names whose object carries a deletion timestamp
  uids,      \* [Key -> Nat]: uid of the last object of that name
  \* Virtual Kubelet pod controller
  queue,     \* names waiting for a worker
  work,      \* [Key -> the provider call a worker is making]
  note,      \* [Key -> last notified Pod, until it has been pushed]
  removal,   \* names waiting for their final removal from Kubernetes
  \* podProvider and tracker
  pods,      \* podProvider.pods
  pendingStatus,  \* podProvider.pendingStatus
  tracked,   \* tracker.tracked: [JobId -> entry or NoEntry]
  \* reconciliation goroutine: the status update it is carrying
  update,
  \* agent and Slurm
  requests,  \* Create requests the agent has received and not finished
  jobs,      \* [JobId -> Job or NoJob]
  external,  \* the phases of the jobs that untracked Pods mirror, by name
  \* counters that carry the bounds
  restarts, fails, edits

kubeVars  == <<k8s, deleting, uids>>
vkVars    == <<queue, work, note, removal>>
provVars  == <<pods, pendingStatus, tracked>>
slurmVars == <<requests, jobs, external>>
bounds    == <<restarts, fails, edits>>
vars == <<kubeVars, vkVars, provVars, update, slurmVars, bounds>>

\* The names of Pods with the untracked kind label; they never change.
Untracked == DOMAIN external

\* Another trouble may happen.
Trouble == Cardinality({k \in Key : uids[k] > 1}) + edits + restarts + fails < MaxTrouble

Idle == [op |-> "none", stage |-> "idle", pod |-> NoPod, answer |-> NoId]

Work == [op : {"none", "create", "update", "delete"},
         stage : {"idle", "called", "rpc", "answered", "failed"},
         pod : Pod \cup {NoPod}, answer : JobId \cup {NoId}]

Entry  == [key : Key, live : BOOLEAN]

Update == [stage : {"listed", "found"}, job : JobId \cup {NoId}, key : Key,
           phase : Phase, live : BOOLEAN, rlock : BOOLEAN]

TypeOK ==
  /\ k8s \in [Key -> Pod \cup {NoPod}]
  /\ deleting \subseteq Key
  /\ uids \in [Key -> 0..MaxUid]
  /\ queue \subseteq Key
  /\ work \in [Key -> Work]
  /\ note \in [Key -> Pod \cup {NoPod}]
  /\ removal \subseteq Key
  /\ pods \in [Key -> Pod \cup {NoPod}]
  /\ pendingStatus \in [Key -> Phase \cup {NoPod}]
  /\ tracked \in [JobId -> Entry \cup {NoEntry}]
  /\ update \in Update \cup {NoUpdate}
  /\ requests \subseteq Request
  /\ jobs \in [JobId -> Job \cup {NoJob}]
  /\ Untracked \subseteq Key /\ external \in [Untracked -> Phase]
  /\ restarts \in 0..MaxRestart
  /\ fails \in 0..MaxFail
  /\ edits \in 0..MaxEdit

Init ==
  /\ k8s = [k \in Key |-> NoPod]
  /\ deleting = {}
  /\ uids = [k \in Key |-> 0]
  /\ queue = {}
  /\ work = [k \in Key |-> Idle]
  /\ note = [k \in Key |-> NoPod]
  /\ removal = {}
  /\ pods = [k \in Key |-> NoPod]
  /\ pendingStatus = [k \in Key |-> NoPod]
  /\ tracked = [j \in JobId |-> NoEntry]
  /\ update = NoUpdate
  /\ requests = {}
  /\ jobs = [j \in JobId |-> NoJob]
  /\ \E names \in SUBSET Key : external = [k \in names |-> "Pending"]
  /\ restarts = 0 /\ fails = 0 /\ edits = 0

-----------------------------------------------------------------------------
(* Kubernetes users; the workload reconciler does the same for untracked Pods. *)

CreateObject(k) ==
  /\ k8s[k] = NoPod
  /\ uids[k] < MaxUid /\ (uids[k] = 0 \/ Trouble)
  /\ uids' = [uids EXCEPT ![k] = @ + 1]
  /\ k8s' = [k8s EXCEPT ![k] = [uid |-> uids[k] + 1, id |-> NoId, edit |-> 0,
                                phase |-> "Pending", message |-> "none"]]
  /\ queue' = queue \cup {k}
  /\ UNCHANGED <<deleting, work, note, removal, provVars, update, slurmVars, bounds>>

EditObject(k) ==
  /\ k8s[k] # NoPod
  /\ edits < MaxEdit /\ Trouble
  /\ edits' = edits + 1
  /\ k8s' = [k8s EXCEPT ![k].edit = edits + 1]
  /\ queue' = queue \cup {k}
  /\ UNCHANGED <<deleting, uids, work, note, removal, provVars, update, slurmVars,
                 restarts, fails>>

DeleteObject(k) ==
  /\ k8s[k] # NoPod
  /\ k \notin deleting
  /\ deleting' = deleting \cup {k}
  /\ queue' = queue \cup {k}
  /\ UNCHANGED <<k8s, uids, work, note, removal, provVars, update, slurmVars, bounds>>

-----------------------------------------------------------------------------
(* The Virtual Kubelet pod controller. *)

Call(op, p) == [op |-> op, stage |-> "called", pod |-> p, answer |-> NoId]

SameLabels(p, q) == p.id = q.id /\ p.edit = q.edit

\* A free worker takes the name off its queue, reads the object and decides on the
\* provider call; the call itself comes later.  A name queued again while a
\* worker is busy with it waits for that worker.
SyncPod(k) ==
  /\ k \in queue
  /\ work[k] = Idle
  /\ Cardinality({l \in Key : work[l] # Idle}) < NumWorkers
  /\ queue' = queue \ {k}
  /\ LET p == k8s[k] IN
     \/ /\ p = NoPod /\ pods[k] # NoPod
        /\ work' = [work EXCEPT ![k] = Call("delete", pods[k])]
        /\ UNCHANGED removal
     \/ /\ p = NoPod /\ pods[k] = NoPod
        /\ UNCHANGED <<work, removal>>
     \/ /\ p # NoPod /\ k \in deleting /\ p.phase # "Running"
        /\ removal' = removal \cup {k}
        /\ UNCHANGED work
     \/ /\ p # NoPod /\ k \in deleting /\ p.phase = "Running"
        /\ work' = [work EXCEPT ![k] = Call("delete", p)]
        /\ UNCHANGED removal
     \/ /\ p # NoPod /\ k \notin deleting /\ p.phase \notin Terminal
        /\ pods[k] = NoPod
        /\ work' = [work EXCEPT ![k] = Call("create", p)]
        /\ UNCHANGED removal
     \/ /\ p # NoPod /\ k \notin deleting /\ p.phase \notin Terminal
        /\ pods[k] # NoPod /\ ~SameLabels(pods[k], p)
        /\ work' = [work EXCEPT ![k] = Call("update", p)]
        /\ UNCHANGED removal
     \/ /\ p # NoPod /\ k \notin deleting
        /\ p.phase \in Terminal \/ (pods[k] # NoPod /\ SameLabels(pods[k], p))
        /\ UNCHANGED <<work, removal>>
  /\ UNCHANGED <<kubeVars, note, provVars, update, slurmVars, bounds>>

\* Statuses with the time of a start or an end in them are never equal.
SameStatus(p, q) == p.phase = q.phase /\ p.message = q.message /\ p.phase = "Pending"

\* The last notified Pod is written over the object, labels included, unless
\* the object is another one, already terminal, or has that status anyway.
PushStatus(k) ==
  /\ note[k] # NoPod
  /\ LET push == /\ k8s[k] # NoPod
                 /\ k8s[k].uid = note[k].uid
                 /\ k8s[k].phase \notin Terminal
                 /\ ~SameStatus(k8s[k], note[k])
     IN /\ k8s' = IF push THEN [k8s EXCEPT ![k] = note[k]] ELSE k8s
        /\ queue' = IF push /\ ~SameLabels(k8s[k], note[k]) THEN queue \cup {k} ELSE queue
  /\ note' = [note EXCEPT ![k] = NoPod]
  /\ UNCHANGED <<deleting, uids, work, removal, provVars, update, slurmVars, bounds>>

RemoveObject(k) ==
  /\ k \in removal
  /\ k8s' = [k8s EXCEPT ![k] = NoPod]
  /\ note' = [note EXCEPT ![k] = NoPod]
  /\ deleting' = deleting \ {k}
  /\ removal' = removal \ {k}
  /\ queue' = queue \cup {k}
  /\ UNCHANGED <<uids, work, provVars, update, slurmVars, bounds>>

-----------------------------------------------------------------------------
(* podProvider.  CreatePod and DeletePod hold the provider's mutex across    *)
(* their RPC to the agent; everything else is one critical section.          *)

InRpc(k) == work[k].stage \in {"rpc", "answered", "failed"}
Locked   == \E k \in Key : InRpc(k)

IsTracked(k) == k \notin Untracked

\* Take the tracker's write lock: no lookup may hold its read lock.
TrackerFree == update # NoUpdate => ~update.rlock

Track(k, p) ==
  /\ TrackerFree
  /\ tracked' = [tracked EXCEPT ![p.id] = [key |-> k, live |-> TRUE]]

Untrack(p) ==
  /\ TrackerFree
  /\ tracked' = IF p.id \in JobId THEN [tracked EXCEPT ![p.id] = NoEntry] ELSE tracked

\* The notifier keeps the latest Pod of a name that Kubernetes still has.
Notify(k, p) == note' = IF k8s[k] # NoPod THEN [note EXCEPT ![k] = p] ELSE note

Store(k, p) == pods' = [pods EXCEPT ![k] = p] /\ Notify(k, p)

\* Mutant: CreatePod does not register the Pod with the tracker.
FinishCreateUntracked(k, p) ==
  /\ UNCHANGED tracked
  /\ Store(k, [p EXCEPT !.message = "created"])
  /\ work' = [work EXCEPT ![k] = Idle]

\* The end of CreatePod: track, store, notify.
FinishCreate(k, p) ==
  /\ IF IsTracked(k) /\ p.id # NoId THEN Track(k, p) ELSE UNCHANGED tracked
  /\ Store(k, [p EXCEPT !.message = "created"])
  /\ work' = [work EXCEPT ![k] = Idle]

Loaded(k) ==
  IF pendingStatus[k] # NoPod
  THEN [work[k].pod EXCEPT !.phase = pendingStatus[k]] ELSE work[k].pod

NeedsDispatch(k) == IsTracked(k) /\ work[k].pod.id = NoId

\* CreatePod up to the Create RPC, or all of it when there is nothing to send.
CreatePod(k) ==
  /\ work[k].op = "create" /\ work[k].stage = "called"
  /\ ~Locked
  /\ pendingStatus' = [pendingStatus EXCEPT ![k] = NoPod]
  /\ \/ /\ NeedsDispatch(k)
        /\ work' = [work EXCEPT ![k].stage = "rpc", ![k].pod = Loaded(k)]
        /\ requests' = requests \cup {[key |-> k, uid |-> work[k].pod.uid,
                                      run |-> restarts]}
        /\ UNCHANGED <<tracked, pods, note>>
     \/ /\ ~NeedsDispatch(k)
        /\ FinishCreate(k, Loaded(k))
        /\ UNCHANGED requests
  /\ UNCHANGED <<kubeVars, queue, removal, update, jobs, external, bounds>>

\* Mutants of EndCreate, each with its own end of CreatePod: an error is
\* returned for Virtual Kubelet to try again; a failed dispatch counts as
\* completed; the returned metadata is not applied.
EndCreateAs(k, answered(_), failed(_)) ==
  /\ work[k].op = "create"
  /\ \/ work[k].stage = "answered" /\ answered(work[k].pod) /\ UNCHANGED queue
     \/ work[k].stage = "failed" /\ failed(work[k].pod)
  /\ UNCHANGED <<kubeVars, removal, pendingStatus, update, slurmVars, bounds>>

EndCreateRetrying(k) ==
  LET answered(p) == FinishCreate(k, [p EXCEPT !.id = work[k].answer])
      failed(p) == /\ work' = [work EXCEPT ![k] = Idle]
                   /\ queue' = queue \cup {k}
                   /\ UNCHANGED <<tracked, pods, note>>
  IN EndCreateAs(k, answered, failed)

EndCreateCompleting(k) ==
  LET answered(p) == FinishCreate(k, [p EXCEPT !.id = work[k].answer])
      failed(p) == FinishCreate(k, [p EXCEPT !.phase = "Succeeded"]) /\ UNCHANGED queue
  IN EndCreateAs(k, answered, failed)

EndCreateUnlabelled(k) ==
  LET answered(p) == FinishCreate(k, p)
      failed(p) == FinishCreate(k, [p EXCEPT !.phase = "Failed"]) /\ UNCHANGED queue
  IN EndCreateAs(k, answered, failed)

\* CreatePod after the RPC: store the identifier, or mark the Pod as failed.
EndCreate(k) ==
  /\ work[k].op = "create"
  /\ \/ /\ work[k].stage = "answered"
        /\ FinishCreate(k, [work[k].pod EXCEPT !.id = work[k].answer])
     \/ /\ work[k].stage = "failed"
        /\ FinishCreate(k, [work[k].pod EXCEPT !.phase = "Failed"])
  /\ UNCHANGED <<kubeVars, queue, removal, pendingStatus, update, slurmVars, bounds>>

\* Mutant: UpdatePod carries over the identifier of the Pod it replaces.
UpdatePodKeepingId(k) ==
  /\ work[k].op = "update" /\ work[k].stage = "called"
  /\ ~Locked
  /\ Store(k, [work[k].pod EXCEPT !.id = pods[k].id, !.message = "updated"])
  /\ work' = [work EXCEPT ![k] = Idle]
  /\ UNCHANGED <<kubeVars, queue, removal, pendingStatus, tracked, update, slurmVars, bounds>>

\* Mutant: UpdatePod replaces a Pod by deleting it first.
UpdatePodReplacing(k) ==
  /\ work[k].op = "update" /\ work[k].stage = "called"
  /\ ~Locked
  /\ work' = [work EXCEPT ![k] = [Call("delete", work[k].pod) EXCEPT !.stage = "rpc"]]
  /\ UNCHANGED <<kubeVars, queue, note, removal, provVars, update, slurmVars, bounds>>

UpdatePod(k) ==
  /\ work[k].op = "update" /\ work[k].stage = "called"
  /\ ~Locked
  /\ Store(k, [work[k].pod EXCEPT !.message = "updated"])
  /\ work' = [work EXCEPT ![k] = Idle]
  /\ UNCHANGED <<kubeVars, queue, removal, pendingStatus, tracked, update, slurmVars, bounds>>

\* After a DeletePod for a deletion timestamp, Virtual Kubelet removes the object.
ScheduleRemoval(k) == removal' = IF k \in deleting THEN removal \cup {k} ELSE removal

FinishDelete(k) ==
  /\ pods' = [pods EXCEPT ![k] = NoPod]
  /\ Notify(k, [work[k].pod EXCEPT !.phase = "Succeeded", !.message = "deleted"])
  /\ work' = [work EXCEPT ![k] = Idle]
  /\ ScheduleRemoval(k)

\* DeletePod up to the Delete RPC: unknown Pods are refused, untracked Pods
\* need no RPC.
DeletePod(k) ==
  /\ work[k].op = "delete" /\ work[k].stage = "called"
  /\ ~Locked
  /\ \/ /\ pods[k] = NoPod
        /\ work' = [work EXCEPT ![k] = Idle]
        /\ ScheduleRemoval(k)
        /\ UNCHANGED <<pods, note>>
     \/ /\ pods[k] # NoPod /\ ~IsTracked(k)
        /\ FinishDelete(k)
     \/ /\ pods[k] # NoPod /\ IsTracked(k)
        /\ work' = [work EXCEPT ![k].stage = "rpc"]
        /\ UNCHANGED <<pods, note, removal>>
  /\ UNCHANGED <<kubeVars, queue, pendingStatus, tracked, update, slurmVars, bounds>>

\* DeletePod after the RPC, whose error is only logged.
EndDelete(k) ==
  /\ work[k].op = "delete" /\ work[k].stage = "answered"
  /\ Untrack(work[k].pod)
  /\ FinishDelete(k)
  /\ UNCHANGED <<kubeVars, queue, pendingStatus, update, slurmVars, bounds>>

-----------------------------------------------------------------------------
(* Status updates from the reconciliation goroutine, one at a time.  The     *)
(* phase is the one the agent listed, which may be old when it is applied.   *)

PollTracked(j) ==
  /\ update = NoUpdate
  /\ jobs[j] # NoJob
  /\ update' = [stage |-> "listed", job |-> j, key |-> jobs[j].key,
                phase |-> jobs[j].phase, live |-> TRUE, rlock |-> FALSE]
  /\ UNCHANGED <<kubeVars, vkVars, provVars, slurmVars, bounds>>

\* An untracked Pod is applied to Kubernetes before its status is passed on.
PollUntracked(k) ==
  /\ k \in Untracked
  /\ update = NoUpdate
  /\ k8s[k] # NoPod
  /\ update' = [stage |-> "found", job |-> NoId, key |-> k,
                phase |-> external[k], live |-> TRUE, rlock |-> FALSE]
  /\ UNCHANGED <<kubeVars, vkVars, provVars, slurmVars, bounds>>

\* Mutant: the read lock is released only when UpdateStatus returns.
LookupTrackedLocked ==
  /\ update # NoUpdate /\ update.stage = "listed"
  /\ update' = IF tracked[update.job] = NoEntry THEN NoUpdate
               ELSE [update EXCEPT !.stage = "found", !.rlock = TRUE,
                                   !.key = tracked[update.job].key,
                                   !.live = tracked[update.job].live]
  /\ UNCHANGED <<kubeVars, vkVars, provVars, slurmVars, bounds>>

\* tracker.UpdateStatus: the lookup, with the read lock released after it.
LookupTracked ==
  /\ update # NoUpdate /\ update.stage = "listed"
  /\ update' = IF tracked[update.job] = NoEntry THEN NoUpdate
               ELSE [update EXCEPT !.stage = "found",
                                   !.key = tracked[update.job].key,
                                   !.live = tracked[update.job].live]
  /\ UNCHANGED <<kubeVars, vkVars, provVars, slurmVars, bounds>>

\* podProvider.UpdateStatus; cache is set for untracked Pods only.  The
\* provider of an instance that has been stopped no longer reaches Kubernetes.
ApplyStatus ==
  /\ update # NoUpdate /\ update.stage = "found"
  /\ update.live => ~Locked
  /\ LET k == update.key
         p == [pods[k] EXCEPT !.phase = update.phase, !.message = "status updated"]
     IN \/ /\ update.live /\ pods[k] = NoPod
           /\ pendingStatus' = IF k \in Untracked
                               THEN [pendingStatus EXCEPT ![k] = update.phase]
                               ELSE pendingStatus
           /\ UNCHANGED <<pods, note>>
        \/ /\ update.live /\ pods[k] # NoPod /\ pods[k].phase # update.phase
           /\ Store(k, p)
           /\ UNCHANGED pendingStatus
        \/ /\ ~update.live \/ (pods[k] # NoPod /\ pods[k].phase = update.phase)
           /\ UNCHANGED <<pods, note, pendingStatus>>
  /\ update' = NoUpdate
  /\ UNCHANGED <<kubeVars, queue, work, removal, tracked, slurmVars, bounds>>

-----------------------------------------------------------------------------
(* The agent and Slurm.  The agent's Create ignores its context: a request   *)
(* it has received runs sbatch whether or not anyone still waits for it.     *)

Awaits(r) == /\ work[r.key].op = "create" /\ work[r.key].stage = "rpc"
             /\ work[r.key].pod.uid = r.uid /\ restarts = r.run

Sbatch(r, j) ==
  /\ r \in requests
  /\ jobs[j] = NoJob
  /\ jobs' = [jobs EXCEPT ![j] = [key |-> r.key, uid |-> r.uid, phase |-> "Pending"]]
  /\ requests' = requests \ {r}
  /\ work' = IF Awaits(r)
             THEN [work EXCEPT ![r.key].stage = "answered", ![r.key].answer = j]
             ELSE work
  /\ UNCHANGED <<kubeVars, queue, note, removal, provVars, update, external, bounds>>

\* Slurm also refuses a job when the identifiers of the instance are used up.
SbatchFails(r) ==
  /\ r \in requests
  /\ \/ fails < MaxFail /\ Trouble /\ fails' = fails + 1
     \/ (\A j \in JobId : jobs[j] # NoJob) /\ UNCHANGED fails
  /\ requests' = requests \ {r}
  /\ work' = IF Awaits(r) THEN [work EXCEPT ![r.key].stage = "failed"] ELSE work
  /\ UNCHANGED <<kubeVars, queue, note, removal, provVars, update, jobs, external, restarts, edits>>

\* The tunnel breaks while CreatePod waits: an error, whatever the agent does.
LoseCreate(k) ==
  /\ work[k].op = "create" /\ work[k].stage \in {"rpc", "answered"}
  /\ fails < MaxFail /\ Trouble
  /\ fails' = fails + 1
  /\ work' = [work EXCEPT ![k].stage = "failed"]
  /\ UNCHANGED <<kubeVars, queue, note, removal, provVars, update, slurmVars, restarts, edits>>

\* The agent's Delete runs scancel with the identifier it is given.
Scancel(k) ==
  /\ work[k].op = "delete" /\ work[k].stage = "rpc"
  /\ LET j == work[k].pod.id IN
     jobs' = IF j = NoId \/ jobs[j].phase \in Terminal THEN jobs
             ELSE [jobs EXCEPT ![j].phase = "Failed"]
  /\ work' = [work EXCEPT ![k].stage = "answered"]
  /\ UNCHANGED <<kubeVars, queue, note, removal, provVars, update, requests,
                 external, bounds>>

LoseDelete(k) ==
  /\ work[k].op = "delete" /\ work[k].stage = "rpc"
  /\ fails < MaxFail /\ Trouble
  /\ fails' = fails + 1
  /\ work' = [work EXCEPT ![k].stage = "answered"]
  /\ UNCHANGED <<kubeVars, queue, note, removal, provVars, update, slurmVars, restarts, edits>>

\* A job may be requeued while it is active; a terminal state is final.
Moves(p) == CASE p = "Pending" -> {"Running", "Failed"}
              [] p = "Running" -> {"Pending", "Succeeded", "Failed"}
              [] OTHER -> {}

RunJob(j) ==
  /\ jobs[j] # NoJob
  /\ \E p \in Moves(jobs[j].phase) : jobs' = [jobs EXCEPT ![j].phase = p]
  /\ UNCHANGED <<kubeVars, vkVars, provVars, update, requests, external, bounds>>

RunExternal(k) ==
  /\ k \in Untracked
  /\ \E p \in Moves(external[k]) : external' = [external EXCEPT ![k] = p]
  /\ UNCHANGED <<kubeVars, vkVars, provVars, update, requests, jobs, bounds>>

-----------------------------------------------------------------------------
(* Restarts: everything in the controller's memory is gone, and the new pod  *)
(* controller queues every object it lists.                                  *)

FreshInstance ==
  /\ restarts < MaxRestart /\ Trouble
  /\ restarts' = restarts + 1
  /\ pods' = [k \in Key |-> NoPod]
  /\ pendingStatus' = [k \in Key |-> NoPod]
  /\ work' = [k \in Key |-> Idle]
  /\ note' = [k \in Key |-> NoPod]
  /\ removal' = {}
  /\ queue' = {k \in Key : k8s[k] # NoPod}
  /\ UNCHANGED <<kubeVars, slurmVars, fails, edits>>

RestartController ==
  /\ FreshInstance
  /\ tracked' = [j \in JobId |-> NoEntry]
  /\ update' = NoUpdate

\* instance.Run is called again: the tracker survives, its entries still
\* refer to the provider of the run that ended.
RestartInstance ==
  /\ FreshInstance
  /\ tracked' = [j \in JobId |-> IF tracked[j] = NoEntry THEN NoEntry
                                 ELSE [tracked[j] EXCEPT !.live = FALSE]]
  /\ update' = IF update # NoUpdate /\ update.stage = "found"
               THEN [update EXCEPT !.live = FALSE] ELSE update

-----------------------------------------------------------------------------
Provider(k) == CreatePod(k) \/ EndCreate(k) \/ UpdatePod(k) \/ DeletePod(k) \/ EndDelete(k)

Agent(k) == LoseCreate(k) \/ Scancel(k) \/ LoseDelete(k)

Next ==
  \/ \E k \in Key : CreateObject(k) \/ EditObject(k) \/ DeleteObject(k)
  \/ \E k \in Key : SyncPod(k) \/ PushStatus(k) \/ RemoveObject(k)
  \/ \E k \in Key : Provider(k) \/ Agent(k)
  \/ \E r \in requests : SbatchFails(r) \/ \E j \in JobId : Sbatch(r, j)
  \/ \E j \in JobId : PollTracked(j) \/ RunJob(j)
  \/ \E k \in Key : PollUntracked(k) \/ RunExternal(k)
  \/ LookupTracked \/ ApplyStatus
  \/ RestartController \/ RestartInstance

Spec == Init /\ [][Next]_vars

\* Workers, the notification queue and the reconciliation loop keep going, the
\* agent answers or the tunnel breaks.  The loop polls every job again and
\* again (strongly fair: another poll may be under way), and no job runs or is
\* requeued for ever.
EndsJob(j) == RunJob(j) /\ jobs'[j].phase \in Terminal
EndsExternal(k) == RunExternal(k) /\ external'[k] \in Terminal

Fairness ==
  /\ \A k \in Key : /\ SF_vars(SyncPod(k)) /\ WF_vars(PushStatus(k))
                    /\ WF_vars(RemoveObject(k))
                    /\ SF_vars(Provider(k))
                    /\ WF_vars(Scancel(k) \/ LoseDelete(k))
  /\ WF_vars(\E r \in requests : SbatchFails(r) \/ \E j \in JobId : Sbatch(r, j))
  /\ \A j \in JobId : SF_vars(PollTracked(j)) /\ WF_vars(EndsJob(j))
  /\ \A k \in Key : SF_vars(PollUntracked(k)) /\ WF_vars(EndsExternal(k))
  /\ WF_vars(LookupTracked) /\ SF_vars(ApplyStatus)

FairSpec == Spec /\ Fairness

-----------------------------------------------------------------------------
(* Properties *)

\* An identifier label names a job dispatched for that very object: wherever a
\* copy of a Pod is kept, through pushes, updates and restarts, an identifier
\* on it is that of a job Slurm created for its name and uid.
OwnsId(k, p) ==
  p # NoPod /\ p.id # NoId => /\ jobs[p.id] # NoJob
                              /\ jobs[p.id].key = k /\ jobs[p.id].uid = p.uid

IdentifierOwned ==
  \A k \in Key : /\ OwnsId(k, k8s[k]) /\ OwnsId(k, pods[k])
                 /\ OwnsId(k, note[k]) /\ OwnsId(k, work[k].pod)

\* As long as neither the controller nor the instance restarts, a Pod object
\* has at most one job, lost answers and failed submissions included.
AtMostOneJob ==
  restarts = 0 => \A i, j \in JobId :
    /\ jobs[i] # NoJob /\ jobs[j] # NoJob
    /\ jobs[i].key = jobs[j].key /\ jobs[i].uid = jobs[j].uid
    => i = j

\* The Pod object that a job was dispatched for is still known to someone who
\* would cancel the job when the Pod is deleted, as long as there is no edit,
\* failure or restart and the name is not used again.
Known(k, u) == \E p \in {k8s[k], pods[k], work[k].pod} : p # NoPod /\ p.uid = u

NoOrphan ==
  edits = 0 /\ fails = 0 /\ restarts = 0 =>
    \A j \in JobId :
      jobs[j] # NoJob /\ jobs[j].phase \notin Terminal /\ uids[jobs[j].key] = jobs[j].uid
        => Known(jobs[j].key, jobs[j].uid)

\* A tracked Pod that is not being deleted is shown as Succeeded only if a job
\* of that very object did succeed, as long as the name is not used again (the
\* tracker finds Pods by name).
CompletedTruthfully ==
  \A k \in Key \ Untracked :
    uids[k] = 1 /\ k8s[k] # NoPod /\ k \notin deleting /\ k8s[k].phase = "Succeeded" =>
      \E j \in JobId : jobs[j] = [key |-> k, uid |-> 1, phase |-> "Succeeded"]

\* What is seen of the state by Kubernetes and by the agent.
ShownPod(k) == IF k8s[k] = NoPod THEN NoPod
               ELSE [uid |-> k8s[k].uid, id |-> k8s[k].id, phase |-> k8s[k].phase]

Canceled(k) == IF work[k].op = "delete" /\ work[k].stage = "rpc" THEN work[k].pod.id ELSE NoId

ShownPods == [k \in Key |-> ShownPod(k)]
Cancels   == [k \in Key |-> Canceled(k)]

Seen == INSTANCE PodJobs WITH mirrored <- Untracked, shown <- ShownPods, created <- uids,
                              asked <- requests, cancels <- Cancels

\* What Kubernetes and the agent see is as PodJobs promises: jobs are asked for
\* once, after a restart again only while their Pod shows no identifier; no
\* job is canceled unless its own Pod is being deleted or gone; what is shown
\* ends once, truthfully, and with identifiers of the Pod's own jobs.
ImplementsPodJobs == Seen!Spec

\* A Pod that exists is shown as ended in the end, or goes away: a tracked one
\* because its job ends or could not be dispatched, an untracked one once the
\* job that it mirrors has ended.
Settles ==
  \A k \in Key : k8s[k] # NoPod /\ (k \in Untracked => external[k] \in Terminal)
                 ~> k8s[k] = NoPod \/ k8s[k].phase \in Terminal

\* Every call Virtual Kubelet makes to the provider returns: the provider's
\* mutex and the tracker's lock are never waited for in a circle.
CallsReturn == \A k \in Key : work[k] # Idle ~> work[k] = Idle

\* DeletePod leaves no active job behind: once the handler of a Pod with a
\* dispatched job has ended, scancel was run for that job.
DeleteCancels ==
  [][\A k \in Key : EndDelete(k) => 
       \A j \in JobId : jobs[j] # NoJob /\ jobs[j].key = k /\ jobs[j].uid = work[k].pod.uid
                        => jobs[j].phase \in Terminal]_vars
=============================================================================
