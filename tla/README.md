# Supernetes in TLA+

Supernetes bridges a Slurm cluster into Kubernetes. A *controller* (in Kubernetes) talks to an *agent* (next to
Slurm) over gRPC in a reverse tunnel. Each Slurm node becomes a Virtual Kubelet node, each Slurm job one or more
"untracked" Pods, and each Pod that a user schedules to such a node ("tracked") becomes a Slurm job. The Go code is in
`src/src/`; this directory has its specifications, the runs that TLC checks, and the theorems that TLAPS proves.

## Inventory

| Part | Code | State | Operations | Module |
|---|---|---|---|---|
| controller process | `controller/main.go` | - | wiring, callbacks, deferred stops | `Endpoint` |
| endpoint for agents | `controller/pkg/endpoint` | `closing`, tunnel channels | open and close callback of a tunnel, `Close` | `Endpoint` |
| reconciliation loop | `controller/pkg/reconciler` | `running`, `cancel`, mutex, wait group | `Start`, `Stop`, the loop goroutine | `ReconcilerLoop` |
| workload reconciler | `controller/pkg/workload` | current inventory | one round: list, apply, status, collect; names of Pods | `WorkloadReconciler`, `PodName`, `WorkloadNames` |
| inventory | `controller/pkg/inventory` | Pod references | `Populate`, `AddChangeSet`, `Diff` | `WorkloadReconciler` |
| pod provider | `controller/pkg/provider` | `pods`, `pendingStatus`, mutex | `CreatePod`, `UpdatePod`, `DeletePod`, `UpdateStatus` | `PodProvider`, `PodJobs` |
| tracker | `controller/pkg/tracker` | identifier -> Pod and provider | `Track`, `Untrack`, `UpdateStatus` | `PodProvider` |
| agent workload API | `agent/pkg/server/workload.go`, `sbatch`, `scancel`, `job` | - (Slurm) | `Create`, `Delete`, `List`; `Logs` | `PodProvider`, `WorkloadReconciler`, `LogStream` |
| Virtual Kubelet instance | `controller/pkg/vk/instance.go` | provider, contexts | `Run`, `UpdateStatus` | `NodeReconciler`; a new provider in `PodProvider` |
| node reconciler | `controller/pkg/node`, `agent/pkg/server/node.go` | instances, their contexts | round, start and stop of an instance; `UpdateStatus` | `NodeReconciler`; `UpdateStatus` planned |
| log streaming | `controller/pkg/provider/handler.go` | chunk channel, cache | receiver, `Read`, `Close` | `LogStream`, `LogDelivery` |
| dispatch in a job | `agent/pkg/dispatch` | exit codes, output | one goroutine per container and pipe | `Dispatch` |
| kubelet server | `controller/pkg/vk/server.go` | listener, port, `ready`, certificate manager | `Run`, with its goroutine and its timeout | `KubeletServer` |
| CSR approver, certificates | `controller/pkg/certificates` | - (Kubernetes) | `Reconcile`; the manager of a node's certificate | `KubeletServer` |
| agent process | `agent/pkg/agent` | credentials, tunnel | `Run`, from the configuration file to the exit | `MutualTls` |
| configuration generator and types | `config` | two files | `Generate`, `CreatePair`, `writeConfig`; the filter | `MutualTls` |
| metrics | `provider/metrics.go` | - | - | planned |
| authentication of the Kubelet API, proxy patch, clients, environment, logging, scontrol parsing, cache directory, generated API | - | none that changes | wiring, I/O, decoding | not modelled |

How they interact: the tunnel goroutines of the endpoint call `Start` and `Stop` of two reconcilers. The node
reconciler runs one Virtual Kubelet instance per Slurm node, each with a pod provider. Virtual Kubelet calls the
provider, which calls the agent; the provider registers Pods that have a job with the one tracker. The workload
reconciler lists jobs, applies untracked Pods to Kubernetes, and passes each job's phase on twice: to the provider
of the untracked Pod's node and, through the tracker, to the Pod that spawned the job. What Slurm executes for a
tracked Pod is the agent's binary again, as `dispatch`; its output file is what the agent tails for `kubectl logs`.
Each instance also starts a Kubelet server, whose certificate the controller itself approves; the agent and the
controller trust each other by credentials that the configuration tool has written to two files.

What is hard: callbacks of different tunnels overlap each other and the shutdown; Virtual Kubelet hands the provider
copies of a Pod that were read earlier; the identifier of a job is only in memory between `sbatch` and a later status
push; answers of the agent get lost after it acted; the tracker uses an entry after it released its lock; a round
can fail at every call it makes; contexts are cancelled while goroutines that should hear of it are still starting;
lines, their end, and the reasons to stop take different channels; two processes read two files once, while a third
one may be writing them. `PROJECT.json` lists these hazards with their lines and the properties for them.

What makes each part correct: the endpoint, that connected means reconciling and idle means stopped, and that
closing ends; the loop, one goroutine at most, none after `Stop`, and no caller stuck; the workload reconciler,
that it deletes the Pods of purged jobs, no others, and delivers phases; the provider and the tracker, one job per
Pod, no job left behind, no phase of another's job, and no deadlock between their locks; the node reconciler, one live
Virtual Kubelet for each listed node and none for others; log streaming, the lines of the container in order, all of
them, and an end; dispatch, that the job lasts as long as its containers and shows their failure; the Kubelet server,
that the node registers the port that serves it and that nothing is left waiting or listening; the approver, that it
decides on its own requests only; the credentials, that tunnels join the halves of one pair, and that a pair in place
leads to a tunnel.

## Modules

### `ReconcilerLoop` (proofs in `EndpointProofs`)

`running`, `holder` (the mutex: who waits inside `Stop`), `current` (whose context `cancel` cancels), `stage` and
`canceled` of loop goroutines, and `calls`, what each caller still has to call. `Start` and the first half of `Stop`
are critical sections and atomic; `StopEnd` is the return from `wg.Wait()`. A goroutine goes from reconciling to
waiting (`Reconciled`), and from there to the next round (`Tick`) or out (`Exit`). As in Go, a `select` that finds both
ready may take either, so `Tick` is enabled when the context is cancelled. A round is one long step here: what it
does is in `WorkloadReconciler`, where cancellation is one of the reasons for a call to fail. `LoopSpec` is the
abstract specification: callers that make any sequence of calls (`Invoke`).

### `Endpoint` (`MCEndpoint`, `EndpointProofs`), composed with `ReconcilerLoop`

Extends `ReconcilerLoop` with two reconcilers; its callers are the goroutines of tunnels and `main`. As in grpctunnel,
a tunnel goroutine registers its channel, runs `OnReverseTunnelOpen`, waits for the channel to close, runs
`OnReverseTunnelClose` and returns. `OnReverseTunnelClose` evaluates `last` and only then calls `OnIdle`. `main`
waits for a signal, runs its deferred calls (workload loop, node loop, then `Close`), and `Close` marks the
endpoint, lists the channels, closes them one by one, and waits for the handlers in `GracefulStop`. Its behaviours are
behaviours of `LoopSpec`, with the variables of the same names: checked, and proved.

### `WorkloadReconciler` (`MCWorkloadReconciler`, `WorkloadReconcilerProofs`)

`jobs` and `submitted` are Slurm, `cluster` the untracked Pods in Kubernetes, `inventory` the reconciler's, and
`stage`, `listing`, `received`, `fresh` (`newInventory`) a round under way; `told` is the phase last passed on for
a Pod. `Begin` opens the stream, `AgentLists` is the agent reading all jobs at once, `Prepare` the first `Populate`,
`Receive` one turn of the loop, `Collect` the end. Each call has its failing twin with what it leaves behind:
`ListFails`, `PopulateFails`, `StreamFails`, `ApplyFails`, `CollectFails`; `Faults` says which of them a run allows.
Pod names are pairs (job, index). `Ended` stands
for Succeeded and Failed. Server-side apply is external: `Action` is how flux reports it. A forced apply that changes
the node of a Pod replaces the Pod, and is taken to report it as created. Deletion is atomic. `DeletePod` is a user.

`PodName` is `podName` and `toLowerRFC1123`, rune by rune (`Converted` is the loop, as a recursive function), with `MaxLen` for the 63 runes of a Pod name; `WorkloadNames`
extends both modules and says for every Pod that comes up in a behaviour what the pairs stand for: `NamesApart` and
`NamesAccepted` range over all identifiers and job names of the instance, cut off at every place.

### `PodProvider` (`MCPodProvider`, `PodProviderProofs`), implements `PodJobs`

One instance's provider, the tracker, the agent's `Create` and `Delete`, Slurm, Kubernetes, and Virtual Kubelet.
A provider call is split where others can get in: between the pod controller's reading of the Pod (`SyncPod`) and the
call, and at the RPC, during which the mutex stays held (`Locked`). `CreatePod` ... `EndCreate`, `DeletePod` ...
`EndDelete` are the halves. A status update is `PollTracked` or `PollUntracked` (the phase as listed), `LookupTracked`
(under the read lock) and `ApplyStatus` (under the provider's mutex). A Pod is its uid, its identifier label, its other
labels (`edit`), phase and message: what the code and Virtual Kubelet compare. `RestartController` loses all memory;
`RestartInstance` is a second `Run`: a new provider, the same tracker, whose entries point to the old provider. Which
names are untracked Pods is chosen in `Init` and fixed. `sbatch` fails as a counted fault, or when the identifiers are used up.

External behaviour, from Virtual Kubelet 1.12: a Pod that `GetPod` does not know is created, one whose labels differ is
updated *with the copy from Kubernetes*, a terminal one is skipped. A deleted Pod that is Running goes to `DeletePod`
as that copy and is removed afterwards; one that is not Running is removed at once, then `DeletePod` gets the
provider's copy. The notifier keeps the last Pod of a name; a push writes it over the object unless the uid differs, the
object is terminal, or the status is equal. There is one worker (`NumWorkers: 1` in `vk/instance.go`), a constant here.

`PodJobs` is what remains when the provider, the tracker, Virtual Kubelet's queues and every copy of a Pod are taken away:
the Pod objects as Kubernetes shows them (`shown`), requests for jobs (`asked`) and for their end (`cancels`), and the
jobs. It promises that a job is asked for once for an object that exists, and after a restart again only if Kubernetes does not show
an identifier (`Ask`), that only jobs of objects that are gone or being deleted are canceled (`AskCancel`), that what is shown
has an identifier of the object's own job and no success that was none and stays as it is once it is an end (`Show`), and that
objects go only when a user has asked for it (`Remove`). Under the mapping of `Seen` a Pod loses its message and other labels, and `cancels` is the
argument of a `DeletePod` whose RPC is out (`Canceled`).

### `NodeReconciler` (`MCNodeReconciler`, `NodeReconcilerProofs`)

`listed` is Slurm, `up` whether the context of the node loop is live. A round is `Begin` (the flags are reset),
`Receive` for each node, and `Finish`, or `StreamBreaks`, which leaves the flags as they are. An instance is a node and
a number (`made` counts them), since a node that comes back gets a new one. `ctx` numbers the contexts that `start` has
made for an instance and `canceled` has those cancelled: by `stop`, with the loop, or by a controller. Each `start`
is a goroutine: `Run` is the moment it reads `i.ctx`, which may be a later context than the one made for it (`uses`);
then it makes the provider and starts the controllers, waiting for each (`Ready`, `GivesUp`), or fails before
(`SetupFails`). A controller that ends, for whatever reason, cancels the context (`Ends`).

### `LogStream` (`MCLogStream`, `LogStreamProofs`), implements `LogDelivery`

`LogDelivery` is what `kubectl logs` may expect: lines are written, at some moment a request that does not follow
finds the end of the file (`FindEnd`), bytes are delivered in order, and the end (`Finish`) comes with all of them. `LogStream`
implements it with its own variables and `end` defined from the position of the tail (`ImplementsDelivery`).

The agent's side is three goroutines: `tail` (where `tailF` is, how far it has read, the ring of the latest lines, the
line it holds), the one that waits for the controller to close (`HearsClose`), and `handler`, the loop in `Logs`; `stop` is
the channel of one element that ends it. The tunnel is `down` (chunks) and `up` (the controller's half of the stream).
The controller's side is `receiver` (the goroutine of `startReader`), `chunks`, and `Read`, one action for each way it
returns; `caller` copies what `Read` returns to `out`. A line is its size, and whether it is of the container (or of none) and
too old for the request; a byte is a line number and a place, so that a misplaced byte is seen.

### `Dispatch` (`MCDispatch`, `DispatchProofs`)

`process` has the state of each container, or the code it ended with; a pipe is `written`, `buffered` (what of it nobody has
read), `hand` (the line its scanner holds) and `output`. `RunReturns` closes the pipes with what is in them, as `cmd.Run`
does when `StdoutPipe` was used; `Exit` is `os.Exit`, after which nothing moves.

### `MutualTls` (`MCMutualTls`, `MutualTlsProofs`)

`tool` is a call of the configuration tool: `Call` checks its flags, `CreatePair` makes a CA and two certificates, `Encode`
compiles the filters, and each file is opened, which empties it, and written; `WriteFails` is an error of any of these
calls or the end of the tool there. `file` has what a reader would find: the number of a pair, nothing, or a torn file.
`controller` and `agent` hold the pair that each process has read when it started. A pair is its CA, the kind of its
endpoint and filter, and its days. `Accepts` is the handshake, both ways; an agent that is refused or whose tunnel
breaks exits (`log.Fatal`). The supervisors that start both processes again, and the one who rolls a new configuration
out, are external.

### `KubeletServer` (`MCKubeletServer`, `KubeletServerProofs`)

The part of `instance.Run` that starts a Kubelet server and waits for it (`run`, `ctx`, `registered`), the server's own
`Run` (`server`, `port`, `ready`, `listening`, `closing`), the certificate manager of client-go with the store of the node
(`managing`, `current`, `stored`), the requests in Kubernetes (`csr`), and the approver: `Get` is `Reconcile` up to its decision,
`UpdateApproval` the write that follows, which Kubernetes refuses when the request has changed since (`fresh`). `Return` is
the end of the server with its deferred calls and the cancellation by its goroutine; `ServerFails` is an error before it serves or from `ServeTLS`. A run whose context is cancelled
makes room for the next one, as `start` does in `NodeReconciler`.

## Runs

`Spec` runs check safety, `FairSpec` runs liveness. Every bound is a constant of the module.

| Run | Instance | Shows |
|---|---|---|
| `provider` | 1 name, 2 jobs; any two troubles out of: name used again, edit, failed or lost RPC, restart | no second job without a restart, whatever answer is lost; no success shown that no job had; identifiers stay with the object they were given to; deletions orphan no job as long as nothing goes wrong; the provider implements `PodJobs` |
| `provider_live` | 1 name, tracked or not, 1 restart | a Pod settles when its job ends; every provider call returns |
| `provider_lost_id` | 1 name | a disagreement with a comment, below |
| `endpoint` | 2 tunnels, 2 slots for loop goroutines | one loop per reconciler, none after `Stop`, idle means stopped, the shutdown included; `Close` ends, with agents that connect all the time; no `Start` or `Stop` is stuck; the endpoint implements `LoopSpec` |
| `endpoint_reconnect` | 2 tunnels | a disagreement |
| `workloads` | 1 job on up to 2 nodes, 2 failures of any calls, 1 restart; names of Pods of 8 runes | only Pods of gone jobs, or of lost nodes, are collected; stale Pods go away, the end of a job is delivered; without a failure the inventory is complete between rounds; names of Pods are accepted and distinct |
| `nodes` | 1 node, 2 instances of it, 2 starts each; 3 changes, stops of the loop, or failures | one live context per node, of the managed instance; no instance removed for a list that broke off; a listed node is served, an unlisted one left alone |
| `logs` | 3 lines of 3 kinds, 5 kinds of request; window and channel of 1, buffer of 2 | what is delivered, and its end, are as in `LogDelivery`; followers get every line; reader and agent come to an end |
| `logs_long` | 2 lines, one of 3 bytes | a disagreement |
| `dispatch` | 2 containers with a pipe of 1 line each, 2 lines | order of output; the exit after all containers, with a code that shows failures |
| `credentials` | 2 pairs of 8 kinds of options, 3 days, 2 failures, kills or signals | tunnels have one pair at both ends; success means a pair; what is refused writes nothing; a pair in place leads to a tunnel |
| `kubelet` | 2 runs, 1 request of others, 2 troubles | the port that is registered; own pending requests only; no wait and no listener outlives its run; the node is served in the end |

Why the bounds are enough: a hazard here is an overlap of two or three parties on one object. One name with two
uids gives every reuse of a name; two jobs are a Pod's own and one too many, or those of two Pods; a restart at any point splits every
handler. Troubles are bounded together (`MaxTrouble`): each pair of them is met, at any two points. Handlers of
different names share only the provider's mutex and, with one worker (`NumWorkers`), do not even meet there, so the
instances have one name. Two nodes are needed for a job to lose one of them. A tunnel goroutine is reused by later
connections, so two of them give every overlap of a connection with a disconnection. Two slots for loop goroutines are
enough to see a second one. Jobs share nothing in a round but the order in which they are received, so `workloads` has one job,
of two Pods; its safety properties are proved for any number. Two pairs are an old and a new configuration, which is
all that two processes can differ in; two runs of an instance are one that leaves its request or its certificate to the
next. Instances of different nodes share no
state but the stream and the loop, so `nodes` has one node; two instances and two starts of each give every overlap
with what was there before. Its behaviours that would need a third start end there (`ServesListed` says so). A kubelet
server is one more controller of the same kind: `nodes` leaves it out to stay fast, and gives the same result with
`Kubelet = TRUE`, in four minutes. Channels of one element are full as soon as anything is in them; a line in `logs`
fits the buffer, or fills it twice, so that the cache is used and emptied; `logs_long` has the case between. What is proved does not depend on bounds.

Deadlock is checked where the system cannot stop (`workloads`). The other modules end by design: all objects are
used up and all jobs over, `main` has exited, a reader has left, a job is over, or the starts, runs or days are used up.
Symmetry is used in safety runs only.

## What the violated runs show

* `endpoint_reconnect`: `last` is read, another agent connects and starts the loops, then `OnIdle` stops them.
  An agent is connected and nothing reconciles until the next connection.
* `provider_lost_id`: an edit of the Pod before the identifier was pushed makes `UpdatePod` store a copy without it; the
  later deletion runs `scancel` without an identifier.
* `logs_long`: `Read` copies the next line over the rest of the last one (`copy(p, b)` instead of `copy(p[n:], b)`) and
  adds up both lengths: bytes are lost and stale ones are delivered. With a buffer that `n` exceeds, the caller panics;
  the model lets it be gone.

### What else follows

From the models, without a run of its own:

* A rejected connection starts both loops: the open callback has no `return` after `channel.Close()`.
* A restart after `sbatch` and before the push of the identifier submits the Pod again (`AtMostOneJob` has the exception).
* The tracker's entry leads to a Pod by name only, and a new Pod of that name gets the old job's phase.
* After a failed `Populate` the empty inventory is taken for the current one and never filled, and Pods created in a round
  whose stream breaks are in no inventory: they stay if their job is purged before the next round. `CollectsStale`
  therefore excepts Pods that a failed call has made the inventory lose sight of (`InSight`).
* The state of a job is also a label of its Pods (`agent/pkg/job/conversion.go:32`), so the round that changes the state
  reports `Configured` and passes no status on; it comes one round later (`DeliversEnd` still holds).
* `LimitBytes` limits nothing: the deferred function in `Read` changes `p` and `n` after `return` has copied them. It does
  close the stream, so the caller gets everything that arrives before the agent has heard of it. When the excess is
  larger than the buffer, `p[:len(p)-delta]` panics.
* In follow mode the rest of a long line waits in the cache for the next line.
* After `Logs` has returned, `tailF` may wait for ever to send a line; after the caller has left, so may the receiver.
* An instance whose `Run` fails before it starts a controller is never started again: nobody cancels its context.
* Two goroutines of one instance may `Run` with one context, when the first is slow to read it: two sets of controllers.
* The comment of `toLowerRFC1123` promises RFC 1123, but letters of Latin-1 pass (`unicode.IsLetter`): the Pod of a job with
  such a name is refused, and the round ends there, for the jobs listed after it as well. `NamesAccepted` leaves them out (`Plain`).
* An endpoint that is an IP address, which `src/README.md:97` allows, is put into the DNS names of the certificate, where
  Go does not look for addresses: the agent never connects. `Connects` has the exception.
* More than 106751 days of validity overflow `time.Duration`: the tool succeeds with certificates that have ended before they begin.
* A filter that does not let the agent's own partition pass is written without complaint; the agent then ends at each start.
* The agent never dials a second time: whatever refuses or breaks its tunnel ends the process, and whoever supervises it must start it again.
* A certificate request that was denied is updated again and again: `isApproved` does not look for a denial, and the
  API refuses to approve it.
* The Kubelet server asks for a certificate only if the node has an IP address; without one each run ends after five minutes.
* A job whose only failed container was killed by a signal ends with 0: `max(0, -1)`.
* A line of more than 64 KiB stops its scanner, and the container when the pipe is full; `Exits` has the exception.

## Fairness

* Loops: a caller that waits for the mutex gets it in the end (`sync.Mutex` hands over to starved waiters), hence
  strong fairness per caller; a `Reconcile` ends (its calls take the context); a `select` that finds the context
  cancelled round after round does not choose the ticker for ever (Go chooses at random), hence strong for `Exit`.
* Endpoint: the goroutines of tunnels and `main` go on. Agents and signals come or do not come.
* Workload reconciler: the next step of a round is taken. Nothing is asked of Slurm or of users, and a run's `MaxFail`
  says that failures stop some time.
* Provider: workers, pushes and removals are served (strong where the single worker or the mutex can be taken by
  another in between), the agent answers or the tunnel breaks, every job is polled again and again, and a job ends.
  Virtual Kubelet's own retry and resync are not needed. `provider_live` has no edits: an `UpdatePod` and a push
  that rewrite each other's labels in lock step can go on for ever.
* Nodes: a round proceeds and a stream whose context is cancelled breaks; goroutines go on, and a controller stops when
  its context is cancelled. Each has finitely many steps, so one weak fairness for all of them leaves none out.
* Logs: every goroutine goes on. A `select` that finds the same channel ready again and again takes it at last, hence strong
  fairness for `HandlerReturns` and `TailCanceled`. The job writes, and the user leaves, or not.
* Credentials: a process that has ended is started again, and a changed configuration is rolled out (their supervisors; the
  agent has no retry of its own); a process that is up takes its next step. The tool, the clock and signals are free.
* Kubelet: goroutines go on, timers expire (a timeout while there is an approver counts among the troubles, so `ServedInTheEnd` takes
  five minutes to be enough once these are over), Kubernetes signs what has been approved; finitely many steps, so one weak
  fairness suffices. The approver does not pass over a queued request for ever, though others are queued again and again,
  hence strong for `Get`.
* Dispatch: goroutines go on; a container that can write goes on and ends; kills and long lines are free.

## Proofs

The modules ending in `Proofs` hold for every value of the constants, under the named assumptions of the modules
(special values are no elements of the sets they stand beside; bounds are naturals; the endpoint's callers are its
tunnels and `main`); a theorem that needs more says so as its hypothesis.

* `PodProviderProofs!TypeCorrect`, `LabelsAreOwned`. `IdentifierOwned` is not inductive: the provider gets its copy of an
  identifier from an answer, so the answers need an owner too. `IInv` adds that a worker with an answer has that of a job
  of its key and uid; its other part is the type invariant. Then every step copies a Pod whole or sets the identifier
  from such an answer, and jobs never change owner.
* `PodProviderProofs!DispatchesOnce` (`AtMostOneJob`). `OInv`: an object that was dispatched, and is not being deleted, is in
  the provider's map or with a `CreatePod` past its request (`Covered`), so a `CreatePod` that is still to send one is the first
  for its object (`Unsent`). `DeletePod` empties the map only for an object that is being deleted or is gone. A restart
  empties it for all, which is where the proof, and the property, end.
* `PodProviderProofs!CompletionIsTrue` (`CompletedTruthfully`), restarts and errors included. `TInv`: no copy of the first
  object of a name says Succeeded of a job that did not succeed, neither in Kubernetes, in the provider, in a notification
  nor in a call, and no status on its way does; `DeletePod`, which makes a Succeeded up, notifies only an object that is
  being deleted.
* `PodProviderProofs!NoJobIsForgotten` (`NoOrphan`). `AInv` follows the identifier of an active job from the answer (`Received`)
  over the provider's Pod (`Kept`) to `DeletePod` (`Canceling`). The hard part is that no `UpdatePod` comes between the answer
  and the push of the label, which would lose the identifier: nothing queues the name again but its deletion (`First`)
  or the push itself. With an edit that fails (`provider_lost_id`).
* `PodProviderProofs!PromisesKept`: every behaviour, restarts, lost answers and edits included, is one of `PodJobs`
  (`ImplementsPodJobs`), step by step. What is hard is that the pod controller decides on a copy, and the provider acts later: `VInv` says
  that the decision still holds then. A `CreatePod` carries what the object still shows, because nothing is there to be pushed
  over it (`Creating`, `Unknown`); a `DeletePod` is for an object that is gone or deleted by a user (`Ending`, `Removing`). The other
  invariants give the rest: `OInv` that a request is the first, `TInv` that a success is one, `IInv` whose identifier it is.
* `EndpointProofs!OneLoop`, `StoppedIsStopped`, for callers that make any calls in any order (`LoopSpec`).
  `LoopIInv` says of each loop which goroutine is its own: while `running` it is `current`, alone and not cancelled;
  while someone waits in `Stop` whatever is alive is `current`, and otherwise nothing is alive. `Start`
  therefore never launches beside another, and `StopEnd` waits for all.
* `EndpointProofs!ImplementsLoop` (every step of `Endpoint` is one of `LoopSpec` or leaves its variables alone),
  `EndpointTypeCorrect`, `OneLoopEach` (from `ImplementsLoop` and `OneLoop`), and `IdleIsStopped`. For the last, `IInv` says
  that whatever runs is *wanted*: there is a tunnel that has yet to find its channel closed, or a tunnel with a stop
  of that loop still to make. The goroutine that closes last makes the stops; any other one leaves a registered channel
  behind, and only open callbacks start loops. The invariant says nothing about the opposite direction, which fails
  (`endpoint_reconnect`).
* `WorkloadReconcilerProofs!TypeCorrect`, `CollectionIsSafe`, `InventoryIsComplete`. The invariant says that listed jobs
  and Pods are of jobs that Slurm has had (an identifier is never used twice), that a job submitted after the listing
  was made has no Pods yet, and that `fresh` has the Pods of all received jobs. At the end of a stream all listed jobs
  are received, so a stale Pod belongs to a job that was not listed, which is gone, or to a node the job lost. The
  third theorem adds that, before any call has failed, the Pods in the cluster are in the inventory or in `fresh`.
* `WorkloadReconcilerProofs!NamesAreApart`, `NamesAreAccepted`, for identifiers and job names of any length. What the loop of
  `toLowerRFC1123` has made of the first runes is characterised by a minimal counterexample (the first rune where it fails),
  since the library's induction theorems cannot be used. An identifier is digits and so stays itself; the index is the
  digits after the last dash; what is cut is between them. Hypotheses: a job has at most 100 Pods, which is how far `Decimal` goes,
  and for `NamesAreAccepted` that an identifier leaves room for one letter of the name (58 digits at most with the code's 63 runes).
* `NodeReconcilerProofs!TypeCorrect`, `OneLiveInstance`, `RemovalIsSafe`. `LiveIsManaged` is nearly inductive: `start` makes
  a context only when the last one is cancelled, which by the property itself means that all are, and `Finish` cancels
  what it takes out of the map. `IInv` adds, for the types, that goroutines belong to starts that were made and have read
  a context before they start controllers, and, for the removal, that the nodes received so far have their flag set.
* `DispatchProofs!TypeCorrect`, `LinesKeepTheirOrder`, `ExitsAreTruthful`. `LinesOK` says where the lines of a pipe are: those in
  the output are numbered from 1, the scanner holds the next one, and the rest is in the pipe until it is closed, which
  happens only after its container has ended. `CodeOK` says that no collected code is higher than the one kept.
* `MutualTlsProofs!TypeCorrect`, `TunnelsAreBonded`, `SuccessLeavesAPair`, `RefusalsWriteNothing`. The number of a pair is also
  that of its CA (`OwnCa`), so a handshake that succeeds shows that both have loaded the same pair, and neither loads another one
  without dropping its tunnel. `ToolOK` says that the file of the controller is written when that of the agent is begun, and that a
  tool that writes has found nothing wrong.
* `LogStreamProofs!LogTypes`, `LogsInOrder` (`DeliversInOrder`), `LogsDelivered` (`ImplementsDelivery`). The lines between the file and the caller
  form one sequence, from the cache over the channels and goroutines to the tail (`Pipe`), and its bytes after those of `out` are
  the `Stream`. `IInv` says that it is in order without a gap up to where the tail has read (`FlowOK`), that the ring has the latest
  lines (`TailOK`), that whoever has seen the end has everything before it (`EndOK`), and that the cache is whole buffers
  (`CacheOK`). A step of a goroutine then leaves the sequence as it is, the tail adds to its end, `Read` takes from its start.
  `LinesFit` is the hypothesis of the last two: each line fits the buffer of `Read`, or fills it a whole number of
  times. Without it the code is wrong, as `logs_long` shows.
* `KubeletServerProofs!TypeCorrect`, `NodesRegisterTheirPort`, `ApprovalsAreOwn`. Whoever sees `ready` closed finds a port
  (`PortOK`), and the worker of the approver never holds a request of others (`WorkerOK`).

Only model-checked is liveness, which is outside the prover's reach, as `ENABLED` is: `Settles`, `CallsReturn`, `LoopCallsReturn`,
`CloseCompletes`, `CollectsStale`, `DeliversEnd`, `ServesListed`, `EndTogether`, `UnlistedEnds`, `Follows`, `Ends`, `AgentStops`, `Exits`,
`Connects`, `WaitEnds`, `ListenersClose` and `ServedInTheEnd`. Every other property of a passing run is stated by a theorem.

## Abstractions to know of

* `MutualTls`: keys, certificates and their encoding are the number of a pair; the Secret around the controller's
  configuration is the file; reading a file is one step, so a reader sees it torn or whole.
* `KubeletServer`: the pod controller before the server and the node controller after it are in `NodeReconciler`; a certificate
  does not expire; a request of client-go that has been answered is not asked for again.
* The Unknown phase (Slurm's `REVOKED` and unlisted states) is left out.
* A goroutine of an instance's earlier `Run` that is inside an RPC at the restart does nothing more in the model.
* `LogStream`: the output file is not replaced or removed (`workload.go:246-262`), a scanner does not meet a line that is too
  long, and `Recv` and `Send` fail only when the stream has ended.
* `NodeReconciler`: `GetNodes` that fails at once changes nothing and is no action; node statuses (metrics) are left out.
* The statuses of a round are passed on atomically with the apply; the split between lookup and update is in `PodProvider`.
* `changePhase` is reduced to: two statuses with a start or end time in them are never equal.

## Not modelled

The metrics provider (an integral over reported loads, without concurrency), the decoding of scontrol's JSON, YAML and
Secrets, regular expressions, logging, the clients and the environment (start-up values that never change), who may use the
Kubelet API, and the kube-proxy patch (one write at start-up). `UpdateStatus` of the node reconciler, which reads the map of
instances from the other loop without a lock, is a data race: it may end the process, and otherwise leads to
`PodProvider`, where the update begins.

## Plan

1. `UpdateStatus` of the node reconciler beside its rounds; `changePhase` and the metrics as pure modules.
2. `Supernetes`: jobs, Pods and status in one abstract specification. `PodJobs` is its part for tracked Pods; the other part is that
   an untracked Pod follows its job, which the composition of workload reconciler, tracker and provider is to implement.

The whole project should be checked in minutes, so runs are merged per module, safety with liveness where the state
space allows it.
