--------------------------- MODULE NodeReconciler ---------------------------
(***************************************************************************)
(* The node reconciler (controller/pkg/node/reconciler.go) and the Virtual *)
(* Kubelet instances it keeps, one for each node that Slurm lists          *)
(* (controller/pkg/vk/instance.go).  A round reads a stream of nodes, then *)
(* starts and stops instances.  Each start is a goroutine that executes    *)
(* Run, which brings up controllers one after the other; the controllers   *)
(* and Run end when their context is cancelled, by a stop, by the loop or  *)
(* by one of the controllers.                                              *)
(***************************************************************************)
EXTENDS Naturals, FiniteSets

CONSTANTS
  Node,
  Kubelet,     \* the instances have a kubelet server (enableKubeletServer)
  MaxInstance, \* bound: instances made for a node
  MaxStart,    \* bound: starts of an instance
  MaxTrouble   \* bound: changes of Slurm's nodes, stops of the loop, and failures

ASSUME NodeAssumption ==
  /\ Kubelet \in BOOLEAN
  /\ {MaxInstance, MaxStart, MaxTrouble} \subseteq Nat

\* An instance: the node, and how many there have been for it.
Instance == Node \X (1..MaxInstance)

\* A start of an instance names a context (instance.ctx) and a goroutine.
Start == Instance \X (1..MaxStart)

Controllers == IF Kubelet THEN {"pods", "kubelet", "node"} ELSE {"pods", "node"}

VARIABLES
  listed,     \* nodes that the agent would list
  up,         \* the context of the node loop is not cancelled
  round,      \* "none", or "receiving"
  listing,    \* the nodes of the stream of this round, or of the last one
  received,   \* those received
  instances,  \* nReconciler.instances: which instance of a node, or 0
  tracked,    \* nodes whose instance has the flag tracked
  made,       \* instances made for a node
  ctx,        \* the last start of an instance: instance.ctx, or 0
  canceled,   \* starts whose context is cancelled
  goroutine,  \* [Start -> what the goroutine does]
  uses,       \* [Start -> the start whose context the goroutine has read, or 0]
  active,     \* [Start -> controllers started by the goroutine that run]
  provider,   \* instance.podProvider: the goroutine that made it, or 0
  troubles    \* changes, stops and failures so far

roundVars == <<round, listing, received, instances, tracked, made>>
instanceVars == <<ctx, canceled, goroutine, uses, active, provider>>
vars == <<listed, up, roundVars, instanceVars, troubles>>

Stage == {"none", "spawned", "setup", "pods", "kubelet", "node", "serving", "returned", "failed"}

TypeOK ==
  /\ listed \subseteq Node
  /\ up \in BOOLEAN
  /\ round \in {"none", "receiving"} /\ listing \subseteq Node /\ received \subseteq listing
  /\ instances \in [Node -> 0..MaxInstance] /\ tracked \subseteq Node
  /\ made \in [Node -> 0..MaxInstance]
  /\ ctx \in [Instance -> 0..MaxStart] /\ canceled \subseteq Start
  /\ goroutine \in [Start -> Stage] /\ uses \in [Start -> 0..MaxStart]
  /\ active \in [Start -> SUBSET Controllers]
  /\ provider \in [Instance -> 0..MaxStart]
  /\ troubles \in 0..MaxTrouble

Init ==
  /\ listed \in SUBSET Node /\ up = TRUE
  /\ round = "none" /\ listing = {} /\ received = {}
  /\ instances = [n \in Node |-> 0] /\ tracked = {} /\ made = [n \in Node |-> 0]
  /\ ctx = [i \in Instance |-> 0] /\ canceled = {}
  /\ goroutine = [s \in Start |-> "none"] /\ uses = [s \in Start |-> 0]
  /\ active = [s \in Start |-> {}] /\ provider = [i \in Instance |-> 0]
  /\ troubles = 0

Trouble == troubles < MaxTrouble /\ troubles' = troubles + 1

-----------------------------------------------------------------------------
(* Slurm and the loop *)

ChangeNode(n) ==
  /\ Trouble
  /\ listed' = IF n \in listed THEN listed \ {n} ELSE listed \cup {n}
  /\ UNCHANGED <<up, roundVars, instanceVars>>

Begun == {i \in Instance : ctx[i] # 0}
Latest(S) == {<<i, ctx[i]>> : i \in S}

\* Reconciler.Stop: the contexts of the instances are children of the loop's.
StopLoop ==
  /\ up /\ up' = FALSE /\ Trouble
  /\ canceled' = canceled \cup Latest(Begun)
  /\ UNCHANGED <<listed, roundVars, ctx, goroutine, uses, active, provider>>

\* Reconciler.Start, which Stop has not let go ahead before the round was over.
StartLoop ==
  /\ ~up /\ round = "none"
  /\ up' = TRUE
  /\ UNCHANGED <<listed, roundVars, instanceVars, troubles>>

-----------------------------------------------------------------------------
(* Reconcile *)

\* Mutant: the flags are not reset.
BeginTracked ==
  /\ up /\ round = "none"
  /\ round' = "receiving" /\ listing' = listed /\ received' = {}
  /\ UNCHANGED <<listed, up, instances, tracked, made, instanceVars, troubles>>

\* The agent reads all nodes at once; every instance loses its flag.
Begin ==
  /\ up /\ round = "none"
  /\ round' = "receiving" /\ listing' = listed /\ received' = {} /\ tracked' = {}
  /\ UNCHANGED <<listed, up, instances, made, instanceVars, troubles>>

Receive(n) ==
  /\ round = "receiving" /\ n \in listing \ received
  /\ received' = received \cup {n} /\ tracked' = tracked \cup {n}
  /\ IF instances[n] # 0 THEN UNCHANGED <<instances, made>>
     ELSE /\ made[n] < MaxInstance
          /\ made' = [made EXCEPT ![n] = @ + 1]
          /\ instances' = [instances EXCEPT ![n] = made[n] + 1]
  /\ UNCHANGED <<listed, up, round, listing, instanceVars, troubles>>

\* Mutant: a broken stream is taken for its end.
StreamEnds ==
  /\ round = "receiving" /\ round' = "none"
  /\ IF up THEN Trouble ELSE UNCHANGED troubles
  /\ instances' = [n \in Node |-> IF n \in tracked THEN instances[n] ELSE 0]
  /\ UNCHANGED <<listed, up, listing, received, tracked, made, instanceVars>>

\* Recv fails: the flags stay as they are.
StreamBreaks ==
  /\ round = "receiving" /\ round' = "none"
  /\ IF up THEN Trouble ELSE UNCHANGED troubles
  /\ UNCHANGED <<listed, up, listing, received, instances, tracked, made, instanceVars>>

Current(S) == {<<n, instances[n]>> : n \in {m \in S : instances[m] # 0}}

\* Mutant: an instance that has been started is never started again.
LiveOnce(i) == ctx[i] # 0

Live(i) == ctx[i] # 0 /\ <<i, ctx[i]>> \notin canceled

\* instance.start for S, instance.stop for T.
StartsAndStops(S, T) ==
  LET new == {i \in S : ~Live(i)}
  IN /\ \A i \in new : ctx[i] < MaxStart
     /\ ctx' = [i \in Instance |-> IF i \in new THEN ctx[i] + 1 ELSE ctx[i]]
     /\ goroutine' = [s \in Start |->
          IF s[1] \in new /\ s[2] = ctx[s[1]] + 1 THEN "spawned" ELSE goroutine[s]]
     /\ canceled' = canceled \cup Latest(T \cap Begun)
          \cup {<<i, ctx[i] + 1>> : i \in IF up THEN {} ELSE new}
     /\ UNCHANGED <<uses, active, provider>>

\* Mutant: instances are removed without a stop.
FinishUnstopped ==
  /\ round = "receiving" /\ received = listing
  /\ StartsAndStops(Current(tracked), {})
  /\ instances' = [n \in Node |-> IF n \in tracked THEN instances[n] ELSE 0]
  /\ round' = "none"
  /\ UNCHANGED <<listed, up, listing, received, tracked, made, troubles>>

Finish ==
  /\ round = "receiving" /\ received = listing
  /\ StartsAndStops(Current(tracked), Current(Node \ tracked))
  /\ instances' = [n \in Node |-> IF n \in tracked THEN instances[n] ELSE 0]
  /\ round' = "none"
  /\ UNCHANGED <<listed, up, listing, received, tracked, made, troubles>>

-----------------------------------------------------------------------------
(* Run, by the goroutine of start s *)

RunOnly == UNCHANGED <<listed, up, roundVars, ctx, troubles>>

Goes(s, from, to) == goroutine[s] = from /\ goroutine' = [goroutine EXCEPT ![s] = to]

\* The goroutine evaluates i.ctx and i.cancel, whatever they are by now.
Run(s) ==
  /\ Goes(s, "spawned", "setup")
  /\ uses' = [uses EXCEPT ![s] = ctx[s[1]]]
  /\ UNCHANGED <<canceled, active, provider>> /\ RunOnly

MakeProvider(s) ==
  /\ Goes(s, "setup", "pods")
  /\ provider' = [provider EXCEPT ![s[1]] = s[2]]
  /\ active' = [active EXCEPT ![s] = {"pods"}]
  /\ UNCHANGED <<canceled, uses>> /\ RunOnly

\* A controller cannot be made: Run returns, and nobody cancels the context.
SetupFails(s) ==
  /\ Goes(s, "setup", "failed")
  /\ Trouble
  /\ \/ UNCHANGED provider
     \/ provider' = [provider EXCEPT ![s[1]] = s[2]]
  /\ UNCHANGED <<listed, up, roundVars, ctx, canceled, uses, active>>

After(c) ==
  CASE c = "pods" /\ Kubelet -> "kubelet" [] c = "pods" /\ ~Kubelet -> "node"
    [] c = "kubelet" -> "node" [] c = "node" -> "serving"

\* What Run waits for is ready: it starts the next controller, or is done.
Ready(s) ==
  \E c \in active[s] :
    /\ Goes(s, c, After(c))
    /\ active' = [active EXCEPT ![s] = @ \cup ({After(c)} \cap Controllers)]
    /\ UNCHANGED <<canceled, uses, provider>> /\ RunOnly

Dead(s) == <<s[1], uses[s]>> \in canceled

\* The context is cancelled, or the controller has ended before it was ready.
GivesUp(s) ==
  \E c \in Controllers :
    /\ Goes(s, c, "returned")
    /\ Dead(s) \/ c \notin active[s]
    /\ UNCHANGED <<canceled, uses, active, provider>> /\ RunOnly

\* Mutant: a controller that ends leaves the others alone.
EndsAlone(s, c) ==
  /\ c \in active[s]
  /\ active' = [active EXCEPT ![s] = @ \ {c}]
  /\ UNCHANGED <<listed, up, roundVars, ctx, canceled, goroutine, uses, provider>>

\* Every controller cancels the context when it ends.
Ends(s, c) ==
  /\ c \in active[s]
  /\ active' = [active EXCEPT ![s] = @ \ {c}]
  /\ canceled' = canceled \cup {<<s[1], uses[s]>>}
  /\ UNCHANGED <<listed, up, roundVars, ctx, goroutine, uses, provider>>

ControllerStops(s, c) == Dead(s) /\ Ends(s, c) /\ UNCHANGED troubles

ControllerFails(s, c) == ~Dead(s) /\ Ends(s, c) /\ Trouble

-----------------------------------------------------------------------------
Round == Begin \/ (\E n \in Node : Receive(n)) \/ Finish

RoundCanceled == ~up /\ StreamBreaks

RunStep(s) == Run(s) \/ MakeProvider(s) \/ Ready(s) \/ GivesUp(s)

Next ==
  \/ \E n \in Node : ChangeNode(n)
  \/ StopLoop \/ StartLoop \/ Round \/ StreamBreaks
  \/ \E s \in Start : \/ RunStep(s) \/ SetupFails(s)
                      \/ \E c \in Controllers : ControllerStops(s, c) \/ ControllerFails(s, c)

Spec == Init /\ [][Next]_vars

\* Rounds proceed and a cancelled stream breaks; goroutines proceed and controllers
\* whose context is cancelled stop (each has finitely many steps to make, so none
\* is left out).  Slurm, the callers of the loop and failures are free.
FairSpec ==
  /\ Spec
  /\ WF_vars(Round) /\ WF_vars(RoundCanceled)
  /\ WF_vars(\E s \in Start : RunStep(s) \/ \E c \in Controllers : ControllerStops(s, c))

-----------------------------------------------------------------------------
(* Properties *)

\* Only the instance in the map has a context that is not cancelled, its last
\* one, and only while the loop runs: no two Virtual Kubelets of one node work
\* for it side by side on contexts of their own, and none is left behind
\* by a node that went away and came back, a broken stream or a restart.
LiveIsManaged ==
  \A i \in Instance : \A k \in 1..ctx[i] :
    <<i, k>> \notin canceled => up /\ k = ctx[i] /\ instances[i[1]] = i[2]

\* An instance is removed only at the end of a complete list without its node,
\* never because the list broke off, and not before it has been stopped.
RemovesOnlyUnlisted ==
  [][\A n \in Node : instances[n] # 0 /\ instances'[n] # instances[n] =>
       LET i == <<n, instances[n]>>
       IN n \notin listing /\ (ctx'[i] = 0 \/ <<i, ctx'[i]>> \in canceled')]_vars

Serving(s) == goroutine[s] = "serving" /\ active[s] = Controllers

\* A node that stays in the list while the loop runs is served, in the end
\* without interruption, although streams break and controllers fail: only a Run
\* that could not make its controllers keeps others from serving.  (Behaviours
\* that use up the starts of an instance, a bound of the model, are not counted.)
ServesListed ==
  \A n \in Node :
    <>[](n \in listed /\ up /\ \A i \in Instance : ctx[i] < MaxStart \/ <<i, MaxStart>> \notin canceled) =>
      <>[](\E s \in Start : s[1][1] = n /\ (Serving(s) \/ goroutine[s] = "failed"))

\* Controllers stop each other: when one of a Run has ended, so do the others.
EndTogether ==
  <>[](\A s \in Start : goroutine[s] = "serving" => active[s] \in {Controllers, {}})

\* When a node has left the list, everything that ran for it comes to an end.
UnlistedEnds ==
  \A n \in Node :
    <>[](n \notin listed) =>
      <>[](\A s \in Start : s[1][1] = n =>
             goroutine[s] \in {"none", "serving", "returned", "failed"} /\ active[s] = {})
=============================================================================
