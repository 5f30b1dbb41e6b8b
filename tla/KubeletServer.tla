---------------------------- MODULE KubeletServer ----------------------------
(***************************************************************************)
(* The Kubelet API of one Virtual Kubelet node and the certificate that it *)
(* needs.  Each run of the instance (vk/instance.go) starts a server       *)
(* (vk/server.go), which asks Kubernetes for a certificate through a       *)
(* certificate manager and waits for it; the controller itself approves    *)
(* such requests (certificates/approver.go).  A run whose context is       *)
(* cancelled is followed by another one.                                   *)
(***************************************************************************)
EXTENDS Naturals, FiniteSets

CONSTANTS
  MaxRuns,     \* bound: runs of the instance
  Foreign,     \* requests of others: of another user or for another signer
  MaxTrouble   \* bound: failures, slow signers, and other hands on requests

ASSUME KubeletAssumption ==
  MaxRuns \in Nat /\ MaxTrouble \in Nat /\ Foreign \cap (0..MaxRuns) = {}

Runs == 1..MaxRuns          \* a run, its server, manager and port
Request == Runs \cup Foreign \* certificate requests: of a manager, or of others
Idle == 0

VARIABLES
  run,        \* [Runs -> where Run of the instance is]
  ctx,        \* [Runs -> its context: "none", "live" or "canceled"]
  server,     \* [Runs -> where Run of the server is]
  port,       \* runs whose server has stored its port
  ready,      \* runs whose server has closed the channel ready
  listening,  \* runs whose listener is open
  closing,    \* runs whose http.Server has been closed
  managing,   \* runs whose certificate manager is active
  current,    \* runs whose manager has a certificate
  stored,     \* the certificate store of the node has a certificate
  registered, \* [Runs -> the port the node controller registers, or 0]
  csr,        \* [Request -> its state in Kubernetes]
  approver,   \* the approver runs
  queue,      \* requests that it has been told of
  worker,     \* the request it is reconciling, or Idle
  fresh,      \* that request is as the worker has read it
  trouble     \* what has gone wrong so far

runVars == <<run, ctx, registered>>
serverVars == <<server, port, ready, listening, closing>>
managerVars == <<managing, current, stored>>
approverVars == <<csr, approver, queue, worker, fresh>>
vars == <<runVars, serverVars, managerVars, approverVars, trouble>>

Undecided == {"pending", "denied"}

TypeOK ==
  /\ run \in [Runs -> {"none", "waiting", "registered", "returned"}]
  /\ ctx \in [Runs -> {"none", "live", "canceled"}]
  /\ server \in [Runs -> {"none", "starting", "polling", "certified", "publishing", "announcing",
                          "serving", "returned"}]
  /\ port \subseteq Runs /\ ready \subseteq Runs /\ listening \subseteq Runs /\ closing \subseteq Runs
  /\ managing \subseteq Runs /\ current \subseteq Runs
  /\ registered \in [Runs -> {0} \cup Runs]
  /\ csr \in [Request -> {"none", "pending", "denied", "approved", "issued", "gone"}]
  /\ queue \subseteq Request /\ worker \in {Idle} \cup Request /\ trouble \in 0..MaxTrouble
  /\ stored \in BOOLEAN /\ approver \in BOOLEAN /\ fresh \in BOOLEAN

Init ==
  /\ run = [r \in Runs |-> "none"] /\ ctx = [r \in Runs |-> "none"]
  /\ server = [r \in Runs |-> "none"] /\ registered = [r \in Runs |-> 0]
  /\ port = {} /\ ready = {} /\ listening = {} /\ closing = {} /\ managing = {} /\ current = {}
  /\ stored \in BOOLEAN /\ csr = [i \in Request |-> "none"]
  /\ approver = TRUE /\ queue = {} /\ worker = Idle /\ fresh = TRUE /\ trouble = 0

Trouble == trouble < MaxTrouble /\ trouble' = trouble + 1

-----------------------------------------------------------------------------
(* The instance *)

\* start, called in every round of the node reconciler, and Run up to the start of the server.
StartRun(r) ==
  /\ ctx[r] = "none" /\ \A q \in 1..(r - 1) : ctx[q] = "canceled"
  /\ ctx' = [ctx EXCEPT ![r] = "live"] /\ run' = [run EXCEPT ![r] = "waiting"]
  /\ server' = [server EXCEPT ![r] = "starting"] /\ listening' = listening \cup {r}
  /\ UNCHANGED <<registered, port, ready, closing, managerVars, approverVars, trouble>>

\* The pod or node controller ends, or the loop is stopped.
CancelRun(r) ==
  /\ ctx[r] = "live" /\ Trouble
  /\ ctx' = [ctx EXCEPT ![r] = "canceled"]
  /\ UNCHANGED <<run, registered, serverVars, managerVars, approverVars>>

GiveUp(r) ==
  /\ run[r] = "waiting" /\ ctx[r] = "canceled"
  /\ run' = [run EXCEPT ![r] = "returned"]
  /\ UNCHANGED <<ctx, registered, serverVars, managerVars, approverVars, trouble>>

\* The server is ready: the node is registered with its port.  The select may
\* choose this although the context is cancelled too.
Register(r) ==
  /\ run[r] = "waiting" /\ r \in ready
  /\ run' = [run EXCEPT ![r] = "registered"]
  /\ registered' = [registered EXCEPT ![r] = IF r \in port THEN r ELSE 0]
  /\ UNCHANGED <<ctx, serverVars, managerVars, approverVars, trouble>>

-----------------------------------------------------------------------------
(* The server *)

Goes(r, from, to) == server[r] = from /\ server' = [server EXCEPT ![r] = to]

\* The manager finds the certificate that the store has.
StartManager(r) ==
  /\ Goes(r, "starting", "polling")
  /\ managing' = managing \cup {r}
  /\ current' = IF stored THEN current \cup {r} ELSE current
  /\ UNCHANGED <<runVars, port, ready, listening, closing, stored, approverVars, trouble>>

\* Mutant: the goroutine does not cancel the context.
ReturnAlone(r) ==
  /\ server' = [server EXCEPT ![r] = "returned"]
  /\ listening' = listening \ {r} /\ managing' = managing \ {r}
  /\ UNCHANGED <<runVars, port, ready, closing, current, stored, approverVars>>

\* Mutant: the deferred call of listener.Close is missing.
ReturnOpen(r) ==
  /\ server' = [server EXCEPT ![r] = "returned"] /\ managing' = managing \ {r}
  /\ ctx' = [ctx EXCEPT ![r] = "canceled"]
  /\ UNCHANGED <<run, registered, port, ready, listening, closing, current, stored, approverVars>>

\* Run returns, after its deferred calls; then its goroutine cancels the context.
Return(r) ==
  /\ server' = [server EXCEPT ![r] = "returned"]
  /\ listening' = listening \ {r} /\ managing' = managing \ {r}
  /\ ctx' = [ctx EXCEPT ![r] = "canceled"]
  /\ UNCHANGED <<run, registered, port, ready, closing, current, stored, approverVars>>

\* There is no certificate manager, or no authentication, or ServeTLS cannot
\* accept connections although nobody has closed the server.
ServerFails(r) ==
  /\ server[r] \in {"starting", "certified", "serving"} /\ r \notin closing
  /\ Trouble /\ Return(r)

Certified(r) ==
  /\ Goes(r, "polling", "certified") /\ r \in current
  /\ UNCHANGED <<runVars, port, ready, listening, closing, managerVars, approverVars, trouble>>

\* Mutant: a timeout does not cancel the context.
TimesOutAlone(r) ==
  /\ server[r] = "polling" /\ ReturnAlone(r)
  /\ Trouble \/ (~approver /\ UNCHANGED trouble)

\* errServingCertTimeout, after five minutes: too soon, or nobody approves.
TimesOut(r) ==
  /\ server[r] = "polling" /\ Return(r)
  /\ Trouble \/ (~approver /\ UNCHANGED trouble)

PollCanceled(r) == server[r] = "polling" /\ ctx[r] = "canceled" /\ Return(r) /\ UNCHANGED trouble

\* VkAuth, the http.Server, and the goroutine that will close it.
MakeServer(r) ==
  /\ Goes(r, "certified", "publishing")
  /\ UNCHANGED <<runVars, port, ready, listening, closing, managerVars, approverVars, trouble>>

StorePort(r) ==
  /\ Goes(r, "publishing", "announcing")
  /\ port' = port \cup {r}
  /\ UNCHANGED <<runVars, ready, listening, closing, managerVars, approverVars, trouble>>

\* Mutant: ready may be closed before the port is stored.
CloseReadyEarly(r) ==
  /\ ready' = ready \cup {r}
  /\ \/ server[r] = "publishing" /\ r \notin ready /\ UNCHANGED server
     \/ Goes(r, "announcing", "serving")
  /\ UNCHANGED <<runVars, port, listening, closing, managerVars, approverVars, trouble>>

CloseReady(r) ==
  /\ Goes(r, "announcing", "serving")
  /\ ready' = ready \cup {r}
  /\ UNCHANGED <<runVars, port, listening, closing, managerVars, approverVars, trouble>>

\* The goroutine that waits for the context: srv.Close, before or while it serves.
CloseServer(r) ==
  /\ server[r] \in {"publishing", "announcing", "serving"} /\ ctx[r] = "canceled" /\ r \notin closing
  /\ closing' = closing \cup {r}
  /\ UNCHANGED <<runVars, server, port, ready, listening, managerVars, approverVars, trouble>>

\* ServeTLS returns at once when the server has been closed before.
ServeEnds(r) == server[r] = "serving" /\ r \in closing /\ Return(r) /\ UNCHANGED trouble

Serve(r) ==
  \/ StartManager(r) \/ Certified(r) \/ PollCanceled(r) \/ MakeServer(r)
  \/ StorePort(r) \/ CloseReady(r) \/ CloseServer(r) \/ ServeEnds(r)

-----------------------------------------------------------------------------
(* Kubernetes, and the certificate manager *)

\* A request changes: a version that was read before is stale, and the approver hears of it.
Changes(i, to) ==
  /\ csr' = [csr EXCEPT ![i] = to]
  /\ queue' = queue \cup {i}
  /\ fresh' = (fresh /\ i # worker)

\* The manager has no certificate and no request that could still lead to one.
RequestCert(r) ==
  /\ r \in managing \ current /\ csr[r] \in {"none", "denied", "gone"}
  /\ Changes(r, "pending")
  /\ UNCHANGED <<runVars, serverVars, managerVars, approver, worker, trouble>>

Issue(r) ==
  /\ r \in Runs /\ csr[r] = "approved" /\ Changes(r, "issued")
  /\ UNCHANGED <<runVars, serverVars, managerVars, approver, worker, trouble>>

\* Stopped or not, a manager that waits for its request stores the certificate.
Obtain(r) ==
  /\ csr[r] = "issued" /\ r \notin current
  /\ current' = current \cup {r} /\ stored' = TRUE
  /\ UNCHANGED <<runVars, serverVars, managing, approverVars, trouble>>

\* Others make requests, touch them, deny them, or remove them.
Meddle(i) ==
  /\ Trouble
  /\ \/ i \in Foreign /\ csr[i] = "none" /\ Changes(i, "pending")
     \/ csr[i] = "pending" /\ \E to \in {"pending", "denied", "approved"} : Changes(i, to)
     \/ csr[i] \in {"pending", "denied", "approved"} /\ Changes(i, "gone")
  /\ UNCHANGED <<runVars, serverVars, managerVars, approver, worker>>

-----------------------------------------------------------------------------
(* The approver *)

\* Mutant: requests of any user are approved.
GetAny(i) ==
  /\ approver /\ worker = Idle /\ i \in queue /\ queue' = queue \ {i}
  /\ worker' = IF csr[i] \in Undecided THEN i ELSE Idle
  /\ fresh' = TRUE
  /\ UNCHANGED <<runVars, serverVars, managerVars, csr, approver, trouble>>

\* Reconcile up to the decision: a request that is gone, foreign or approved is
\* left alone; one that has been denied is not.
Get(i) ==
  /\ approver /\ worker = Idle /\ i \in queue /\ queue' = queue \ {i}
  /\ worker' = IF csr[i] \in Undecided /\ i \notin Foreign THEN i ELSE Idle
  /\ fresh' = TRUE
  /\ UNCHANGED <<runVars, serverVars, managerVars, csr, approver, trouble>>

\* UpdateApproval: the API refuses a stale version, and a request that is denied.
UpdateApproval ==
  /\ approver /\ worker # Idle /\ worker' = Idle /\ queue' = queue \cup {worker} /\ fresh' = TRUE
  /\ csr' = [csr EXCEPT ![worker] = IF fresh /\ @ = "pending" THEN "approved" ELSE @]
  /\ UNCHANGED <<runVars, serverVars, managerVars, approver, trouble>>

\* The call fails: the error makes controller-runtime queue the request again.
UpdateFails ==
  /\ approver /\ worker # Idle /\ Trouble /\ worker' = Idle /\ queue' = queue \cup {worker} /\ fresh' = TRUE
  /\ UNCHANGED <<runVars, serverVars, managerVars, csr, approver>>

\* mgr.Start fails: there is a message, and no approver any more.
ApproverEnds ==
  /\ approver /\ Trouble /\ approver' = FALSE /\ worker' = Idle
  /\ UNCHANGED <<runVars, serverVars, managerVars, csr, queue, fresh>>

Reconcile == UpdateApproval \/ \E i \in Request : Get(i)

-----------------------------------------------------------------------------
Goroutine(r) ==
  \/ StartRun(r) \/ GiveUp(r) \/ Register(r) \/ Serve(r) \/ TimesOut(r)
  \/ RequestCert(r) \/ Issue(r) \/ Obtain(r)

Next ==
  \/ \E r \in Runs : Goroutine(r) \/ CancelRun(r) \/ ServerFails(r)
  \/ \E i \in Request : Meddle(i)
  \/ Reconcile \/ UpdateFails \/ ApproverEnds

Spec == Init /\ [][Next]_vars

\* Goroutines proceed, timers expire, and Kubernetes signs what has been
\* approved; each of them has finitely many steps.  The worker of the approver
\* does not pass over a request for ever.
FairSpec ==
  /\ Spec /\ WF_vars(\E r \in Runs : Goroutine(r))
  /\ WF_vars(UpdateApproval) /\ \A r \in Runs : SF_vars(Get(r))

-----------------------------------------------------------------------------
(* Properties *)

\* What the node controller registers is the port of the server of its own run.
RegistersItsPort == \A r \in Runs : run[r] = "registered" => registered[r] = r

\* The approver decides on requests of this controller only, and only on what
\* it has read: a request that someone else has decided meanwhile stays as it is.
ApprovesOwnPending ==
  [][\A i \in Request : worker = i /\ worker' = Idle /\ csr'[i] # csr[i] =>
       i \notin Foreign /\ csr[i] = "pending" /\ fresh]_vars

\* The wait for the server ends: with a port, or because the context of the run
\* is cancelled, which a server that fails sees to itself.
WaitEnds == \A r \in Runs : run[r] = "waiting" ~> run[r] \in {"registered", "returned"}

\* A run that is over leaves no listener behind, at whatever point its context
\* was cancelled.
ListenersClose == \A r \in Runs : ctx[r] = "canceled" ~> r \notin listening

Serving(r) == run[r] = "registered" /\ ctx[r] = "live" /\ server[r] = "serving"

\* As long as there is an approver, the node is served in the end, whatever
\* was denied, removed or cut short before, unless even the last run that the
\* bound allows is cancelled.
ServedInTheEnd ==
  [](approver /\ ctx[MaxRuns] # "canceled") => <>[](\E r \in Runs : Serving(r))
=============================================================================
