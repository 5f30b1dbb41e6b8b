------------------------- MODULE KubeletServerProofs -------------------------
(***************************************************************************)
(* Proofs about KubeletServer: for any number of runs, foreign requests    *)
(* and failures.                                                           *)
(***************************************************************************)
EXTENDS KubeletServer, TLAPS

\* The channel ready tells that there is a port.
PortOK ==
  /\ ready \subseteq port
  /\ \A r \in Runs : server[r] \in {"announcing", "serving"} => r \in port

\* The worker never holds a request of others.
WorkerOK == worker \notin Foreign

IInv == TypeOK /\ PortOK /\ WorkerOK /\ RegistersItsPort

\* What goes wrong is counted up to its bound.
LEMMA TroubleType == ASSUME trouble \in 0..MaxTrouble, Trouble PROVE trouble' \in 0..MaxTrouble
  BY KubeletAssumption DEF Trouble

LEMMA InitIInv == Init => IInv
  BY KubeletAssumption DEF Init, IInv, TypeOK, PortOK, WorkerOK, RegistersItsPort, Idle

\* The steps of the instance.
LEMMA InstanceStep ==
  ASSUME IInv, NEW r \in Runs, StartRun(r) \/ CancelRun(r) \/ GiveUp(r) \/ Register(r)
  PROVE  IInv'
<1> USE DEF IInv, TypeOK, PortOK, WorkerOK, RegistersItsPort, serverVars, managerVars, approverVars
<1>1. CASE StartRun(r)
  BY <1>1 DEF StartRun
<1>2. CASE CancelRun(r)
  <2>1. trouble' \in 0..MaxTrouble
    BY <1>2, TroubleType DEF CancelRun
  <2> QED BY <1>2, <2>1 DEF CancelRun
<1>3. CASE GiveUp(r)
  BY <1>3 DEF GiveUp
<1>4. CASE Register(r)
  BY <1>4 DEF Register
<1> QED BY <1>1, <1>2, <1>3, <1>4

\* A server that returns touches neither its port nor the channel.
LEMMA ReturnStep ==
  ASSUME IInv, NEW r \in Runs, Return(r), trouble' \in 0..MaxTrouble
  PROVE  IInv'
  BY DEF IInv, TypeOK, PortOK, WorkerOK, RegistersItsPort, Return, managerVars, approverVars

\* The steps of the server.
LEMMA ServerStep ==
  ASSUME IInv, NEW r \in Runs, ServerFails(r) \/ TimesOut(r) \/ Serve(r)
  PROVE  IInv'
<1> USE DEF runVars, managerVars, approverVars, Goes
<1>1. ASSUME Return(r), Trouble \/ UNCHANGED trouble PROVE IInv'
  BY <1>1, ReturnStep, TroubleType DEF IInv, TypeOK
<1>2. CASE ServerFails(r) \/ TimesOut(r) \/ PollCanceled(r) \/ ServeEnds(r)
  BY <1>1, <1>2 DEF ServerFails, TimesOut, PollCanceled, ServeEnds
<1>3. CASE StartManager(r)
  BY <1>3 DEF StartManager, IInv, TypeOK, PortOK, WorkerOK, RegistersItsPort
<1>4. CASE Certified(r)
  BY <1>4 DEF Certified, IInv, TypeOK, PortOK, WorkerOK, RegistersItsPort
<1>5. CASE MakeServer(r)
  BY <1>5 DEF MakeServer, IInv, TypeOK, PortOK, WorkerOK, RegistersItsPort
<1>6. CASE StorePort(r)
  BY <1>6 DEF StorePort, IInv, TypeOK, PortOK, WorkerOK, RegistersItsPort
<1>7. CASE CloseReady(r)
  BY <1>7 DEF CloseReady, IInv, TypeOK, PortOK, WorkerOK, RegistersItsPort
<1>8. CASE CloseServer(r)
  BY <1>8 DEF CloseServer, IInv, TypeOK, PortOK, WorkerOK, RegistersItsPort
<1> QED BY <1>2, <1>3, <1>4, <1>5, <1>6, <1>7, <1>8 DEF Serve

\* A request that changes takes nothing from the runs, and the worker keeps its own.
LEMMA ChangesStep ==
  ASSUME IInv, NEW i \in Request, NEW to \in {"pending", "denied", "approved", "issued", "gone"},
         Changes(i, to), trouble' \in 0..MaxTrouble,
         UNCHANGED <<runVars, serverVars, managerVars, approver, worker>>
  PROVE  IInv'
  BY DEF IInv, TypeOK, PortOK, WorkerOK, RegistersItsPort, Changes, runVars, serverVars, managerVars

\* The steps of Kubernetes and of the certificate managers.
LEMMA RequestStep ==
  ASSUME IInv, \/ \E r \in Runs : RequestCert(r) \/ Issue(r) \/ Obtain(r)
               \/ \E i \in Request : Meddle(i)
  PROVE  IInv'
<1>1. ASSUME NEW r \in Runs, Obtain(r) PROVE IInv'
  BY <1>1 DEF Obtain, IInv, TypeOK, PortOK, WorkerOK, RegistersItsPort, runVars, serverVars, approverVars
<1>2. ASSUME NEW r \in Runs, RequestCert(r) \/ Issue(r) PROVE IInv'
  <2>1. /\ r \in Request /\ trouble' \in 0..MaxTrouble
        /\ UNCHANGED <<runVars, serverVars, managerVars, approver, worker>>
    BY <1>2 DEF RequestCert, Issue, Request, IInv, TypeOK
  <2> QED BY <1>2, <2>1, ChangesStep DEF RequestCert, Issue
<1>3. ASSUME NEW i \in Request, Meddle(i) PROVE IInv'
  <2>1. trouble' \in 0..MaxTrouble /\ UNCHANGED <<runVars, serverVars, managerVars, approver, worker>>
    BY <1>3, TroubleType DEF Meddle, IInv, TypeOK
  <2> QED BY <1>3, <2>1, ChangesStep DEF Meddle
<1> QED BY <1>1, <1>2, <1>3

\* The steps of the approver.
LEMMA ApproverStep ==
  ASSUME IInv, Reconcile \/ UpdateFails \/ ApproverEnds
  PROVE  IInv'
<1> USE DEF IInv, TypeOK, PortOK, WorkerOK, RegistersItsPort, runVars, serverVars, managerVars, Idle
<1>1. Idle \notin Foreign
  BY KubeletAssumption
<1>2. ASSUME NEW i \in Request, Get(i) PROVE IInv'
  BY <1>1, <1>2 DEF Get
<1>3. CASE UpdateApproval
  BY <1>1, <1>3 DEF UpdateApproval
<1>4. CASE UpdateFails
  <2>1. trouble' \in 0..MaxTrouble
    BY <1>4, TroubleType DEF UpdateFails
  <2> QED BY <1>1, <1>4, <2>1 DEF UpdateFails
<1>5. CASE ApproverEnds
  <2>1. trouble' \in 0..MaxTrouble
    BY <1>5, TroubleType DEF ApproverEnds
  <2> QED BY <1>1, <1>5, <2>1 DEF ApproverEnds
<1> QED BY <1>2, <1>3, <1>4, <1>5 DEF Reconcile

LEMMA Inductive == IInv /\ [Next]_vars => IInv'
<1> SUFFICES ASSUME IInv, [Next]_vars PROVE IInv'
  OBVIOUS
<1>1. CASE UNCHANGED vars
  BY <1>1 DEF vars, runVars, serverVars, managerVars, approverVars, IInv, TypeOK, PortOK, WorkerOK,
              RegistersItsPort
<1> QED
  BY <1>1, InstanceStep, ServerStep, RequestStep, ApproverStep DEF Next, Goroutine

LEMMA Invariance == Spec => []IInv
  BY InitIInv, Inductive, PTL DEF Spec

\* The variables have their types in every behaviour.
THEOREM TypeCorrect == Spec => []TypeOK
  BY Invariance, PTL DEF IInv

\* Run stores the port before it closes the channel that Register waits for, so
\* no run registers the port of another or none: RegistersItsPort.
THEOREM NodesRegisterTheirPort == Spec => []RegistersItsPort
  BY Invariance, PTL DEF IInv

\* Whoever else touches requests, the approver decides on its own pending ones
\* only, in the version it has read: ApprovesOwnPending.
THEOREM ApprovalsAreOwn == Spec => ApprovesOwnPending
<1> DEFINE Decides(i) == worker = i /\ worker' = Idle /\ csr'[i] # csr[i]
<1>1. ASSUME IInv, [Next]_vars
      PROVE  [\A i \in Request : Decides(i) => i \notin Foreign /\ csr[i] = "pending" /\ fresh]_vars
  <2> SUFFICES ASSUME NEW i \in Request, Decides(i), Next
               PROVE  i \notin Foreign /\ csr[i] = "pending" /\ fresh
    BY <1>1 DEF vars, approverVars
  <2>1. i # Idle
    BY KubeletAssumption DEF Request, Runs, Idle
  <2>2. UpdateApproval \/ UNCHANGED csr \/ UNCHANGED worker
    BY DEF Next, Goroutine, StartRun, CancelRun, GiveUp, Register, Serve, ServerFails, TimesOut, Return,
           StartManager, Certified, PollCanceled, MakeServer, StorePort, CloseReady, CloseServer,
           ServeEnds, RequestCert, Issue, Obtain, Meddle, Reconcile, Get, UpdateFails, ApproverEnds,
           approverVars
  <2>3. CASE UpdateApproval
    BY <1>1, <2>3 DEF UpdateApproval, IInv, TypeOK, WorkerOK
  <2> QED
    BY <2>1, <2>2, <2>3
<1> QED BY <1>1, Invariance, PTL DEF Spec, ApprovesOwnPending
=============================================================================
