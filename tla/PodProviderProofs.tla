------------------------- MODULE PodProviderProofs -------------------------
(***************************************************************************)
(* The invariants of PodProvider, for any number of names, workers, jobs,  *)
(* edits, failures and restarts.  Each part adds an invariant to those     *)
(* before it:                                                              *)
(*   IInv   types, and identifier labels that belong to their Pods         *)
(*   OInv   one job for each object, unless something restarts             *)
(*   TInv   no copy of a Pod says Succeeded of a job that did not succeed  *)
(*   AInv   while all is calm, someone holds the identifier of every job   *)
(*   VInv   calls and removals that agree with what Kubernetes shows       *)
(***************************************************************************)
EXTENDS PodProvider, TLAPS

\* The names of TypeOK's external jobs are the domain of the variable external.
USE DEF Untracked

\* A provider call under way has its argument, and an answered Create carries
\* the identifier of a job that Slurm created for that argument.
CallOK(k) ==
  \/ work[k] = Idle
  \/ /\ work[k].op # "none"
     /\ work[k].pod \in Pod
     /\ work[k].op = "create" /\ work[k].stage = "answered" =>
          /\ work[k].answer \in JobId
          /\ jobs[work[k].answer] # NoJob
          /\ jobs[work[k].answer].key = k
          /\ jobs[work[k].answer].uid = work[k].pod.uid

\* A listed status is that of a job; its lookup will find an entry or none.
UpdateOK == update # NoUpdate /\ update.stage = "listed" => update.job \in JobId

IInv == /\ TypeOK
        /\ \A k \in Key : CallOK(k)
        /\ UpdateOK
        /\ IdentifierOwned

-----------------------------------------------------------------------------
LEMMA InitIInv == Init => IInv
  BY ProviderAssumption
  DEF Init, IInv, TypeOK, CallOK, UpdateOK, IdentifierOwned, OwnsId, Idle, Work, Phase

\* Steps of users and of the pod controller: copies of Pods move unchanged.
LEMMA KubernetesStep ==
  ASSUME IInv, NEW k \in Key, CreateObject(k) \/ EditObject(k) \/ DeleteObject(k)
  PROVE  IInv'
<1> USE ProviderAssumption
<1>1. CASE CreateObject(k)
  <2>1. TypeOK'
    <3>1. uids[k] + 1 \in 1..MaxUid
      BY <1>1 DEF IInv, TypeOK, CreateObject
    <3>2. [uid |-> uids[k] + 1, id |-> NoId, edit |-> 0, phase |-> "Pending",
           message |-> "none"] \in Pod
      BY <3>1 DEF Pod, Phase, Message
    <3>3. uids' \in [Key -> 0..MaxUid]
      BY <1>1, <3>1 DEF IInv, TypeOK, CreateObject
    <3>4. k8s' \in [Key -> Pod \cup {NoPod}]
      BY <1>1, <3>2 DEF IInv, TypeOK, CreateObject
    <3>5. QED
      BY <1>1, <3>3, <3>4 DEF IInv, TypeOK, CreateObject, provVars, slurmVars, bounds
  <2>2. k8s'[k].id = NoId /\ \A m \in Key \ {k} : k8s'[m] = k8s[m]
    BY <1>1 DEF IInv, TypeOK, CreateObject
  <2>3. UNCHANGED <<pods, note, work, update, jobs>>
    BY <1>1 DEF CreateObject, provVars, slurmVars
  <2>4. IdentifierOwned'
    BY <2>2, <2>3 DEF IInv, IdentifierOwned, OwnsId
  <2>5. QED
    BY <2>1, <2>3, <2>4 DEF IInv, CallOK, UpdateOK
<1>2. CASE EditObject(k)
  <2> DEFINE q == [k8s[k] EXCEPT !.edit = edits + 1]
  <2>1. edits + 1 \in 0..MaxEdit /\ edits' = edits + 1
    BY <1>2 DEF IInv, TypeOK, EditObject
  <2>2. q \in Pod /\ q.id = k8s[k].id /\ q.uid = k8s[k].uid
    <3>1. k8s[k] \in Pod
      BY <1>2 DEF IInv, TypeOK, EditObject
    <3>2. QED BY <2>1, <3>1 DEF Pod
  <2>3. /\ k8s' = [k8s EXCEPT ![k] = q] /\ k8s[k] # NoPod
        /\ queue' \subseteq Key
        /\ UNCHANGED <<deleting, uids, work, note, removal, provVars, update, slurmVars,
                       restarts, fails>>
    BY <1>2 DEF IInv, TypeOK, EditObject
  <2> HIDE DEF q
  <2>4. TypeOK'
    BY <2>1, <2>2, <2>3 DEF IInv, TypeOK, provVars, slurmVars
  <2>5. \A m \in Key : k8s'[m] = IF m = k THEN q ELSE k8s[m]
    BY <2>3 DEF IInv, TypeOK
  <2>6. IdentifierOwned'
    BY <2>2, <2>3, <2>5 DEF IInv, IdentifierOwned, OwnsId, provVars, slurmVars
  <2>7. QED
    BY <2>3, <2>4, <2>6 DEF IInv, CallOK, UpdateOK, provVars, slurmVars
<1>3. CASE DeleteObject(k)
  BY <1>3 DEF IInv, TypeOK, DeleteObject, CallOK, UpdateOK, IdentifierOwned, OwnsId,
              provVars, slurmVars, bounds
<1>4. QED BY <1>1, <1>2, <1>3

LEMMA SyncStep ==
  ASSUME IInv, NEW k \in Key, SyncPod(k)
  PROVE  IInv'
<1> USE ProviderAssumption
<1>1. /\ work' = work
         \/ \E op \in {"create", "update", "delete"}, p \in {k8s[k], pods[k]} :
              p # NoPod /\ work' = [work EXCEPT ![k] = Call(op, p)]
      /\ removal' \subseteq Key /\ queue' \subseteq Key
      /\ UNCHANGED <<kubeVars, note, provVars, update, slurmVars, bounds>>
  BY DEF IInv, TypeOK, SyncPod
<1>2. CASE work' = work
  BY <1>1, <1>2 DEF IInv, TypeOK, CallOK, UpdateOK, IdentifierOwned, OwnsId,
                    kubeVars, provVars, slurmVars, bounds
<1>3. CASE \E op \in {"create", "update", "delete"}, p \in {k8s[k], pods[k]} :
              p # NoPod /\ work' = [work EXCEPT ![k] = Call(op, p)]
  <2>1. PICK op \in {"create", "update", "delete"}, p \in {k8s[k], pods[k]} :
              p # NoPod /\ work' = [work EXCEPT ![k] = Call(op, p)]
    BY <1>3
  <2>2. p \in Pod /\ OwnsId(k, p)
    BY <2>1 DEF IInv, TypeOK, IdentifierOwned
  <2>3. Call(op, p) \in Work
    BY <2>2 DEF Call, Work
  <2>4. QED
    BY <1>1, <2>1, <2>2, <2>3
    DEF IInv, TypeOK, CallOK, UpdateOK, IdentifierOwned, OwnsId, Call,
        kubeVars, provVars, slurmVars, bounds
<1>4. QED BY <1>1, <1>2, <1>3

LEMMA PushStep ==
  ASSUME IInv, NEW k \in Key, PushStatus(k) \/ RemoveObject(k)
  PROVE  IInv'
<1> USE ProviderAssumption
<1>1. /\ k8s' = k8s \/ k8s' = [k8s EXCEPT ![k] = note[k]]
         \/ k8s' = [k8s EXCEPT ![k] = NoPod]
      /\ note' = [note EXCEPT ![k] = NoPod]
      /\ queue' \subseteq Key /\ removal' \subseteq Key /\ deleting' \subseteq Key
      /\ UNCHANGED <<uids, work, provVars, update, slurmVars, bounds>>
  BY DEF IInv, TypeOK, PushStatus, RemoveObject
<1>2. TypeOK'
  BY <1>1 DEF IInv, TypeOK, provVars, slurmVars, bounds
<1>3. IdentifierOwned'
  <2> SUFFICES ASSUME NEW m \in Key
               PROVE  /\ OwnsId(m, k8s[m])' /\ OwnsId(m, pods[m])'
                      /\ OwnsId(m, note[m])' /\ OwnsId(m, work[m].pod)'
    BY DEF IdentifierOwned
  <2>1. OwnsId(m, k8s[m]) /\ OwnsId(m, note[m]) /\ OwnsId(m, pods[m])
        /\ OwnsId(m, work[m].pod)
    BY DEF IInv, IdentifierOwned
  <2>2. k8s'[m] \in {k8s[m], note[m], NoPod} /\ note'[m] \in {note[m], NoPod}
    BY <1>1 DEF IInv, TypeOK
  <2>3. QED BY <1>1, <2>1, <2>2 DEF OwnsId, provVars, slurmVars
<1>4. QED BY <1>1, <1>2, <1>3 DEF IInv, CallOK, UpdateOK, slurmVars

-----------------------------------------------------------------------------
\* Storing and notifying a Pod that owns its identifier, and ending the call.
LEMMA StoreStep ==
  ASSUME IInv, NEW k \in Key, NEW p \in Pod, OwnsId(k, p),
         Store(k, p), work' = work \/ work' = [work EXCEPT ![k] = Idle],
         tracked' \in [JobId -> Entry \cup {NoEntry}],
         pendingStatus' \in [Key -> Phase \cup {NoPod}],
         update' \in Update \cup {NoUpdate}, UpdateOK',
         UNCHANGED <<kubeVars, queue, removal, slurmVars, bounds>>
  PROVE  IInv'
<1> USE ProviderAssumption
<1>1. /\ pods' = [pods EXCEPT ![k] = p]
      /\ note' = note \/ note' = [note EXCEPT ![k] = p]
  BY DEF Store, Notify
<1>2. Idle \in Work
  BY DEF Idle, Work
<1>3. TypeOK'
  BY <1>1, <1>2 DEF IInv, TypeOK, kubeVars, slurmVars, bounds
<1>4. IdentifierOwned'
  <2> SUFFICES ASSUME NEW m \in Key
               PROVE  /\ OwnsId(m, k8s[m])' /\ OwnsId(m, pods[m])'
                      /\ OwnsId(m, note[m])' /\ OwnsId(m, work[m].pod)'
    BY DEF IdentifierOwned
  <2>1. OwnsId(m, k8s[m]) /\ OwnsId(m, note[m]) /\ OwnsId(m, pods[m])
        /\ OwnsId(m, work[m].pod)
    BY DEF IInv, IdentifierOwned
  <2>2. /\ m = k \/ pods'[m] = pods[m]
        /\ m = k => pods'[m] = p
        /\ note'[m] = note[m] \/ (m = k /\ note'[m] = p)
        /\ work'[m] \in {work[m], Idle}
    BY <1>1 DEF IInv, TypeOK
  <2>3. QED BY <2>1, <2>2 DEF OwnsId, Idle, kubeVars, slurmVars
<1>5. \A m \in Key : CallOK(m)'
  BY DEF IInv, TypeOK, CallOK, slurmVars
<1>6. QED BY <1>3, <1>4, <1>5 DEF IInv

\* The argument of a call is a Pod that owns its identifier.
LEMMA ArgumentOK ==
  ASSUME IInv, NEW k \in Key, work[k].op # "none"
  PROVE  work[k].pod \in Pod /\ OwnsId(k, work[k].pod)
  BY DEF IInv, CallOK, IdentifierOwned, Idle

LEMMA FinishCreateStep ==
  ASSUME IInv, NEW k \in Key, NEW p \in Pod, OwnsId(k, p), FinishCreate(k, p),
         pendingStatus' \in [Key -> Phase \cup {NoPod}],
         UNCHANGED <<kubeVars, queue, removal, update, slurmVars, bounds>>
  PROVE  IInv'
<1> DEFINE q == [p EXCEPT !.message = "created"]
<1>1. q \in Pod /\ OwnsId(k, q)
  <2>1. q \in Pod /\ q.id = p.id /\ q.uid = p.uid
    BY DEF Pod, Message
  <2>2. QED BY <2>1, NoPodAssumption DEF OwnsId
<1>2. tracked' \in [JobId -> Entry \cup {NoEntry}]
  <2>1. CASE IsTracked(k) /\ p.id # NoId
    <3>1. p.id \in JobId
      BY <2>1 DEF Pod
    <3>2. [key |-> k, live |-> TRUE] \in Entry
      BY DEF Entry
    <3>3. tracked' = [tracked EXCEPT ![p.id] = [key |-> k, live |-> TRUE]]
      BY <2>1 DEF FinishCreate, Track
    <3>4. QED BY <3>1, <3>2, <3>3 DEF IInv, TypeOK
  <2>2. CASE ~(IsTracked(k) /\ p.id # NoId)
    BY <2>2 DEF FinishCreate, IInv, TypeOK
  <2>3. QED BY <2>1, <2>2
<1>3. Store(k, q) /\ work' = [work EXCEPT ![k] = Idle]
  BY DEF FinishCreate
<1>4. update' \in Update \cup {NoUpdate} /\ UpdateOK'
  BY DEF IInv, TypeOK, UpdateOK
<1> HIDE DEF q
<1>5. QED BY <1>1, <1>2, <1>3, <1>4, StoreStep

LEMMA CreateStep ==
  ASSUME IInv, NEW k \in Key, CreatePod(k)
  PROVE  IInv'
<1> USE ProviderAssumption
<1> DEFINE p == Loaded(k)
<1>1. work[k].pod \in Pod /\ OwnsId(k, work[k].pod)
  BY ArgumentOK DEF CreatePod
<1>2. p \in Pod /\ OwnsId(k, p) /\ p.uid = work[k].pod.uid
  <2>1. pendingStatus[k] # NoPod => pendingStatus[k] \in Phase
    BY DEF IInv, TypeOK
  <2>2. p \in Pod /\ p.id = work[k].pod.id /\ p.uid = work[k].pod.uid
    BY <1>1, <2>1 DEF Loaded, Pod
  <2>3. QED BY <1>1, <2>2, NoPodAssumption DEF OwnsId
<1>3. pendingStatus' \in [Key -> Phase \cup {NoPod}]
  BY DEF CreatePod, IInv, TypeOK
<1>4. CASE NeedsDispatch(k)
  <2> HIDE DEF p
  <2>1. /\ work' = [work EXCEPT ![k].stage = "rpc", ![k].pod = p]
        /\ requests' = requests \cup {[key |-> k, uid |-> work[k].pod.uid, run |-> restarts]}
        /\ UNCHANGED <<kubeVars, queue, removal, update, jobs, external, bounds,
                       tracked, pods, note>>
        /\ work[k].op = "create"
    BY <1>4 DEF CreatePod, p
  <2>2. [key |-> k, uid |-> work[k].pod.uid, run |-> restarts] \in Request
    BY <1>1 DEF IInv, TypeOK, Pod, Request
  <2>a. work[k] \in Work
    BY DEF IInv, TypeOK
  <2>3. /\ work'[k] = [op |-> "create", stage |-> "rpc", pod |-> p, answer |-> work[k].answer]
        /\ \A m \in Key \ {k} : work'[m] = work[m]
        /\ work' \in [Key -> Work]
    BY <1>2, <2>1, <2>a DEF IInv, TypeOK, Work
  <2>4. TypeOK'
    BY <1>3, <2>1, <2>2, <2>3 DEF IInv, TypeOK, kubeVars, bounds
  <2>5. \A m \in Key : CallOK(m)'
    BY <1>2, <2>1, <2>3 DEF IInv, CallOK
  <2>6. IdentifierOwned'
    BY <1>2, <2>1, <2>3 DEF IInv, IdentifierOwned, OwnsId, kubeVars
  <2>7. UpdateOK'
    BY <2>1 DEF IInv, UpdateOK
  <2>8. QED BY <2>4, <2>5, <2>6, <2>7 DEF IInv
<1>5. CASE ~NeedsDispatch(k)
  <2> HIDE DEF p
  <2>1. FinishCreate(k, p)
    BY <1>5 DEF CreatePod, p
  <2>2. UNCHANGED <<kubeVars, queue, removal, update, slurmVars, bounds>>
    BY <1>5 DEF CreatePod, slurmVars
  <2>3. QED BY <1>2, <1>3, <2>1, <2>2, FinishCreateStep
<1>6. QED BY <1>4, <1>5

LEMMA EndCreateStep ==
  ASSUME IInv, NEW k \in Key, EndCreate(k)
  PROVE  IInv'
<1>1. work[k].pod \in Pod /\ OwnsId(k, work[k].pod)
  BY ArgumentOK DEF EndCreate
<1>2. /\ pendingStatus' \in [Key -> Phase \cup {NoPod}]
      /\ UNCHANGED <<kubeVars, queue, removal, update, slurmVars, bounds>>
  BY DEF EndCreate, IInv, TypeOK
<1>3. CASE work[k].stage = "answered"
  <2> DEFINE p == [work[k].pod EXCEPT !.id = work[k].answer]
  <2>1. /\ work[k].answer \in JobId /\ jobs[work[k].answer] # NoJob
        /\ jobs[work[k].answer].key = k
        /\ jobs[work[k].answer].uid = work[k].pod.uid
    BY <1>3 DEF EndCreate, IInv, CallOK, Idle
  <2>2. p \in Pod /\ OwnsId(k, p)
    <3>1. p \in Pod /\ p.id = work[k].answer /\ p.uid = work[k].pod.uid
      BY <1>1, <2>1 DEF Pod
    <3>2. QED BY <2>1, <3>1, NoPodAssumption DEF OwnsId
  <2>3. FinishCreate(k, p)
    BY <1>3 DEF EndCreate
  <2> HIDE DEF p
  <2>4. QED BY <1>2, <2>2, <2>3, FinishCreateStep
<1>4. CASE work[k].stage = "failed"
  <2> DEFINE p == [work[k].pod EXCEPT !.phase = "Failed"]
  <2>1. p \in Pod /\ OwnsId(k, p)
    <3>1. p \in Pod /\ p.id = work[k].pod.id /\ p.uid = work[k].pod.uid
      BY <1>1 DEF Pod, Phase
    <3>2. QED BY <1>1, <3>1, NoPodAssumption DEF OwnsId
  <2>2. FinishCreate(k, p)
    BY <1>4 DEF EndCreate
  <2> HIDE DEF p
  <2>3. QED BY <1>2, <2>1, <2>2, FinishCreateStep
<1>5. QED BY <1>3, <1>4 DEF EndCreate

LEMMA UpdatePodStep ==
  ASSUME IInv, NEW k \in Key, UpdatePod(k)
  PROVE  IInv'
<1> DEFINE p == [work[k].pod EXCEPT !.message = "updated"]
<1>1. work[k].pod \in Pod /\ OwnsId(k, work[k].pod)
  BY ArgumentOK DEF UpdatePod
<1>2. p \in Pod /\ OwnsId(k, p)
  <2>1. p \in Pod /\ p.id = work[k].pod.id /\ p.uid = work[k].pod.uid
    BY <1>1 DEF Pod, Message
  <2>2. QED BY <1>1, <2>1, NoPodAssumption DEF OwnsId
<1>3. Store(k, p) /\ work' = [work EXCEPT ![k] = Idle]
  BY DEF UpdatePod
<1>4. /\ tracked' \in [JobId -> Entry \cup {NoEntry}]
      /\ pendingStatus' \in [Key -> Phase \cup {NoPod}]
      /\ update' \in Update \cup {NoUpdate} /\ UpdateOK'
      /\ UNCHANGED <<kubeVars, queue, removal, slurmVars, bounds>>
  BY DEF UpdatePod, IInv, TypeOK, UpdateOK
<1> HIDE DEF p
<1>5. QED BY <1>2, <1>3, <1>4, StoreStep

\* The ways in which DeletePod, with or without its RPC, goes on.
LEMMA DeleteStep ==
  ASSUME IInv, NEW k \in Key, DeletePod(k) \/ EndDelete(k)
  PROVE  IInv'
<1> USE ProviderAssumption
<1> DEFINE p == [work[k].pod EXCEPT !.phase = "Succeeded", !.message = "deleted"]
           w == [work[k] EXCEPT !.stage = "rpc"]
<1>1. work[k].pod \in Pod /\ OwnsId(k, work[k].pod)
  BY ArgumentOK DEF DeletePod, EndDelete
<1>2. p \in Pod /\ OwnsId(k, p)
  <2>1. p \in Pod /\ p.id = work[k].pod.id /\ p.uid = work[k].pod.uid
    BY <1>1 DEF Pod, Phase, Message
  <2>2. QED BY <1>1, <2>1, NoPodAssumption DEF OwnsId
<1>3. w \in Work /\ w.pod = work[k].pod /\ w.op = work[k].op /\ w.stage = "rpc"
  BY DEF IInv, TypeOK, Work
<1>4. Idle \in Work /\ Idle.pod = NoPod
  BY DEF Idle, Work
<1>5. /\ pods' = pods \/ pods' = [pods EXCEPT ![k] = NoPod]
      /\ note' = note \/ note' = [note EXCEPT ![k] = p]
      /\ work' = [work EXCEPT ![k] = Idle] \/ work' = [work EXCEPT ![k] = w]
      /\ removal' \in SUBSET Key
      /\ tracked' \in [JobId -> Entry \cup {NoEntry}]
      /\ work[k].op # "none"
      /\ UNCHANGED <<kubeVars, queue, pendingStatus, update, slurmVars, bounds>>
  BY DEF DeletePod, EndDelete, FinishDelete, ScheduleRemoval, Notify, Untrack, IInv, TypeOK
<1> HIDE DEF p, w
<1>6. TypeOK'
  BY <1>2, <1>3, <1>4, <1>5 DEF IInv, TypeOK, kubeVars, slurmVars, bounds
<1>7. \A m \in Key : /\ pods'[m] \in {pods[m], NoPod}
                     /\ note'[m] = note[m] \/ (m = k /\ note'[m] = p)
                     /\ work'[m] \in {work[m], Idle} \/ (m = k /\ work'[m] = w)
  BY <1>5 DEF IInv, TypeOK
<1>8. IdentifierOwned'
  <2> SUFFICES ASSUME NEW m \in Key
               PROVE  /\ OwnsId(m, k8s[m])' /\ OwnsId(m, pods[m])'
                      /\ OwnsId(m, note[m])' /\ OwnsId(m, work[m].pod)'
    BY DEF IdentifierOwned
  <2>1. OwnsId(m, k8s[m]) /\ OwnsId(m, note[m]) /\ OwnsId(m, pods[m])
        /\ OwnsId(m, work[m].pod)
    BY DEF IInv, IdentifierOwned
  <2>2. QED BY <1>2, <1>3, <1>4, <1>5, <1>7, <2>1 DEF OwnsId, kubeVars, slurmVars
<1>9. \A m \in Key : CallOK(m)'
  BY <1>1, <1>3, <1>5, <1>7 DEF IInv, CallOK, slurmVars
<1>10. QED BY <1>5, <1>6, <1>8, <1>9 DEF IInv, UpdateOK

-----------------------------------------------------------------------------
LEMMA PollStep ==
  ASSUME IInv, \/ \E j \in JobId : PollTracked(j)
               \/ \E k \in Key : PollUntracked(k)
               \/ LookupTracked
  PROVE  IInv'
<1> USE ProviderAssumption
<1>1. update' \in Update \cup {NoUpdate} /\ UpdateOK'
  <2>1. CASE \E j \in JobId : PollTracked(j)
    BY <2>1 DEF PollTracked, IInv, TypeOK, Update, UpdateOK, Job
  <2>2. CASE \E k \in Key : PollUntracked(k)
    BY <2>2 DEF PollUntracked, IInv, TypeOK, Update, UpdateOK
  <2>3. CASE LookupTracked
    <3>1. update \in Update /\ update.job \in JobId
      BY <2>3 DEF LookupTracked, IInv, TypeOK, UpdateOK
    <3>2. tracked[update.job] # NoEntry => tracked[update.job] \in Entry
      BY <3>1 DEF IInv, TypeOK
    <3>3. QED BY <2>3, <3>1, <3>2 DEF LookupTracked, Update, Entry, UpdateOK
  <2>4. QED BY <2>1, <2>2, <2>3
<1>2. UNCHANGED <<kubeVars, vkVars, provVars, slurmVars, bounds>>
  BY DEF PollTracked, PollUntracked, LookupTracked
<1>3. QED
  BY <1>1, <1>2 DEF IInv, TypeOK, CallOK, IdentifierOwned, OwnsId,
                    kubeVars, vkVars, provVars, slurmVars, bounds

LEMMA ApplyStep ==
  ASSUME IInv, ApplyStatus
  PROVE  IInv'
<1> USE ProviderAssumption
<1> DEFINE k == update.key
           p == [pods[k] EXCEPT !.phase = update.phase, !.message = "status updated"]
<1>1. update \in Update /\ k \in Key /\ update.phase \in Phase
  BY DEF ApplyStatus, IInv, TypeOK, Update
<1>2. /\ pendingStatus' \in [Key -> Phase \cup {NoPod}]
      /\ update' \in Update \cup {NoUpdate} /\ UpdateOK'
      /\ UNCHANGED <<kubeVars, queue, work, removal, tracked, slurmVars, bounds>>
  BY <1>1 DEF ApplyStatus, IInv, TypeOK, UpdateOK
<1>3. CASE UNCHANGED <<pods, note>>
  BY <1>2, <1>3 DEF IInv, TypeOK, CallOK, IdentifierOwned, OwnsId,
                    kubeVars, slurmVars, bounds
<1>4. CASE pods[k] # NoPod /\ Store(k, p)
  <2>1. pods[k] \in Pod /\ OwnsId(k, pods[k])
    BY <1>1, <1>4 DEF IInv, TypeOK, IdentifierOwned
  <2>2. p \in Pod /\ p.id = pods[k].id /\ p.uid = pods[k].uid
    BY <1>1, <2>1 DEF Pod, Message
  <2>3. OwnsId(k, p)
    BY <2>1, <2>2, NoPodAssumption DEF OwnsId
  <2>4. tracked' \in [JobId -> Entry \cup {NoEntry}] /\ work' = work
    BY <1>2 DEF IInv, TypeOK
  <2> HIDE DEF p
  <2>5. QED BY <1>1, <1>2, <1>4, <2>2, <2>3, <2>4, StoreStep
<1>5. QED BY <1>3, <1>4 DEF ApplyStatus

-----------------------------------------------------------------------------
\* Jobs are only added, and an existing one keeps its owner; the worker of a
\* name changes at most the stage and the answer of its call.
LEMMA SlurmStep ==
  ASSUME IInv, NEW k \in Key, NEW w \in Work,
         work' = [work EXCEPT ![k] = w], w.op = work[k].op, w.pod = work[k].pod,
         w = work[k] \/ w.op # "none",
         w.op = "create" /\ w.stage = "answered" /\ w # work[k] =>
           /\ w.answer \in JobId /\ jobs'[w.answer] # NoJob
           /\ jobs'[w.answer].key = k /\ jobs'[w.answer].uid = w.pod.uid,
         jobs' \in [JobId -> Job \cup {NoJob}],
         \A j \in JobId : jobs[j] # NoJob =>
           /\ jobs'[j] # NoJob
           /\ jobs'[j].key = jobs[j].key /\ jobs'[j].uid = jobs[j].uid,
         requests' \subseteq Request, fails' \in 0..MaxFail,
         UNCHANGED <<kubeVars, queue, note, removal, provVars, update, external,
                     restarts, edits>>
  PROVE  IInv'
<1> USE ProviderAssumption
<1>1. TypeOK'
  BY DEF IInv, TypeOK, kubeVars, provVars
<1>2. \A m \in Key : work'[m] = IF m = k THEN w ELSE work[m]
  BY DEF IInv, TypeOK
<1>3. \A m \in Key : CallOK(m)'
  <2> SUFFICES ASSUME NEW m \in Key PROVE CallOK(m)'
    OBVIOUS
  <2>1. CallOK(m)
    BY DEF IInv
  <2>2. CASE m = k /\ w # work[k]
    <3>1. w.op # "none" /\ w.pod \in Pod
      BY <2>2, ArgumentOK
    <3>2. QED BY <1>2, <2>2, <3>1 DEF CallOK
  <2>3. CASE work'[m] = work[m]
    BY <2>1, <2>3 DEF CallOK
  <2>4. QED BY <1>2, <2>2, <2>3
<1>4. IdentifierOwned'
  <2> SUFFICES ASSUME NEW m \in Key
               PROVE  /\ OwnsId(m, k8s[m])' /\ OwnsId(m, pods[m])'
                      /\ OwnsId(m, note[m])' /\ OwnsId(m, work[m].pod)'
    BY DEF IdentifierOwned
  <2>1. OwnsId(m, k8s[m]) /\ OwnsId(m, note[m]) /\ OwnsId(m, pods[m])
        /\ OwnsId(m, work[m].pod) /\ work'[m].pod = work[m].pod
    BY <1>2 DEF IInv, IdentifierOwned
  <2>2. /\ k8s[m] \in Pod \cup {NoPod} /\ note[m] \in Pod \cup {NoPod}
        /\ pods[m] \in Pod \cup {NoPod} /\ work[m].pod \in Pod \cup {NoPod}
    BY DEF IInv, TypeOK, Work
  <2>3. \A p \in Pod : p.id # NoId => p.id \in JobId
    BY DEF Pod
  <2>4. QED BY <2>1, <2>2, <2>3 DEF OwnsId, kubeVars, provVars
<1>5. QED BY <1>1, <1>3, <1>4 DEF IInv, UpdateOK

LEMMA RequestStep ==
  ASSUME IInv, NEW r \in requests, SbatchFails(r) \/ \E j \in JobId : Sbatch(r, j)
  PROVE  IInv'
<1> USE ProviderAssumption
<1> DEFINE k == r.key
<1>1. r \in Request /\ k \in Key /\ r.uid \in 1..MaxUid /\ work[k] \in Work
      /\ work = [work EXCEPT ![k] = work[k]]
  BY DEF IInv, TypeOK, Request
<1>2. CASE SbatchFails(r)
  <2> DEFINE w == IF Awaits(r) THEN [work[k] EXCEPT !.stage = "failed"] ELSE work[k]
  <2>1. /\ w \in Work /\ w.op = work[k].op /\ w.pod = work[k].pod
        /\ w = work[k] \/ (w.op # "none" /\ w.stage = "failed")
    BY <1>1 DEF Work, Awaits
  <2>2. work' = [work EXCEPT ![k] = w]
    BY <1>1, <1>2 DEF SbatchFails
  <2>3. fails' \in 0..MaxFail /\ requests' \subseteq Request
    BY <1>2 DEF SbatchFails, IInv, TypeOK
  <2>4. /\ jobs' \in [JobId -> Job \cup {NoJob}] /\ jobs' = jobs
        /\ UNCHANGED <<kubeVars, queue, note, removal, provVars, update, external,
                       restarts, edits>>
    BY <1>2 DEF SbatchFails, IInv, TypeOK
  <2> HIDE DEF w
  <2>5. QED BY <1>1, <2>1, <2>2, <2>3, <2>4, SlurmStep
<1>3. ASSUME NEW j \in JobId, Sbatch(r, j)
      PROVE  IInv'
  <2> DEFINE w == IF Awaits(r) THEN [work[k] EXCEPT !.stage = "answered", !.answer = j]
                  ELSE work[k]
  <2>1. /\ w \in Work /\ w.op = work[k].op /\ w.pod = work[k].pod
        /\ w = work[k] \/ (w.op # "none" /\ w.answer = j /\ w.pod.uid = r.uid)
    BY <1>1 DEF Work, Awaits
  <2>2. work' = [work EXCEPT ![k] = w]
    BY <1>1, <1>3 DEF Sbatch
  <2>3. [key |-> r.key, uid |-> r.uid, phase |-> "Pending"] \in Job
    BY <1>1 DEF Job, Phase
  <2>4. /\ jobs' = [jobs EXCEPT ![j] = [key |-> r.key, uid |-> r.uid, phase |-> "Pending"]]
        /\ jobs[j] = NoJob /\ fails' = fails /\ requests' \subseteq Request
        /\ UNCHANGED <<kubeVars, queue, note, removal, provVars, update, external,
                       restarts, edits>>
    BY <1>3 DEF Sbatch, IInv, TypeOK, bounds
  <2>5. /\ jobs' \in [JobId -> Job \cup {NoJob}] /\ jobs'[j] # NoJob
        /\ jobs'[j].key = k /\ jobs'[j].uid = r.uid
        /\ \A i \in JobId : jobs[i] # NoJob => jobs'[i] = jobs[i]
    BY <2>3, <2>4, NoJobAssumption DEF IInv, TypeOK
  <2>6. fails' \in 0..MaxFail
    BY <2>4 DEF IInv, TypeOK
  <2> HIDE DEF w
  <2>7. QED BY <1>1, <2>1, <2>2, <2>4, <2>5, <2>6, SlurmStep
<1>4. QED BY <1>2, <1>3

LEMMA AgentStep ==
  ASSUME IInv, NEW k \in Key, Agent(k)
  PROVE  IInv'
<1> USE ProviderAssumption
<1>1. work[k] \in Work /\ work[k].op # "none"
  BY DEF Agent, LoseCreate, Scancel, LoseDelete, IInv, TypeOK
<1>2. CASE LoseCreate(k) \/ LoseDelete(k)
  <2>1. PICK s \in {"failed", "answered"} :
          /\ work' = [work EXCEPT ![k].stage = s]
          /\ s = "answered" => work[k].op = "delete"
    BY <1>2 DEF LoseCreate, LoseDelete
  <2> DEFINE w == [work[k] EXCEPT !.stage = s]
  <2>2. w \in Work /\ w.op = work[k].op /\ w.pod = work[k].pod /\ w.stage = s
    BY <1>1 DEF Work
  <2>3. work' = [work EXCEPT ![k] = w]
    BY <2>1
  <2>4. /\ fails' \in 0..MaxFail /\ requests' \subseteq Request
        /\ jobs' \in [JobId -> Job \cup {NoJob}] /\ jobs' = jobs
        /\ UNCHANGED <<kubeVars, queue, note, removal, provVars, update, external,
                       restarts, edits>>
    BY <1>2 DEF LoseCreate, LoseDelete, slurmVars, IInv, TypeOK
  <2> HIDE DEF w
  <2>5. QED BY <1>1, <2>1, <2>2, <2>3, <2>4, SlurmStep
<1>3. CASE Scancel(k)
  <2> DEFINE w == [work[k] EXCEPT !.stage = "answered"]
             j == work[k].pod.id
  <2>1. w \in Work /\ w.op = "delete" /\ w.op = work[k].op /\ w.pod = work[k].pod
    BY <1>1, <1>3 DEF Work, Scancel
  <2>2. work' = [work EXCEPT ![k] = w]
    BY <1>3 DEF Scancel
  <2>3. j # NoId => j \in JobId /\ jobs[j] \in Job
    <3>1. work[k].pod \in Pod /\ OwnsId(k, work[k].pod)
      BY <1>1, ArgumentOK
    <3>2. QED BY <3>1, NoPodAssumption DEF OwnsId, Pod, IInv, TypeOK
  <2>4. jobs' = jobs \/ (j # NoId /\ jobs' = [jobs EXCEPT ![j].phase = "Failed"])
    BY <1>3 DEF Scancel
  <2>5. /\ jobs' \in [JobId -> Job \cup {NoJob}]
        /\ \A i \in JobId : jobs[i] # NoJob =>
             jobs'[i] # NoJob /\ jobs'[i].key = jobs[i].key /\ jobs'[i].uid = jobs[i].uid
    <3>1. j # NoId => [jobs[j] EXCEPT !.phase = "Failed"] \in Job
      BY <2>3 DEF Job, Phase
    <3>2. QED BY <2>3, <2>4, <3>1, NoJobAssumption DEF IInv, TypeOK, Job
  <2>6. /\ fails' \in 0..MaxFail /\ requests' \subseteq Request
        /\ UNCHANGED <<kubeVars, queue, note, removal, provVars, update, external,
                       restarts, edits>>
    BY <1>3 DEF Scancel, bounds, IInv, TypeOK
  <2> HIDE DEF w, j
  <2>7. QED BY <1>1, <2>1, <2>2, <2>5, <2>6, SlurmStep
<1>4. QED BY <1>2, <1>3 DEF Agent

LEMMA JobStep ==
  ASSUME IInv, \/ \E j \in JobId : RunJob(j)
               \/ \E k \in Key : RunExternal(k)
  PROVE  IInv'
<1> USE ProviderAssumption
<1>1. ASSUME NEW j \in JobId, RunJob(j)
      PROVE  IInv'
  <2>1. PICK p \in Phase : jobs' = [jobs EXCEPT ![j].phase = p]
    BY <1>1 DEF RunJob, Moves, Phase
  <2>2. jobs[j] \in Job /\ [jobs[j] EXCEPT !.phase = p] \in Job
    BY <1>1 DEF RunJob, IInv, TypeOK, Job
  <2>3. /\ jobs' \in [JobId -> Job \cup {NoJob}]
        /\ \A i \in JobId : jobs[i] # NoJob =>
             jobs'[i] # NoJob /\ jobs'[i].key = jobs[i].key /\ jobs'[i].uid = jobs[i].uid
    BY <2>1, <2>2, NoJobAssumption DEF IInv, TypeOK, Job
  <2>4. UNCHANGED <<kubeVars, vkVars, provVars, update, requests, external, bounds>>
    BY <1>1 DEF RunJob
  <2>5. TypeOK'
    BY <2>3, <2>4 DEF IInv, TypeOK, kubeVars, vkVars, provVars, bounds
  <2>6. \A m \in Key : CallOK(m)'
    BY <2>3, <2>4 DEF IInv, CallOK, vkVars
  <2>7. IdentifierOwned'
    <3> SUFFICES ASSUME NEW m \in Key
                 PROVE  /\ OwnsId(m, k8s[m])' /\ OwnsId(m, pods[m])'
                        /\ OwnsId(m, note[m])' /\ OwnsId(m, work[m].pod)'
      BY DEF IdentifierOwned
    <3>1. /\ OwnsId(m, k8s[m]) /\ OwnsId(m, pods[m])
          /\ OwnsId(m, note[m]) /\ OwnsId(m, work[m].pod)
      BY DEF IInv, IdentifierOwned
    <3>2. {k8s[m], note[m], pods[m], work[m].pod} \subseteq Pod \cup {NoPod}
      BY DEF IInv, TypeOK, Work
    <3>3. \A q \in Pod : q.id # NoId => q.id \in JobId
      BY DEF Pod
    <3>4. QED BY <2>3, <2>4, <3>1, <3>2, <3>3 DEF OwnsId, kubeVars, vkVars, provVars
  <2>8. QED BY <2>4, <2>5, <2>6, <2>7 DEF IInv, UpdateOK
<1>2. ASSUME NEW k \in Key, RunExternal(k)
      PROVE  IInv'
  BY <1>2 DEF RunExternal, Moves, Phase, IInv, TypeOK, CallOK, UpdateOK, IdentifierOwned,
              OwnsId, kubeVars, vkVars, provVars, bounds
<1>3. QED BY <1>1, <1>2

LEMMA RestartStep ==
  ASSUME IInv, RestartController \/ RestartInstance
  PROVE  IInv'
<1> USE ProviderAssumption
<1>1. FreshInstance
  BY DEF RestartController, RestartInstance
<1>2. tracked' \in [JobId -> Entry \cup {NoEntry}]
  <2>1. \A j \in JobId : tracked[j] # NoEntry => [tracked[j] EXCEPT !.live = FALSE] \in Entry
    BY DEF IInv, TypeOK, Entry
  <2>2. QED BY <2>1 DEF RestartController, RestartInstance, IInv, TypeOK
<1>3. update' \in Update \cup {NoUpdate} /\ UpdateOK'
  BY DEF RestartController, RestartInstance, IInv, TypeOK, Update, UpdateOK
<1>4. Idle \in Work
  BY DEF Idle, Work
<1>5. TypeOK'
  BY <1>1, <1>2, <1>3, <1>4 DEF FreshInstance, IInv, TypeOK, kubeVars, slurmVars
<1>6. QED
  BY <1>1, <1>3, <1>5
  DEF FreshInstance, IInv, CallOK, IdentifierOwned, OwnsId, Idle, kubeVars, slurmVars

-----------------------------------------------------------------------------
LEMMA NextIInv == IInv /\ [Next]_vars => IInv'
<1> SUFFICES ASSUME IInv, [Next]_vars PROVE IInv'
  OBVIOUS
<1>1. CASE UNCHANGED vars
  BY <1>1 DEF vars, kubeVars, vkVars, provVars, slurmVars, bounds, IInv, TypeOK, CallOK,
              UpdateOK, IdentifierOwned, OwnsId
<1>2. CASE \E k \in Key : CreateObject(k) \/ EditObject(k) \/ DeleteObject(k)
  BY <1>2, KubernetesStep
<1>3. CASE \E k \in Key : SyncPod(k) \/ PushStatus(k) \/ RemoveObject(k)
  BY <1>3, SyncStep, PushStep
<1>4. CASE \E k \in Key : Provider(k)
  BY <1>4, CreateStep, EndCreateStep, UpdatePodStep, DeleteStep DEF Provider
<1>5. CASE \E k \in Key : Agent(k)
  BY <1>5, AgentStep
<1>6. CASE \E r \in requests : SbatchFails(r) \/ \E j \in JobId : Sbatch(r, j)
  BY <1>6, RequestStep
<1>7. CASE \/ \E j \in JobId : PollTracked(j)
           \/ \E k \in Key : PollUntracked(k)
           \/ LookupTracked
  BY <1>7, PollStep
<1>8. CASE \/ \E j \in JobId : RunJob(j)
           \/ \E k \in Key : RunExternal(k)
  BY <1>8, JobStep
<1>9. CASE ApplyStatus
  BY <1>9, ApplyStep
<1>10. CASE RestartController \/ RestartInstance
  BY <1>10, RestartStep
<1>11. QED
  BY <1>1, <1>2, <1>3, <1>4, <1>5, <1>6, <1>7, <1>8, <1>9, <1>10 DEF Next

\* The variables of PodProvider keep their types, through every failure and
\* restart that the actions allow.
THEOREM TypeCorrect == Spec => []TypeOK
<1>1. IInv => TypeOK
  BY DEF IInv
<1>2. QED BY <1>1, InitIInv, NextIInv, PTL DEF Spec

\* An identifier label found on any copy of a Pod, in Kubernetes, in the
\* provider, in a queued notification or in a call under way, is that of a
\* job Slurm created for that name and uid.
THEOREM LabelsAreOwned == Spec => []IdentifierOwned
<1>1. IInv => IdentifierOwned
  BY DEF IInv
<1>2. QED BY <1>1, InitIInv, NextIInv, PTL DEF Spec

-----------------------------------------------------------------------------
(* At most one job for each Pod object, as long as nothing restarts.         *)

\* A Create request was sent for the object, and Slurm may have its job.
Dispatched(k, u) ==
  \/ \E r \in requests : r.key = k /\ r.uid = u
  \/ \E j \in JobId : jobs[j] # NoJob /\ jobs[j].key = k /\ jobs[j].uid = u

\* Uids count the objects of a name.
Numbered ==
  /\ \A k \in Key, u \in 1..MaxUid : Dispatched(k, u) => u <= uids[k]
  /\ \A k \in Key : k8s[k] # NoPod => k8s[k].uid = uids[k]
  /\ \A k \in Key : work[k].op = "create" => work[k].pod.uid <= uids[k]

\* An object is dispatched by one request, which Slurm has answered or not.
SentOnce ==
  restarts = 0 => \A r \in requests :
    /\ r.run = 0
    /\ \A j \in JobId : jobs[j] # NoJob => ~(jobs[j].key = r.key /\ jobs[j].uid = r.uid)

\* An object that was dispatched, and is not being deleted, is known to the
\* provider, so that the pod controller does not ask to create it again.
Covered(k) ==
  k8s[k] # NoPod /\ k \notin deleting =>
    \/ ~Dispatched(k, uids[k])
    \/ work[k].op \in {"none", "update"} /\ pods[k] # NoPod
    \/ work[k].op = "create" /\ work[k].stage # "called"

\* A call of CreatePod that will send a request is the first for its object.
Unsent(k) ==
  work[k].op = "create" /\ work[k].stage = "called" /\ NeedsDispatch(k)
    => ~Dispatched(k, work[k].pod.uid)

Guarded(k) == restarts = 0 => Covered(k) /\ Unsent(k)

OInv == /\ Numbered
        /\ AtMostOneJob
        /\ SentOnce
        /\ \A k \in Key : Guarded(k)

LEMMA InitOInv == Init => OInv
  BY DEF Init, OInv, Numbered, AtMostOneJob, SentOnce, Guarded, Covered, Unsent,
         Dispatched, Idle

\* A step that leaves the owners of jobs alone and sends no request.
SameJobs ==
  /\ requests' \subseteq requests
  /\ \A j \in JobId : jobs'[j] # NoJob => /\ jobs[j] # NoJob
                                          /\ jobs'[j].key = jobs[j].key
                                          /\ jobs'[j].uid = jobs[j].uid

LEMMA SameJobsStep ==
  ASSUME OInv, SameJobs, restarts' = restarts
  PROVE  /\ AtMostOneJob' /\ SentOnce'
         /\ \A k, u : Dispatched(k, u)' => Dispatched(k, u)
  BY DEF OInv, SameJobs, AtMostOneJob, SentOnce, Dispatched

\* A name whose worker does nothing, and whose object may go but not come.
Still(k) ==
  /\ work'[k] = work[k]
  /\ pods[k] # NoPod => pods'[k] # NoPod
  /\ k8s'[k] # NoPod => /\ k8s[k] # NoPod /\ k8s'[k].uid = k8s[k].uid
                        /\ k \in deleting => k \in deleting'

LEMMA StillGuarded ==
  ASSUME OInv, NEW k \in Key, Still(k), UNCHANGED <<uids, restarts, Untracked>>,
         \A u : Dispatched(k, u)' => Dispatched(k, u)
  PROVE  Guarded(k)'
  BY DEF OInv, Guarded, Covered, Unsent, Still, NeedsDispatch, IsTracked

\* The frame of a step of the worker of one name.
LEMMA WorkerStep ==
  ASSUME OInv, NEW k \in Key, SameJobs, UNCHANGED <<uids, k8s, restarts, Untracked>>,
         \A m \in Key \ {k} : Still(m),
         work'[k].op = "create" => work'[k].pod.uid <= uids[k],
         Guarded(k)'
  PROVE  OInv'
<1>1. /\ AtMostOneJob' /\ SentOnce'
      /\ \A m, u : Dispatched(m, u)' => Dispatched(m, u)
  BY SameJobsStep
<1>2. \A m \in Key : Guarded(m)'
  BY <1>1, StillGuarded
<1>3. Numbered'
  BY <1>1 DEF OInv, Numbered, Still
<1>4. QED BY <1>1, <1>2, <1>3 DEF OInv

\* Steps that concern no worker: users, pushes, status updates and jobs.
LEMMA StillStep ==
  ASSUME OInv, SameJobs, UNCHANGED <<uids, restarts, Untracked>>,
         \A m \in Key : Still(m)
  PROVE  OInv'
<1>1. /\ AtMostOneJob' /\ SentOnce'
      /\ \A m, u : Dispatched(m, u)' => Dispatched(m, u)
  BY SameJobsStep
<1>2. \A m \in Key : Guarded(m)'
  BY <1>1, StillGuarded
<1>3. Numbered'
  BY <1>1 DEF OInv, Numbered, Still
<1>4. QED BY <1>1, <1>2, <1>3 DEF OInv

LEMMA CreateObjectOnce ==
  ASSUME IInv, OInv, NEW k \in Key, CreateObject(k)
  PROVE  OInv'
<1>1. /\ uids[k] \in 0..MaxUid /\ uids[k] + 1 \in 1..MaxUid
      /\ \A m \in Key : uids'[m] = IF m = k THEN uids[k] + 1 ELSE uids[m]
      /\ \A m \in Key \ {k} : k8s'[m] = k8s[m]
      /\ k8s'[k].uid = uids[k] + 1
      /\ UNCHANGED <<work, pods, deleting, requests, jobs, restarts, Untracked>>
  BY ProviderAssumption DEF IInv, TypeOK, CreateObject, provVars, slurmVars, bounds
<1>2. \A m, u : Dispatched(m, u)' <=> Dispatched(m, u)
  BY <1>1 DEF Dispatched
<1>3. ~Dispatched(k, uids[k] + 1)
  BY <1>1 DEF OInv, Numbered
<1>4. Numbered'
  <2>1. \A m \in Key : uids[m] <= uids'[m] /\ uids[m] \in Nat /\ uids'[m] \in Nat
    BY <1>1, ProviderAssumption DEF IInv, TypeOK
  <2>2. \A m \in Key : work[m].op = "create" => work[m].pod.uid \in 1..MaxUid
    BY ArgumentOK DEF Pod
  <2>3. QED BY <1>1, <1>2, <2>1, <2>2, ProviderAssumption DEF OInv, Numbered
<1>5. \A m \in Key : Guarded(m)'
  BY <1>1, <1>2, <1>3 DEF OInv, Guarded, Covered, Unsent, NeedsDispatch, IsTracked
<1>6. AtMostOneJob' /\ SentOnce'
  BY <1>1 DEF OInv, AtMostOneJob, SentOnce
<1>7. QED BY <1>4, <1>5, <1>6 DEF OInv

LEMMA UsersOnce ==
  ASSUME IInv, OInv, NEW k \in Key,
         EditObject(k) \/ DeleteObject(k) \/ PushStatus(k) \/ RemoveObject(k)
  PROVE  OInv'
<1>1. UNCHANGED <<uids, work, pods, requests, jobs, restarts, Untracked>>
  BY DEF EditObject, DeleteObject, PushStatus, RemoveObject, provVars, slurmVars, bounds
<1>2. ASSUME NEW m \in Key, k8s'[m] # NoPod
      PROVE  /\ k8s[m] # NoPod /\ k8s'[m].uid = k8s[m].uid
             /\ m \in deleting => m \in deleting'
  <2>1. k8s[m] \in Pod \cup {NoPod} /\ k8s[k] \in Pod \cup {NoPod}
    BY DEF IInv, TypeOK
  <2>2. CASE EditObject(k)
    <3>1. k8s'[m] = k8s[m] \/ (m = k /\ k8s'[m] = [k8s[m] EXCEPT !.edit = edits + 1])
      BY <2>2 DEF EditObject, IInv, TypeOK
    <3>2. QED BY <1>2, <2>1, <2>2, <3>1 DEF EditObject, Pod
  <2>3. CASE DeleteObject(k)
    BY <1>2, <2>3 DEF DeleteObject
  <2>4. CASE PushStatus(k)
    BY <1>2, <2>4 DEF PushStatus, IInv, TypeOK
  <2>5. CASE RemoveObject(k)
    BY <1>2, <2>5 DEF RemoveObject, IInv, TypeOK
  <2>6. QED BY <2>2, <2>3, <2>4, <2>5
<1>3. SameJobs /\ \A m \in Key : Still(m)
  BY <1>1, <1>2 DEF SameJobs, Still
<1>4. QED BY <1>1, <1>3, StillStep

LEMMA StatusOnce ==
  ASSUME IInv, OInv,
         \/ \E j \in JobId : PollTracked(j) \/ RunJob(j)
         \/ \E k \in Key : PollUntracked(k) \/ RunExternal(k)
         \/ LookupTracked \/ ApplyStatus
  PROVE  OInv'
<1>1. UNCHANGED <<k8s, deleting, uids, work, requests, restarts, Untracked>>
  BY DEF PollTracked, RunJob, PollUntracked, RunExternal, LookupTracked, ApplyStatus,
         IInv, TypeOK, kubeVars, vkVars, provVars, slurmVars, bounds
<1>2. \A m \in Key : pods[m] # NoPod => pods'[m] # NoPod
  <2>1. CASE ApplyStatus
    <3> DEFINE p == [pods[update.key] EXCEPT !.phase = update.phase, !.message = "status updated"]
    <3>1. pods' = pods \/ (pods[update.key] # NoPod /\ pods' = [pods EXCEPT ![update.key] = p])
      BY <2>1 DEF ApplyStatus, Store
    <3>2. update.key \in Key /\ update.phase \in Phase
      BY <2>1 DEF ApplyStatus, IInv, TypeOK, Update
    <3>3. pods[update.key] # NoPod => p \in Pod
      <4>1. pods[update.key] \in Pod \cup {NoPod}
        BY <3>2 DEF IInv, TypeOK
      <4>2. QED BY <3>2, <4>1 DEF Pod, Message
    <3> HIDE DEF p
    <3>4. QED BY <3>1, <3>2, <3>3, NoPodAssumption DEF IInv, TypeOK
  <2>2. CASE pods' = pods
    BY <2>2
  <2>3. QED
    BY <2>1, <2>2 DEF PollTracked, RunJob, PollUntracked, RunExternal, LookupTracked, provVars
<1>3. SameJobs
  <2>1. ASSUME NEW j \in JobId, RunJob(j)
        PROVE  SameJobs
    <3>1. PICK p \in Phase : jobs' = [jobs EXCEPT ![j].phase = p]
      BY <2>1 DEF RunJob, Moves, Phase
    <3>2. jobs[j] \in Job
      BY <2>1 DEF RunJob, IInv, TypeOK
    <3>3. QED BY <1>1, <2>1, <3>1, <3>2 DEF SameJobs, RunJob, Job, IInv, TypeOK
  <2>2. CASE jobs' = jobs
    BY <1>1, <2>2 DEF SameJobs
  <2>3. QED
    BY <2>1, <2>2 DEF PollTracked, PollUntracked, RunExternal, LookupTracked, ApplyStatus,
                      slurmVars
<1>4. QED BY <1>1, <1>2, <1>3, StillStep DEF Still

\* The pod controller creates a Pod only if its object was not dispatched.
LEMMA SyncOnce ==
  ASSUME IInv, OInv, NEW k \in Key, SyncPod(k)
  PROVE  OInv'
<1>1. /\ UNCHANGED <<k8s, deleting, uids, pods, requests, jobs, restarts, Untracked>>
      /\ work[k].op = "none"
      /\ \A m \in Key \ {k} : work'[m] = work[m]
      /\ \/ work'[k] = work[k]
         \/ \E p \in {k8s[k], pods[k]} : work'[k] = Call("delete", p) /\ (k8s[k] = NoPod \/ k \in deleting)
         \/ /\ work'[k] = Call("create", k8s[k])
            /\ k8s[k] # NoPod /\ k \notin deleting /\ pods[k] = NoPod
         \/ work'[k] = Call("update", k8s[k]) /\ pods[k] # NoPod
  BY DEF SyncPod, IInv, TypeOK, Idle, kubeVars, provVars, slurmVars, bounds
<1>2. SameJobs /\ (\A m \in Key \ {k} : Still(m))
  BY <1>1 DEF SameJobs, Still
<1>3. \A m, u : Dispatched(m, u)' <=> Dispatched(m, u)
  BY <1>1 DEF Dispatched
<1>4. work'[k].op = "create" => work'[k].pod = k8s[k] /\ k8s[k].uid = uids[k]
  BY <1>1 DEF OInv, Numbered, Call
<1>5. uids[k] <= uids[k]
  BY ProviderAssumption DEF IInv, TypeOK
<1>6. Guarded(k)'
  <2> SUFFICES ASSUME restarts = 0 PROVE Covered(k)' /\ Unsent(k)'
    BY <1>1 DEF Guarded
  <2>1. Covered(k) /\ Unsent(k)
    BY DEF OInv, Guarded
  <2>2. CASE work'[k] = work[k]
    BY <1>1, <1>3, <2>1, <2>2 DEF Covered, Unsent
  <2>3. CASE work'[k].op = "delete" /\ (k8s[k] = NoPod \/ k \in deleting)
    BY <1>1, <2>3 DEF Covered, Unsent
  <2>4. CASE /\ work'[k] = Call("create", k8s[k])
             /\ k8s[k] # NoPod /\ k \notin deleting /\ pods[k] = NoPod
    <3>1. ~Dispatched(k, uids[k])
      BY <1>1, <2>1, <2>4 DEF Covered
    <3>2. work'[k].pod.uid = uids[k]
      BY <1>4, <2>4 DEF Call
    <3>3. QED BY <1>1, <1>3, <3>1, <3>2 DEF Covered, Unsent
  <2>5. CASE work'[k].op = "update" /\ pods[k] # NoPod
    BY <1>1, <2>5 DEF Covered, Unsent
  <2>6. QED BY <1>1, <2>2, <2>3, <2>4, <2>5 DEF Call
<1>7. QED BY <1>1, <1>2, <1>4, <1>5, <1>6, WorkerStep

\* CreatePod sends a request, the first for its object.
LEMMA SendOnce ==
  ASSUME IInv, OInv, NEW k \in Key, CreatePod(k), NeedsDispatch(k)
  PROVE  OInv'
<1> DEFINE r == [key |-> k, uid |-> work[k].pod.uid, run |-> restarts]
<1>1. work[k].op = "create" /\ work[k].stage = "called" /\ work[k].pod \in Pod
      /\ work[k].pod.uid \in 1..MaxUid /\ work[k].pod.uid <= uids[k]
  BY ArgumentOK DEF CreatePod, OInv, Numbered, Pod
<1>2. Loaded(k).uid = work[k].pod.uid
  BY <1>1 DEF Loaded, Pod
<1>3. /\ UNCHANGED <<k8s, deleting, uids, pods, jobs, restarts, Untracked>>
      /\ requests' = requests \cup {r}
      /\ \A m \in Key \ {k} : work'[m] = work[m]
      /\ work'[k].op = "create" /\ work'[k].stage = "rpc" /\ work'[k].pod = Loaded(k)
  BY <1>1 DEF CreatePod, IInv, TypeOK, Work, kubeVars, bounds
<1>r. r.key = k /\ r.uid = work[k].pod.uid /\ r.run = restarts
  OBVIOUS
<1> HIDE DEF r
<1>4. \A m, u : Dispatched(m, u)' <=> Dispatched(m, u) \/ (m = k /\ u = r.uid)
  BY <1>3, <1>r DEF Dispatched
<1>5. Numbered'
  BY <1>1, <1>2, <1>3, <1>4, <1>r DEF OInv, Numbered
<1>6. AtMostOneJob'
  BY <1>3 DEF OInv, AtMostOneJob
<1>7. SentOnce'
  BY <1>1, <1>3, <1>r DEF OInv, SentOnce, Guarded, Unsent, Dispatched
<1>8. \A m \in Key : Guarded(m)'
  BY <1>3, <1>4 DEF OInv, Guarded, Covered, Unsent, NeedsDispatch, IsTracked
<1>9. QED BY <1>5, <1>6, <1>7, <1>8 DEF OInv

LEMMA ProviderOnce ==
  ASSUME IInv, OInv, NEW k \in Key, Provider(k), ~(CreatePod(k) /\ NeedsDispatch(k))
  PROVE  OInv'
<1>1. /\ UNCHANGED <<k8s, deleting, uids, requests, jobs, restarts, Untracked>>
      /\ work[k].op # "none"
      /\ \A m \in Key \ {k} : work'[m] = work[m] /\ pods'[m] = pods[m]
      /\ work'[k] = Idle \/ (work'[k].op = "delete" /\ work[k].op = "delete")
  BY DEF Provider, CreatePod, EndCreate, UpdatePod, DeletePod, EndDelete, FinishCreate,
         FinishDelete, Store, IInv, TypeOK, Work, kubeVars, slurmVars, bounds
<1>2. SameJobs /\ \A m \in Key \ {k} : Still(m)
  BY <1>1 DEF SameJobs, Still
<1>3. \A m, u : Dispatched(m, u)' <=> Dispatched(m, u)
  BY <1>1 DEF Dispatched
<1>4. work'[k].op # "create"
  BY <1>1 DEF Idle
<1>5. work[k].op # "delete" => pods'[k] # NoPod /\ work'[k] = Idle
  <2>1. work[k].pod \in Pod
    BY <1>1, ArgumentOK
  <2>2. ASSUME NEW p \in Pod, FinishCreate(k, p)
        PROVE  pods'[k] # NoPod /\ work'[k] = Idle
    <3>1. [p EXCEPT !.message = "created"] \in Pod
      BY <2>2 DEF Pod, Message
    <3>2. QED BY <2>2, <3>1, NoPodAssumption DEF FinishCreate, Store, IInv, TypeOK
  <2>3. CASE CreatePod(k)
    <3>1. pendingStatus[k] # NoPod => pendingStatus[k] \in Phase
      BY DEF IInv, TypeOK
    <3>2. Loaded(k) \in Pod
      BY <2>1, <3>1 DEF Loaded, Pod, Message
    <3>3. FinishCreate(k, Loaded(k))
      BY <2>3 DEF CreatePod
    <3>4. QED BY <2>2, <3>2, <3>3
  <2>4. CASE EndCreate(k) /\ work[k].stage = "answered"
    <3> DEFINE p == [work[k].pod EXCEPT !.id = work[k].answer]
    <3>1. work[k].answer \in JobId
      BY <2>4 DEF EndCreate, IInv, CallOK, Idle
    <3>2. p \in Pod
      BY <2>1, <3>1 DEF Pod, Message
    <3>3. FinishCreate(k, p)
      BY <2>4 DEF EndCreate
    <3> HIDE DEF p
    <3>4. QED BY <2>2, <3>2, <3>3
  <2>5. CASE EndCreate(k) /\ work[k].stage = "failed"
    <3> DEFINE p == [work[k].pod EXCEPT !.phase = "Failed"]
    <3>2. p \in Pod
      BY <2>1 DEF Pod, Message, Phase
    <3>3. FinishCreate(k, p)
      BY <2>5 DEF EndCreate
    <3> HIDE DEF p
    <3>4. QED BY <2>2, <3>2, <3>3
  <2>6. CASE UpdatePod(k)
    <3> DEFINE p == [work[k].pod EXCEPT !.message = "updated"]
    <3>1. p \in Pod
      BY <2>1 DEF Pod, Message
    <3>2. pods' = [pods EXCEPT ![k] = p] /\ work' = [work EXCEPT ![k] = Idle]
      BY <2>6 DEF UpdatePod, Store
    <3> HIDE DEF p
    <3>3. QED BY <3>1, <3>2, NoPodAssumption DEF IInv, TypeOK
  <2>7. CASE work[k].op = "delete"
    BY <2>7
  <2>8. QED BY <2>3, <2>4, <2>5, <2>6, <2>7 DEF Provider, EndCreate, DeletePod, EndDelete
<1>6. Guarded(k)'
  <2> SUFFICES ASSUME restarts = 0 PROVE Covered(k)' /\ Unsent(k)'
    BY <1>1 DEF Guarded
  <2>1. Covered(k)
    BY DEF OInv, Guarded
  <2>2. Unsent(k)'
    BY <1>4 DEF Unsent
  <2>3. CASE work[k].op = "delete"
    BY <1>1, <1>3, <2>1, <2>2, <2>3 DEF Covered
  <2>4. CASE work[k].op # "delete"
    BY <1>1, <1>5, <2>2, <2>4 DEF Covered, Idle
  <2>5. QED BY <2>2, <2>3, <2>4
<1>7. QED BY <1>1, <1>2, <1>4, <1>6, WorkerStep

\* Answers and errors of calls under way.
LEMMA AgentOnce ==
  ASSUME IInv, OInv, NEW k \in Key,
         \/ Agent(k)
         \/ \E r \in requests : r.key = k /\ SbatchFails(r)
  PROVE  OInv'
<1> DEFINE Frame ==
      /\ UNCHANGED <<k8s, deleting, uids, pods, restarts, Untracked>>
      /\ \A m \in Key \ {k} : work'[m] = work[m]
      /\ requests' \subseteq requests
      /\ \/ work'[k] = work[k]
         \/ /\ work[k].op # "none" /\ work'[k].op = work[k].op
            /\ work'[k].pod = work[k].pod
            /\ work'[k].stage \in {"failed", "answered"}
<1>1. Frame
  <2>1. work[k] \in Work
    BY DEF IInv, TypeOK
  <2>2. CASE LoseCreate(k)
    BY <2>1, <2>2 DEF LoseCreate, IInv, TypeOK, Work, kubeVars, provVars, slurmVars
  <2>3. CASE Scancel(k)
    BY <2>1, <2>3 DEF Scancel, IInv, TypeOK, Work, kubeVars, provVars, bounds
  <2>4. CASE LoseDelete(k)
    BY <2>1, <2>4 DEF LoseDelete, IInv, TypeOK, Work, kubeVars, provVars, slurmVars
  <2>5. ASSUME NEW r \in requests, r.key = k, SbatchFails(r)
        PROVE  Frame
    BY <2>1, <2>5 DEF SbatchFails, Awaits, IInv, TypeOK, Work, kubeVars, provVars
  <2>6. QED BY <2>2, <2>3, <2>4, <2>5 DEF Agent
<1>2. SameJobs
  <2>1. CASE Scancel(k)
    <3> DEFINE j == work[k].pod.id
    <3>1. j # NoId => j \in JobId /\ jobs[j] \in Job
      <4>1. work[k].pod \in Pod /\ OwnsId(k, work[k].pod)
        BY <2>1, ArgumentOK DEF Scancel
      <4>2. QED BY <4>1, NoPodAssumption DEF OwnsId, Pod, IInv, TypeOK
    <3>2. jobs' = jobs \/ (j # NoId /\ jobs' = [jobs EXCEPT ![j].phase = "Failed"])
      BY <2>1 DEF Scancel
    <3> HIDE DEF j
    <3>3. QED BY <1>1, <3>1, <3>2, NoJobAssumption DEF SameJobs, Job, IInv, TypeOK
  <2>2. CASE jobs' = jobs
    BY <1>1, <2>2 DEF SameJobs
  <2>3. QED BY <2>1, <2>2 DEF Agent, LoseCreate, LoseDelete, SbatchFails, slurmVars
<1>3. \A m \in Key \ {k} : Still(m)
  BY <1>1 DEF Still
<1>4. \A m, u : Dispatched(m, u)' => Dispatched(m, u)
  BY <1>1, <1>2, SameJobsStep
<1>5. work'[k].op = "create" => work'[k].pod.uid <= uids[k]
  BY <1>1 DEF OInv, Numbered
<1>6. Guarded(k)'
  BY <1>1, <1>4 DEF OInv, Guarded, Covered, Unsent, NeedsDispatch, IsTracked
<1>7. QED BY <1>1, <1>2, <1>3, <1>5, <1>6, WorkerStep

\* A request turns into a job, and nothing else was dispatched for its object.
LEMMA SbatchOnce ==
  ASSUME IInv, OInv, NEW r \in requests, NEW j \in JobId, Sbatch(r, j)
  PROVE  OInv'
<1> DEFINE new == [key |-> r.key, uid |-> r.uid, phase |-> "Pending"]
<1>1. r \in Request /\ r.key \in Key /\ new \in Job
  BY DEF IInv, TypeOK, Request, Job, Phase
<1>2. /\ UNCHANGED <<k8s, deleting, uids, pods, restarts, Untracked>>
      /\ jobs[j] = NoJob /\ jobs'[j] = new /\ new # NoJob
      /\ \A i \in JobId \ {j} : jobs'[i] = jobs[i]
      /\ requests' = requests \ {r}
      /\ \A m \in Key : \/ work'[m] = work[m]
                        \/ /\ work[m].op = "create" /\ work'[m].op = "create"
                           /\ work'[m].pod = work[m].pod /\ work'[m].stage = "answered"
  BY <1>1, NoJobAssumption DEF Sbatch, Awaits, IInv, TypeOK, Work, kubeVars, provVars, bounds
<1> HIDE DEF new
<1>3. \A m, u : Dispatched(m, u)' => Dispatched(m, u)
  BY <1>2 DEF Dispatched, new
<1>4. Numbered'
  BY <1>2, <1>3 DEF OInv, Numbered
<1>5. AtMostOneJob'
  <2> SUFFICES ASSUME restarts = 0, NEW a \in JobId, NEW b \in JobId,
                      jobs'[a] # NoJob, jobs'[b] # NoJob,
                      jobs'[a].key = jobs'[b].key, jobs'[a].uid = jobs'[b].uid
               PROVE  a = b
    BY <1>2 DEF AtMostOneJob
  <2>1. \A i \in JobId : jobs[i] # NoJob => ~(jobs[i].key = r.key /\ jobs[i].uid = r.uid)
    BY DEF OInv, SentOnce
  <2>2. QED BY <1>2, <2>1 DEF OInv, AtMostOneJob, new
<1>6. SentOnce'
  <2> SUFFICES ASSUME restarts = 0, NEW q \in requests \ {r}
               PROVE  /\ q.run = 0
                      /\ \A i \in JobId : jobs'[i] # NoJob =>
                           ~(jobs'[i].key = q.key /\ jobs'[i].uid = q.uid)
    BY <1>2 DEF SentOnce
  <2>1. q.run = 0 /\ r.run = 0
        /\ \A i \in JobId : jobs[i] # NoJob => ~(jobs[i].key = q.key /\ jobs[i].uid = q.uid)
    BY DEF OInv, SentOnce
  <2>2. ~(q.key = r.key /\ q.uid = r.uid)
    BY <1>1, <2>1 DEF IInv, TypeOK, Request
  <2>3. QED BY <1>2, <2>1, <2>2 DEF new
<1>7. \A m \in Key : Guarded(m)'
  BY <1>2, <1>3 DEF OInv, Guarded, Covered, Unsent, NeedsDispatch, IsTracked
<1>8. QED BY <1>4, <1>5, <1>6, <1>7 DEF OInv

LEMMA RestartOnce ==
  ASSUME IInv, OInv, RestartController \/ RestartInstance
  PROVE  OInv'
<1>1. FreshInstance
  BY DEF RestartController, RestartInstance
<1>2. restarts' # 0
  BY <1>1, ProviderAssumption DEF FreshInstance, IInv, TypeOK
<1>3. /\ UNCHANGED <<k8s, uids, requests, jobs>>
      /\ \A m \in Key : work'[m].op = "none"
  BY <1>1 DEF FreshInstance, kubeVars, slurmVars, Idle
<1>4. Numbered'
  BY <1>3 DEF OInv, Numbered, Dispatched
<1>5. QED BY <1>2, <1>4 DEF OInv, AtMostOneJob, SentOnce, Guarded

LEMMA NextOInv == IInv /\ OInv /\ [Next]_vars => OInv'
<1> SUFFICES ASSUME IInv, OInv, [Next]_vars PROVE OInv'
  OBVIOUS
<1>1. CASE UNCHANGED vars
  <2>1. SameJobs /\ \A m \in Key : Still(m)
    BY <1>1 DEF SameJobs, Still, vars, kubeVars, vkVars, provVars, slurmVars
  <2>2. QED BY <1>1, <2>1, StillStep DEF vars, kubeVars, slurmVars, bounds
<1>2. CASE \E k \in Key : CreateObject(k)
  BY <1>2, CreateObjectOnce
<1>3. CASE \E k \in Key : EditObject(k) \/ DeleteObject(k) \/ PushStatus(k) \/ RemoveObject(k)
  BY <1>3, UsersOnce
<1>4. CASE \E k \in Key : SyncPod(k)
  BY <1>4, SyncOnce
<1>5. CASE \E k \in Key : Provider(k)
  BY <1>5, SendOnce, ProviderOnce
<1>6. CASE \/ \E k \in Key : Agent(k)
           \/ \E r \in requests : SbatchFails(r)
  <2>1. \A r \in requests : r.key \in Key
    BY DEF IInv, TypeOK, Request
  <2>2. QED BY <1>6, <2>1, AgentOnce
<1>7. CASE \E r \in requests, j \in JobId : Sbatch(r, j)
  BY <1>7, SbatchOnce
<1>8. CASE \/ \E j \in JobId : PollTracked(j) \/ RunJob(j)
           \/ \E k \in Key : PollUntracked(k) \/ RunExternal(k)
           \/ LookupTracked \/ ApplyStatus
  BY <1>8, StatusOnce
<1>9. CASE RestartController \/ RestartInstance
  BY <1>9, RestartOnce
<1>10. QED
  BY <1>1, <1>2, <1>3, <1>4, <1>5, <1>6, <1>7, <1>8, <1>9 DEF Next

\* A Pod object has at most one job as long as nothing restarts, however its
\* name is used again and whichever answers and submissions are lost: the
\* provider keeps an object that it has dispatched until it is being deleted.
THEOREM DispatchesOnce == Spec => []AtMostOneJob
<1>1. OInv => AtMostOneJob
  BY DEF OInv
<1>2. QED BY <1>1, InitIInv, NextIInv, InitOInv, NextOInv, PTL DEF Spec

-----------------------------------------------------------------------------
(* A Pod is shown as Succeeded only if its job did succeed.                  *)

Success(k) == \E j \in JobId : /\ jobs[j] # NoJob /\ jobs[j].key = k
                               /\ jobs[j].phase = "Succeeded"

\* The tracker's entry for a job leads to the name the job was dispatched for.
TrackedOwned ==
  \A j \in JobId : tracked[j] # NoEntry => jobs[j] # NoJob /\ jobs[j].key = tracked[j].key

\* A status on its way says Succeeded only of a job that did.
ToldTruthfully ==
  /\ update # NoUpdate /\ update.stage = "listed" =>
       /\ jobs[update.job] # NoJob
       /\ update.phase = "Succeeded" => jobs[update.job].phase = "Succeeded"
  /\ update # NoUpdate /\ update.stage = "found" /\ update.key \notin Untracked =>
       (update.phase = "Succeeded" => Success(update.key))

\* Every copy of the first object of a tracked name tells the truth, except
\* for the phase that DeletePod makes up, which only a deleted object shows.
Truthful(k) ==
  k \notin Untracked =>
    /\ pendingStatus[k] = NoPod
    /\ uids[k] = 0 => pods[k] = NoPod /\ work[k] = Idle
    /\ uids[k] <= 1 =>
         /\ pods[k] # NoPod /\ pods[k].phase = "Succeeded" => Success(k)
         /\ work[k].op \in {"create", "update"} /\ work[k].pod.phase = "Succeeded" => Success(k)
         /\ work[k].op = "delete" => k8s[k] = NoPod \/ k \in deleting
         /\ k8s[k] = NoPod => note[k] = NoPod
         /\ k8s[k] # NoPod /\ k \notin deleting =>
              /\ k8s[k].phase = "Succeeded" => Success(k)
              /\ note[k] # NoPod /\ note[k].phase = "Succeeded" => Success(k)

TInv == TrackedOwned /\ ToldTruthfully /\ \A k \in Key : Truthful(k)

LEMMA InitTInv == Init => TInv
  BY DEF Init, TInv, TrackedOwned, ToldTruthfully, Truthful, Idle

\* A job stays, with its owner, and a success is final.
JobsLast ==
  \A j \in JobId : jobs[j] # NoJob =>
    /\ jobs'[j] # NoJob /\ jobs'[j].key = jobs[j].key
    /\ jobs[j].phase = "Succeeded" => jobs'[j].phase = "Succeeded"

LEMMA JobsLastStep ==
  ASSUME IInv, [Next]_vars
  PROVE  JobsLast /\ Untracked' = Untracked
<1>1. CASE \E j \in JobId : RunJob(j)
  <2>1. PICK j \in JobId, p \in Phase :
          /\ jobs[j] # NoJob /\ jobs[j].phase # "Succeeded"
          /\ jobs' = [jobs EXCEPT ![j].phase = p] /\ external' = external
    BY <1>1 DEF RunJob, Moves, Phase
  <2>2. jobs[j] \in Job /\ [jobs[j] EXCEPT !.phase = p] \in Job
    BY <2>1 DEF IInv, TypeOK, Job
  <2>3. QED BY <2>1, <2>2, NoJobAssumption DEF JobsLast, IInv, TypeOK, Job
<1>2. CASE \E k \in Key : Scancel(k)
  <2>1. PICK k \in Key : Scancel(k)
    BY <1>2
  <2> DEFINE j == work[k].pod.id
  <2>2. j # NoId => j \in JobId /\ jobs[j] \in Job
    <3>1. work[k].pod \in Pod /\ OwnsId(k, work[k].pod)
      BY <2>1, ArgumentOK DEF Scancel
    <3>2. QED BY <3>1, NoPodAssumption DEF OwnsId, Pod, IInv, TypeOK
  <2>3. /\ \/ jobs' = jobs
           \/ /\ j # NoId /\ jobs[j].phase # "Succeeded"
              /\ jobs' = [jobs EXCEPT ![j].phase = "Failed"]
        /\ external' = external
    BY <2>1 DEF Scancel, Terminal
  <2> HIDE DEF j
  <2>4. j # NoId => [jobs[j] EXCEPT !.phase = "Failed"] \in Job
    BY <2>2 DEF Job, Phase
  <2>5. QED BY <2>2, <2>3, <2>4, NoJobAssumption DEF JobsLast, IInv, TypeOK, Job
<1>3. CASE \E r \in requests, j \in JobId : Sbatch(r, j)
  <2>1. PICK r \in requests, j \in JobId : Sbatch(r, j)
    BY <1>3
  <2>2. QED BY <2>1 DEF Sbatch, JobsLast, IInv, TypeOK
<1>4. CASE jobs' = jobs /\ Untracked' = Untracked
  BY <1>4 DEF JobsLast
<1>5. CASE \E k \in Key : CreateObject(k) \/ EditObject(k) \/ DeleteObject(k)
                          \/ SyncPod(k) \/ PushStatus(k) \/ RemoveObject(k)
  BY <1>4, <1>5 DEF CreateObject, EditObject, DeleteObject, SyncPod, PushStatus,
                    RemoveObject, slurmVars
<1>6. CASE \E k \in Key : Provider(k)
  BY <1>4, <1>6 DEF Provider, CreatePod, EndCreate, UpdatePod, DeletePod, EndDelete, slurmVars
<1>7. CASE \/ \E k \in Key : LoseCreate(k) \/ LoseDelete(k)
           \/ \E r \in requests : SbatchFails(r)
  BY <1>4, <1>7 DEF LoseCreate, LoseDelete, SbatchFails, slurmVars
<1>8. CASE \/ \E j \in JobId : PollTracked(j)
           \/ \E k \in Key : PollUntracked(k) \/ RunExternal(k)
           \/ LookupTracked \/ ApplyStatus
  BY <1>4, <1>8 DEF PollTracked, PollUntracked, RunExternal, LookupTracked, ApplyStatus,
                    slurmVars, IInv, TypeOK
<1>9. CASE RestartController \/ RestartInstance
  BY <1>4, <1>9 DEF RestartController, RestartInstance, FreshInstance, slurmVars
<1>10. CASE UNCHANGED vars
  BY <1>4, <1>10 DEF vars, slurmVars
<1>11. QED
  BY <1>1, <1>2, <1>3, <1>5, <1>6, <1>7, <1>8, <1>9, <1>10 DEF Next, Agent

LEMMA SuccessLasts ==
  ASSUME JobsLast, NEW k, Success(k)
  PROVE  Success(k)'
  BY DEF JobsLast, Success

\* A Pod registered with the tracker owns its identifier.
LEMMA TrackedStep ==
  ASSUME IInv, TInv, JobsLast, [Next]_vars
  PROVE  TrackedOwned'
<1> DEFINE Goal ==
      \A j \in JobId : tracked'[j] # NoEntry /\ tracked'[j] # tracked[j] =>
        \/ tracked[j] # NoEntry /\ tracked'[j].key = tracked[j].key
        \/ jobs[j] # NoJob /\ jobs[j].key = tracked'[j].key
<1>1. Goal
  <2>1. CASE tracked' = tracked
    BY <2>1
  <2>2. ASSUME NEW k \in Key, NEW p \in Pod, OwnsId(k, p), FinishCreate(k, p)
        PROVE  Goal
    <3>1. p.id # NoId => jobs[p.id] # NoJob /\ jobs[p.id].key = k
      BY <2>2, NoPodAssumption DEF OwnsId
    <3>2. QED BY <2>2, <3>1 DEF FinishCreate, Track, IInv, TypeOK
  <2>3. CASE \E k \in Key : CreatePod(k)
    <3>1. PICK k \in Key : CreatePod(k)
      BY <2>3
    <3>2. work[k].pod \in Pod /\ OwnsId(k, work[k].pod)
      BY <3>1, ArgumentOK DEF CreatePod
    <3>3. pendingStatus[k] # NoPod => pendingStatus[k] \in Phase
      BY DEF IInv, TypeOK
    <3>4. Loaded(k) \in Pod /\ Loaded(k).id = work[k].pod.id /\ Loaded(k).uid = work[k].pod.uid
      BY <3>2, <3>3 DEF Loaded, Pod
    <3>5. OwnsId(k, Loaded(k))
      BY <3>2, <3>4, NoPodAssumption DEF OwnsId
    <3>6. QED BY <2>1, <2>2, <3>1, <3>4, <3>5 DEF CreatePod
  <2>4. CASE \E k \in Key : EndCreate(k)
    <3>1. PICK k \in Key : EndCreate(k)
      BY <2>4
    <3>2. work[k].pod \in Pod /\ OwnsId(k, work[k].pod)
      BY <3>1, ArgumentOK DEF EndCreate
    <3>3. CASE work[k].stage = "answered"
      <4> DEFINE p == [work[k].pod EXCEPT !.id = work[k].answer]
      <4>1. /\ work[k].answer \in JobId /\ jobs[work[k].answer] # NoJob
            /\ jobs[work[k].answer].key = k
            /\ jobs[work[k].answer].uid = work[k].pod.uid
        BY <3>1, <3>3 DEF EndCreate, IInv, CallOK, Idle
      <4>2. p \in Pod /\ p.id = work[k].answer /\ p.uid = work[k].pod.uid
        BY <3>2, <4>1 DEF Pod
      <4>3. FinishCreate(k, p)
        BY <3>1, <3>3 DEF EndCreate
      <4> HIDE DEF p
      <4>4. OwnsId(k, p)
        BY <4>1, <4>2, NoPodAssumption DEF OwnsId
      <4>5. QED BY <2>2, <4>2, <4>3, <4>4
    <3>4. CASE work[k].stage = "failed"
      <4> DEFINE p == [work[k].pod EXCEPT !.phase = "Failed"]
      <4>1. p \in Pod /\ p.id = work[k].pod.id /\ p.uid = work[k].pod.uid
        BY <3>2 DEF Pod, Phase
      <4>2. FinishCreate(k, p)
        BY <3>1, <3>4 DEF EndCreate
      <4> HIDE DEF p
      <4>3. OwnsId(k, p)
        BY <3>2, <4>1, NoPodAssumption DEF OwnsId
      <4>4. QED BY <2>2, <4>1, <4>2, <4>3
    <3>5. QED BY <3>1, <3>3, <3>4 DEF EndCreate
  <2>5. CASE \E k \in Key : EndDelete(k)
    BY <2>5 DEF EndDelete, Untrack, IInv, TypeOK
  <2>6. CASE RestartController \/ RestartInstance
    <3>1. \A j \in JobId : tracked[j] # NoEntry => [tracked[j] EXCEPT !.live = FALSE].key = tracked[j].key
      BY DEF IInv, TypeOK, Entry
    <3>2. QED BY <2>6, <3>1 DEF RestartController, RestartInstance
  <2>7. QED
    BY <2>1, <2>3, <2>4, <2>5, <2>6
    DEF Next, Provider, Agent, vars, provVars, CreateObject, EditObject, DeleteObject,
        SyncPod, PushStatus, RemoveObject, UpdatePod, DeletePod, LoseCreate, Scancel,
        LoseDelete, Sbatch, SbatchFails, PollTracked, RunJob, PollUntracked, RunExternal,
        LookupTracked, ApplyStatus
<1>2. QED BY <1>1 DEF TInv, TrackedOwned, JobsLast

LEMMA ToldStep ==
  ASSUME IInv, TInv, JobsLast, Untracked' = Untracked, [Next]_vars
  PROVE  ToldTruthfully'
<1>1. CASE update' = update \/ update' = NoUpdate
  <2>1. update # NoUpdate /\ update.stage = "listed" => update.job \in JobId
    BY DEF IInv, UpdateOK
  <2>3. CASE update' = update
    <3>2. Success(update.key) => Success(update.key)'
      BY <2>3 DEF Success, JobsLast
    <3>4. QED BY <2>1, <2>3, <3>2 DEF TInv, ToldTruthfully, JobsLast
  <2>4. CASE update' = NoUpdate
    BY <2>4 DEF ToldTruthfully
  <2>5. QED BY <1>1, <2>3, <2>4
<1>2. CASE \E j \in JobId : PollTracked(j)
  BY <1>2 DEF PollTracked, ToldTruthfully, slurmVars
<1>3. CASE \E k \in Key : PollUntracked(k)
  BY <1>3 DEF PollUntracked, ToldTruthfully, slurmVars
<1>4. CASE LookupTracked
  <2>1. update \in Update /\ update # NoUpdate /\ update.stage = "listed" /\ update.job \in JobId
    BY <1>4 DEF LookupTracked, IInv, TypeOK, UpdateOK
  <2>2. CASE tracked[update.job] = NoEntry
    BY <1>4, <2>2 DEF LookupTracked, ToldTruthfully
  <2>3. CASE tracked[update.job] # NoEntry
    <3>1. /\ update'.stage = "found" /\ update'.phase = update.phase
          /\ update'.key = tracked[update.job].key /\ jobs' = jobs
      BY <1>4, <2>1, <2>3 DEF LookupTracked, Update, slurmVars
    <3>2. /\ jobs[update.job] # NoJob /\ jobs[update.job].key = update'.key
          /\ update.phase = "Succeeded" => jobs[update.job].phase = "Succeeded"
      BY <2>1, <2>3, <3>1 DEF TInv, TrackedOwned, ToldTruthfully
    <3>3. QED BY <2>1, <3>1, <3>2 DEF ToldTruthfully, Success
  <2>4. QED BY <2>2, <2>3
<1>5. CASE RestartInstance /\ update' # update
  <2>1. /\ update # NoUpdate /\ update.stage = "found"
        /\ update' = [update EXCEPT !.live = FALSE] /\ update \in Update
    BY <1>5 DEF RestartInstance, IInv, TypeOK
  <2>2. update'.stage = "found" /\ update'.key = update.key /\ update'.phase = update.phase
    BY <2>1 DEF Update
  <2>3. jobs' = jobs
    BY <1>5 DEF RestartInstance, FreshInstance, slurmVars
  <2>4. QED BY <2>1, <2>2, <2>3 DEF TInv, ToldTruthfully, Success
<1>6. QED
  BY <1>1, <1>2, <1>3, <1>4, <1>5
  DEF Next, Provider, Agent, vars, CreateObject, EditObject, DeleteObject, SyncPod,
      PushStatus, RemoveObject, CreatePod, EndCreate, UpdatePod, DeletePod, EndDelete,
      LoseCreate, Scancel, LoseDelete, Sbatch, SbatchFails, RunJob, RunExternal,
      ApplyStatus, RestartController

\* A step that makes no copy of the Pods of a name and changes no phase on one.
Unmoved(k) ==
  /\ uids'[k] = uids[k] /\ pods'[k] = pods[k] /\ note'[k] = note[k]
  /\ pendingStatus'[k] = pendingStatus[k]
  /\ \/ k8s'[k] = k8s[k]
     \/ k8s[k] # NoPod /\ k8s'[k] # NoPod /\ k8s'[k].phase = k8s[k].phase
  /\ k \in deleting => k \in deleting'
  /\ \/ work'[k] = work[k]
     \/ work[k] # Idle /\ work'[k].op = work[k].op /\ work'[k].pod = work[k].pod

LEMMA UnmovedTruthful ==
  ASSUME TInv, JobsLast, Untracked' = Untracked, NEW k \in Key, Unmoved(k)
  PROVE  Truthful(k)'
<1>1. Success(k) => Success(k)'
  BY SuccessLasts
<1>2. QED BY <1>1 DEF TInv, Truthful, Unmoved

LEMMA UsersTruthful ==
  ASSUME IInv, OInv, TInv, JobsLast, Untracked' = Untracked,
         NEW k \in Key, NEW m \in Key,
         CreateObject(m) \/ EditObject(m) \/ DeleteObject(m) \/ PushStatus(m) \/ RemoveObject(m)
  PROVE  Truthful(k)'
<1>1. CASE m # k
  BY <1>1, UnmovedTruthful DEF CreateObject, EditObject, DeleteObject, PushStatus,
     RemoveObject, Unmoved, IInv, TypeOK, provVars
<1>2. CASE m = k /\ CreateObject(k)
  <2>1. /\ uids[k] \in Nat /\ uids'[k] = uids[k] + 1
        /\ k8s[k] = NoPod /\ k8s'[k].phase = "Pending"
        /\ UNCHANGED <<pods, note, pendingStatus, work, jobs, deleting>>
    BY <1>2, ProviderAssumption DEF CreateObject, IInv, TypeOK, provVars, slurmVars
  <2>2. Truthful(k)
    BY DEF TInv
  <2>3. QED BY <2>1, <2>2 DEF Truthful, Success, Idle
<1>3. CASE m = k /\ EditObject(k)
  <2>1. k8s[k] \in Pod /\ k8s'[k] = [k8s[k] EXCEPT !.edit = edits + 1] /\ edits + 1 \in 0..MaxEdit
    BY <1>3, ProviderAssumption DEF EditObject, IInv, TypeOK
  <2>2. k8s'[k] \in Pod /\ k8s'[k].phase = k8s[k].phase
    BY <2>1 DEF Pod
  <2>3. QED
    BY <1>3, <2>1, <2>2, UnmovedTruthful, NoPodAssumption DEF EditObject, Unmoved, provVars
<1>4. CASE m = k /\ DeleteObject(k)
  BY <1>4, UnmovedTruthful DEF DeleteObject, Unmoved, provVars
<1>5. CASE m = k /\ PushStatus(k)
  <2>1. /\ UNCHANGED <<uids, pods, pendingStatus, work, jobs, deleting>>
        /\ note'[k] = NoPod
        /\ k8s'[k] = k8s[k] \/ (k8s[k] # NoPod /\ note[k] # NoPod /\ k8s'[k] = note[k])
    BY <1>5 DEF PushStatus, IInv, TypeOK, provVars, slurmVars
  <2>2. Truthful(k)
    BY DEF TInv
  <2>3. QED BY <2>1, <2>2 DEF Truthful, Success
<1>6. CASE m = k /\ RemoveObject(k)
  <2>1. /\ UNCHANGED <<uids, pods, pendingStatus, work, jobs>>
        /\ note'[k] = NoPod /\ k8s'[k] = NoPod
    BY <1>6 DEF RemoveObject, IInv, TypeOK, provVars, slurmVars
  <2>2. Truthful(k)
    BY DEF TInv
  <2>3. QED BY <2>1, <2>2 DEF Truthful, Success
<1>7. QED BY <1>1, <1>2, <1>3, <1>4, <1>5, <1>6

LEMMA SyncTruthful ==
  ASSUME IInv, OInv, TInv, JobsLast, Untracked' = Untracked,
         NEW k \in Key, NEW m \in Key, SyncPod(m)
  PROVE  Truthful(k)'
<1>1. /\ UNCHANGED <<k8s, deleting, uids, pods, note, pendingStatus, jobs>>
      /\ \A n \in Key \ {m} : work'[n] = work[n]
  BY DEF SyncPod, IInv, TypeOK, kubeVars, provVars, slurmVars
<1>2. CASE m # k \/ work'[k] = work[k]
  BY <1>1, <1>2, UnmovedTruthful DEF Unmoved
<1>3. CASE m = k /\ work'[k] # work[k]
  <2>1. \/ \E p \in {k8s[k], pods[k]} : /\ work'[k] = Call("delete", p) /\ p # NoPod
                                        /\ k8s[k] = NoPod \/ k \in deleting
        \/ /\ work'[k] = Call("create", k8s[k]) \/ work'[k] = Call("update", k8s[k])
           /\ k8s[k] # NoPod /\ k \notin deleting
    BY <1>3 DEF SyncPod, IInv, TypeOK
  <2>2. Truthful(k)
    BY DEF TInv
  <2>3. k8s[k] # NoPod => uids[k] # 0
    BY ProviderAssumption DEF IInv, TypeOK, OInv, Numbered, Pod
  <2>4. QED BY <1>1, <2>1, <2>2, <2>3 DEF Truthful, Success, Call
<1>4. QED BY <1>2, <1>3

\* The provider keeps a Pod whose phase it has from Kubernetes or from a job.
LEMMA StoreTruthful ==
  ASSUME TInv, JobsLast, Untracked' = Untracked, NEW k \in Key, NEW p \in Pod,
         IInv, k \notin Untracked => (uids[k] <= 1 /\ p.phase = "Succeeded" => Success(k)),
         Store(k, p), work'[k] = work[k] \/ work'[k] = Idle,
         k \notin Untracked => pendingStatus'[k] = NoPod, k \notin Untracked => uids[k] # 0,
         UNCHANGED <<k8s, deleting, uids>>
  PROVE  Truthful(k)'
<1>1. Success(k) => Success(k)'
  BY SuccessLasts
<1>2. /\ pods'[k] = p
      /\ note'[k] = IF k8s[k] # NoPod THEN p ELSE note[k]
  BY DEF Store, Notify, IInv, TypeOK
<1>3. Truthful(k)
  BY DEF TInv
<1>4. QED BY <1>1, <1>2, <1>3 DEF Truthful, Idle

LEMMA FinishCreateTruthful ==
  ASSUME IInv, TInv, JobsLast, Untracked' = Untracked, NEW k \in Key, NEW p \in Pod,
         FinishCreate(k, p), work[k].op = "create",
         k \notin Untracked => p.phase \in {work[k].pod.phase, "Failed"},
         k \notin Untracked => pendingStatus'[k] = NoPod, UNCHANGED kubeVars
  PROVE  Truthful(k)'
<1> DEFINE q == [p EXCEPT !.message = "created"]
<1>1. q \in Pod /\ q.phase = p.phase
  BY DEF Pod, Message
<1>2. Store(k, q) /\ work'[k] = Idle
  BY DEF FinishCreate, IInv, TypeOK
<1> HIDE DEF q
<1>3. Truthful(k)
  BY DEF TInv
<1>4. /\ k \notin Untracked => (uids[k] <= 1 /\ q.phase = "Succeeded" => Success(k))
      /\ k \notin Untracked => uids[k] # 0
  BY <1>1, <1>3 DEF Truthful, Idle
<1>5. QED BY <1>1, <1>2, <1>4, StoreTruthful DEF kubeVars

\* The frame of a provider call, for the other names.
LEMMA OthersUnmoved ==
  ASSUME IInv, NEW k \in Key, NEW m \in Key \ {k}, Provider(m)
  PROVE  Unmoved(k)
<1>1. CASE CreatePod(m)
  BY <1>1 DEF CreatePod, FinishCreate, Store, Notify, Unmoved, IInv, TypeOK, kubeVars
<1>2. CASE EndCreate(m)
  BY <1>2 DEF EndCreate, FinishCreate, Store, Notify, Unmoved, IInv, TypeOK, kubeVars
<1>3. CASE UpdatePod(m)
  BY <1>3 DEF UpdatePod, Store, Notify, Unmoved, IInv, TypeOK, kubeVars
<1>4. CASE DeletePod(m)
  BY <1>4 DEF DeletePod, FinishDelete, Notify, Unmoved, IInv, TypeOK, kubeVars
<1>5. CASE EndDelete(m)
  BY <1>5 DEF EndDelete, FinishDelete, Notify, Unmoved, IInv, TypeOK, kubeVars
<1>6. QED BY <1>1, <1>2, <1>3, <1>4, <1>5 DEF Provider

LEMMA CreateTruthful ==
  ASSUME IInv, TInv, JobsLast, Untracked' = Untracked, NEW k \in Key,
         CreatePod(k) \/ EndCreate(k)
  PROVE  Truthful(k)'
<1>1. work[k].pod \in Pod /\ work[k].op = "create"
  BY ArgumentOK DEF CreatePod, EndCreate
<1>2. Truthful(k)
  BY DEF TInv
<1>3. k \notin Untracked => pendingStatus[k] = NoPod
  BY <1>2 DEF Truthful
<1>4. CASE CreatePod(k)
  <2>1. Loaded(k) \in Pod /\ (k \notin Untracked => Loaded(k) = work[k].pod)
    <3>1. pendingStatus[k] # NoPod => pendingStatus[k] \in Phase
      BY DEF IInv, TypeOK
    <3>2. QED BY <1>1, <1>3, <3>1 DEF Loaded, Pod
  <2>2. pendingStatus'[k] = NoPod /\ UNCHANGED kubeVars
    BY <1>4 DEF CreatePod, IInv, TypeOK
  <2>3. CASE NeedsDispatch(k)
    <3>1. work'[k].op = "create" /\ work'[k].pod = work[k].pod /\ UNCHANGED <<pods, note>>
      BY <1>1, <1>4, <2>1, <2>3 DEF CreatePod, NeedsDispatch, IsTracked, IInv, TypeOK, Work
    <3>2. work[k] # Idle
      BY <1>1 DEF Idle
    <3>3. Unmoved(k)
      BY <1>1, <1>3, <2>2, <2>3, <3>1, <3>2 DEF Unmoved, kubeVars, NeedsDispatch, IsTracked
    <3>4. QED BY <3>3, UnmovedTruthful
  <2>4. CASE ~NeedsDispatch(k)
    <3>1. FinishCreate(k, Loaded(k))
      BY <1>4, <2>4 DEF CreatePod
    <3>2. QED BY <1>1, <2>1, <2>2, <3>1, FinishCreateTruthful
  <2>5. QED BY <2>3, <2>4
<1>5. CASE EndCreate(k) /\ work[k].stage = "answered"
  <2> DEFINE p == [work[k].pod EXCEPT !.id = work[k].answer]
  <2>1. work[k].answer \in JobId
    BY <1>5 DEF EndCreate, IInv, CallOK, Idle
  <2>2. p \in Pod /\ p.phase = work[k].pod.phase
    BY <1>1, <2>1 DEF Pod
  <2>3. FinishCreate(k, p) /\ pendingStatus' = pendingStatus /\ UNCHANGED kubeVars
    BY <1>5 DEF EndCreate
  <2> HIDE DEF p
  <2>4. QED BY <1>1, <1>3, <2>2, <2>3, FinishCreateTruthful
<1>6. CASE EndCreate(k) /\ work[k].stage = "failed"
  <2> DEFINE p == [work[k].pod EXCEPT !.phase = "Failed"]
  <2>1. p \in Pod /\ p.phase = "Failed"
    BY <1>1 DEF Pod, Phase
  <2>2. FinishCreate(k, p) /\ pendingStatus' = pendingStatus /\ UNCHANGED kubeVars
    BY <1>6 DEF EndCreate
  <2> HIDE DEF p
  <2>3. QED BY <1>1, <1>3, <2>1, <2>2, FinishCreateTruthful
<1>7. QED BY <1>4, <1>5, <1>6 DEF EndCreate

LEMMA UpdateTruthful ==
  ASSUME IInv, TInv, JobsLast, Untracked' = Untracked, NEW k \in Key, UpdatePod(k)
  PROVE  Truthful(k)'
<1> DEFINE p == [work[k].pod EXCEPT !.message = "updated"]
<1>1. work[k].pod \in Pod /\ work[k].op = "update"
  BY ArgumentOK DEF UpdatePod
<1>2. p \in Pod /\ p.phase = work[k].pod.phase
  BY <1>1 DEF Pod, Message
<1>3. /\ Store(k, p) /\ work'[k] = Idle /\ pendingStatus' = pendingStatus
      /\ UNCHANGED <<k8s, deleting, uids>>
  BY DEF UpdatePod, IInv, TypeOK, kubeVars
<1> HIDE DEF p
<1>4. Truthful(k)
  BY DEF TInv
<1>5. /\ k \notin Untracked => (uids[k] <= 1 /\ p.phase = "Succeeded" => Success(k))
      /\ k \notin Untracked => pendingStatus[k] = NoPod /\ uids[k] # 0
  BY <1>1, <1>2, <1>4 DEF Truthful, Idle
<1>6. QED BY <1>2, <1>3, <1>5, StoreTruthful

\* The phase that DeletePod makes up goes to an object that is being deleted.
LEMMA DeleteTruthful ==
  ASSUME IInv, TInv, JobsLast, Untracked' = Untracked, NEW k \in Key,
         DeletePod(k) \/ EndDelete(k)
  PROVE  Truthful(k)'
<1>1. /\ work[k].op = "delete" /\ pendingStatus' = pendingStatus
      /\ UNCHANGED <<k8s, deleting, uids>>
      /\ pods'[k] = pods[k] \/ pods'[k] = NoPod
      /\ note'[k] = note[k] \/ k8s[k] # NoPod
      /\ work'[k] = Idle \/ work'[k].op = "delete"
  BY DEF DeletePod, EndDelete, FinishDelete, Notify, IInv, TypeOK, Work, kubeVars
<1>2. Truthful(k)
  BY DEF TInv
<1>3. Success(k) => Success(k)'
  BY SuccessLasts
<1>4. QED BY <1>1, <1>2, <1>3 DEF Truthful, Idle

LEMMA AgentTruthful ==
  ASSUME IInv, TInv, JobsLast, Untracked' = Untracked, NEW k \in Key,
         \/ \E m \in Key : Agent(m)
         \/ \E r \in requests : SbatchFails(r) \/ \E j \in JobId : Sbatch(r, j)
  PROVE  Truthful(k)'
<1>1. \A m \in Key : work[m] \in Work
  BY DEF IInv, TypeOK
<1>2. Unmoved(k)
  <2>1. CASE \E m \in Key : LoseCreate(m)
    BY <1>1, <2>1 DEF LoseCreate, Unmoved, Idle, IInv, TypeOK, Work, kubeVars, provVars
  <2>2. CASE \E m \in Key : Scancel(m)
    BY <1>1, <2>2 DEF Scancel, Unmoved, Idle, IInv, TypeOK, Work, kubeVars, provVars
  <2>3. CASE \E m \in Key : LoseDelete(m)
    BY <1>1, <2>3 DEF LoseDelete, Unmoved, Idle, IInv, TypeOK, Work, kubeVars, provVars
  <2>4. CASE \E r \in requests : SbatchFails(r)
    BY <1>1, <2>4 DEF SbatchFails, Awaits, Unmoved, Idle, IInv, TypeOK, Work, kubeVars, provVars
  <2>5. CASE \E r \in requests, j \in JobId : Sbatch(r, j)
    BY <1>1, <2>5 DEF Sbatch, Awaits, Unmoved, Idle, IInv, TypeOK, Work, kubeVars, provVars
  <2>6. QED BY <2>1, <2>2, <2>3, <2>4, <2>5 DEF Agent
<1>3. QED BY <1>2, UnmovedTruthful

LEMMA StatusTruthful ==
  ASSUME IInv, TInv, JobsLast, Untracked' = Untracked, NEW k \in Key,
         \/ \E j \in JobId : PollTracked(j) \/ RunJob(j)
         \/ \E m \in Key : PollUntracked(m) \/ RunExternal(m)
         \/ LookupTracked \/ ApplyStatus
  PROVE  Truthful(k)'
<1>1. UNCHANGED <<k8s, deleting, uids, work>>
  BY DEF PollTracked, RunJob, PollUntracked, RunExternal, LookupTracked, ApplyStatus,
         kubeVars, vkVars
<1>2. CASE UNCHANGED <<pods, note, pendingStatus>>
  BY <1>1, <1>2, UnmovedTruthful DEF Unmoved
<1>3. CASE ApplyStatus
  <2>1. update \in Update /\ update.key \in Key /\ update.phase \in Phase
        /\ update # NoUpdate /\ update.stage = "found"
    BY <1>3 DEF ApplyStatus, IInv, TypeOK, Update
  <2> DEFINE p == [pods[update.key] EXCEPT !.phase = update.phase, !.message = "status updated"]
  <2>2. CASE update.key # k
    <3>1. UNCHANGED <<pods[k], note[k], pendingStatus[k]>>
      BY <1>3, <2>1, <2>2 DEF ApplyStatus, Store, Notify, IInv, TypeOK
    <3>2. QED BY <1>1, <3>1, UnmovedTruthful DEF Unmoved
  <2>3. CASE update.key = k /\ pods[k] # NoPod /\ Store(k, p)
    <3>1. pods[k] \in Pod
      BY <2>3 DEF IInv, TypeOK
    <3>2. p \in Pod /\ p.phase = update.phase
      BY <2>1, <2>3, <3>1 DEF Pod, Message
    <3>3. pendingStatus' = pendingStatus
      BY <1>3, <2>3 DEF ApplyStatus
    <3>4. Truthful(k) /\ ToldTruthfully
      BY DEF TInv
    <3> HIDE DEF p
    <3>5. /\ k \notin Untracked => (p.phase = "Succeeded" => Success(k))
          /\ k \notin Untracked => pendingStatus'[k] = NoPod /\ uids[k] # 0
      BY <2>1, <2>3, <3>2, <3>3, <3>4 DEF Truthful, ToldTruthfully
    <3>6. QED BY <1>1, <2>3, <3>2, <3>5, StoreTruthful
  <2>4. CASE update.key = k /\ UNCHANGED <<pods, note>>
    <3>1. k \notin Untracked => pendingStatus'[k] = pendingStatus[k]
      BY <1>3, <2>1, <2>4 DEF ApplyStatus
    <3>2. Success(k) => Success(k)'
      BY SuccessLasts
    <3>3. Truthful(k)
      BY DEF TInv
    <3>4. QED BY <1>1, <2>4, <3>1, <3>2, <3>3 DEF Truthful
  <2>5. QED BY <1>3, <2>2, <2>3, <2>4 DEF ApplyStatus
<1>4. QED
  BY <1>2, <1>3 DEF PollTracked, RunJob, PollUntracked, RunExternal, LookupTracked, vkVars,
                    provVars

LEMMA RestartTruthful ==
  ASSUME TInv, JobsLast, Untracked' = Untracked, NEW k \in Key,
         RestartController \/ RestartInstance
  PROVE  Truthful(k)'
<1>1. /\ pods'[k] = NoPod /\ pendingStatus'[k] = NoPod /\ work'[k] = Idle /\ note'[k] = NoPod
      /\ UNCHANGED <<k8s, uids, deleting, jobs>>
  BY DEF RestartController, RestartInstance, FreshInstance, kubeVars, slurmVars
<1>2. Truthful(k)
  BY DEF TInv
<1>3. QED BY <1>1, <1>2 DEF Truthful, Success, Idle

LEMMA NextTInv == IInv /\ OInv /\ TInv /\ [Next]_vars => TInv'
<1> SUFFICES ASSUME IInv, OInv, TInv, [Next]_vars PROVE TInv'
  OBVIOUS
<1>1. JobsLast /\ Untracked' = Untracked
  BY JobsLastStep
<1>2. TrackedOwned' /\ ToldTruthfully'
  BY <1>1, TrackedStep, ToldStep
<1>3. ASSUME NEW k \in Key
      PROVE  Truthful(k)'
  <2>1. CASE UNCHANGED vars
    BY <1>1, <2>1, UnmovedTruthful DEF Unmoved, vars, kubeVars, vkVars, provVars
  <2>2. CASE \E m \in Key : CreateObject(m) \/ EditObject(m) \/ DeleteObject(m)
                            \/ PushStatus(m) \/ RemoveObject(m)
    BY <1>1, <2>2, UsersTruthful
  <2>3. CASE \E m \in Key : SyncPod(m)
    BY <1>1, <2>3, SyncTruthful
  <2>4. ASSUME NEW m \in Key, Provider(m)
        PROVE  Truthful(k)'
    <3>1. CASE m # k
      BY <1>1, <2>4, <3>1, OthersUnmoved, UnmovedTruthful
    <3>2. CASE m = k
      BY <1>1, <2>4, <3>2, CreateTruthful, UpdateTruthful, DeleteTruthful DEF Provider
    <3>3. QED BY <3>1, <3>2
  <2>5. CASE \/ \E m \in Key : Agent(m)
             \/ \E r \in requests : SbatchFails(r) \/ \E j \in JobId : Sbatch(r, j)
    BY <1>1, <2>5, AgentTruthful
  <2>6. CASE \/ \E j \in JobId : PollTracked(j) \/ RunJob(j)
             \/ \E m \in Key : PollUntracked(m) \/ RunExternal(m)
             \/ LookupTracked \/ ApplyStatus
    BY <1>1, <2>6, StatusTruthful
  <2>7. CASE RestartController \/ RestartInstance
    BY <1>1, <2>7, RestartTruthful
  <2>8. QED BY <2>1, <2>2, <2>3, <2>4, <2>5, <2>6, <2>7 DEF Next
<1>4. QED BY <1>2, <1>3 DEF TInv

\* The only object of a tracked name that is shown as Succeeded, while nobody
\* deletes it, has a job that succeeded: no lost answer, late status, edit or
\* restart can make a Pod look completed.
THEOREM CompletionIsTrue == Spec => []CompletedTruthfully
<1>1. IInv /\ OInv /\ TInv => CompletedTruthfully
  <2> SUFFICES ASSUME IInv, OInv, TInv, NEW k \in Key \ Untracked,
                      uids[k] = 1, k8s[k] # NoPod, k \notin deleting, k8s[k].phase = "Succeeded"
               PROVE  \E j \in JobId : jobs[j] = [key |-> k, uid |-> 1, phase |-> "Succeeded"]
    BY DEF CompletedTruthfully
  <2>1. Success(k)
    BY DEF TInv, Truthful
  <2>2. PICK j \in JobId : jobs[j] # NoJob /\ jobs[j].key = k /\ jobs[j].phase = "Succeeded"
    BY <2>1 DEF Success
  <2>3. jobs[j] \in Job /\ jobs[j].uid \in 1..MaxUid
    BY <2>2 DEF IInv, TypeOK, Job
  <2>4. jobs[j].uid <= 1
    BY <2>2, <2>3 DEF OInv, Numbered, Dispatched
  <2>5. jobs[j].uid = 1
    BY <2>3, <2>4, ProviderAssumption
  <2>6. jobs[j] = [key |-> k, uid |-> 1, phase |-> "Succeeded"]
    BY <2>2, <2>3, <2>5 DEF Job
  <2>7. QED BY <2>6
<1>2. QED
  BY <1>1, InitIInv, NextIInv, InitOInv, NextOInv, InitTInv, NextTInv, PTL DEF Spec

-----------------------------------------------------------------------------
(* No job is forgotten while there are no edits, errors and restarts.        *)

Calm == edits = 0 /\ fails = 0 /\ restarts = 0

CopyOK(k, p) == p # NoPod => p.uid <= uids[k] /\ p.edit = 0

Copies(k) == \A p \in {k8s[k], pods[k], note[k], work[k].pod} : CopyOK(k, p)

\* CreatePod waits for the answer to every request.
Answering(k) ==
  \A r \in requests : r.key = k =>
    /\ k \notin Untracked
    /\ work[k].op = "create" /\ work[k].stage = "rpc" /\ work[k].pod.uid = r.uid

\* A notification about the object that exists is on its way.
Notified(k) == note[k] # NoPod /\ note[k].uid = uids[k]

\* What has been notified of an object is known to the provider until the
\* object is being deleted.
Shown(k) ==
  k8s[k] # NoPod /\ k \notin deleting /\ (k8s[k].phase # "Pending" \/ Notified(k))
    => pods[k] # NoPod /\ work[k].op \in {"none", "update"}

\* CreatePod is the first to learn of its object, and nothing has queued it
\* again but its deletion.
First(k) ==
  work[k].op = "create" =>
    /\ pods[k] = NoPod
    /\ work[k].pod.uid = uids[k] =>
         /\ ~Notified(k)
         /\ k8s[k] # NoPod => k8s[k].phase = "Pending" /\ (k \in queue => k \in deleting)

\* DeletePod is called for an object that is being deleted or is gone.
Leaving(k) ==
  work[k].op = "delete" /\ k8s[k] # NoPod /\ k \notin deleting =>
    /\ work[k].pod.uid # uids[k]
    /\ pods[k] # NoPod => pods[k].uid # uids[k]

\* The identifier of an active job is in the answer to CreatePod, ...
Received(k, j) ==
  /\ work[k].op = "create" /\ work[k].stage = "answered"
  /\ work[k].pod.uid = uids[k] /\ work[k].answer = j

\* ... then on the provider's Pod, with no update in sight that would lose it, ...
Kept(k, j) ==
  /\ work[k].op = "none"
  /\ pods[k] # NoPod /\ pods[k].uid = uids[k] /\ pods[k].id = j
  /\ Notified(k) => note[k].id = j
  /\ k8s[k] # NoPod /\ (k8s[k].phase = "Running" \/ (k \in queue /\ k \notin deleting))
       => k8s[k].id = j

\* ... and at last with DeletePod, until scancel has ended the job.
Canceling(k, j) ==
  /\ work[k].op = "delete" /\ work[k].stage \in {"called", "rpc"} /\ pods[k] # NoPod
  /\ work[k].pod.uid = uids[k] /\ work[k].pod.id = j

Held(k) ==
  \A j \in JobId : jobs[j] # NoJob /\ jobs[j].key = k =>
    /\ k \notin Untracked
    /\ jobs[j].phase \notin Terminal /\ jobs[j].uid = uids[k] =>
         Received(k, j) \/ Kept(k, j) \/ Canceling(k, j)

Attended(k) ==
  Copies(k) /\ Answering(k) /\ Shown(k) /\ First(k) /\ Leaving(k) /\ Held(k)

AInv == Calm => \A k \in Key : Attended(k)

LEMMA InitAInv == Init => AInv
  BY DEF Init, AInv, Attended, Copies, CopyOK, Answering, Shown, First, Leaving, Held, Idle

\* The types that the steps below need of one name.
LEMMA TypesOf ==
  ASSUME IInv, NEW k \in Key
  PROVE  /\ uids[k] \in Nat
         /\ {k8s[k], pods[k], note[k], work[k].pod} \subseteq Pod \cup {NoPod}
         /\ \A p \in Pod : p.uid \in Nat /\ p.edit \in Nat /\ p.id \in JobId \cup {NoId}
         /\ work[k] \in Work
         /\ \A j \in JobId : jobs[j] # NoJob => jobs[j] \in Job /\ jobs[j].uid \in Nat
  BY ProviderAssumption DEF IInv, TypeOK, Work, Pod, Job

\* A step that does not concern the name, except that a job of it may end.
JobsEnd(k) ==
  \A j \in JobId : jobs'[j] # NoJob /\ jobs'[j].key = k =>
    /\ jobs[j] # NoJob /\ jobs[j].key = k /\ jobs'[j].uid = jobs[j].uid
    /\ jobs'[j].phase \notin Terminal => jobs[j].phase \notin Terminal

Aside(k) ==
  /\ UNCHANGED <<uids[k], k8s[k], pods[k], note[k], work[k], Untracked>>
  /\ k \in queue' => k \in queue
  /\ k \in deleting' <=> k \in deleting
  /\ \A r \in requests' : r.key = k => r \in requests
  /\ JobsEnd(k)

LEMMA AsideAttended ==
  ASSUME NEW k \in Key, Attended(k), Aside(k)
  PROVE  Attended(k)'
<1>1. Copies(k)'
  BY DEF Attended, Copies, CopyOK, Aside
<1>2. Answering(k)'
  BY DEF Attended, Answering, Aside
<1>3. Shown(k)' /\ First(k)' /\ Leaving(k)'
  BY DEF Attended, Shown, First, Leaving, Notified, Aside
<1>4. Held(k)'
  BY DEF Attended, Held, Received, Kept, Canceling, Notified, Aside, JobsEnd
<1>5. QED BY <1>1, <1>2, <1>3, <1>4 DEF Attended

LEMMA CreateObjectAttended ==
  ASSUME IInv, OInv, NEW k \in Key, NEW m \in Key, Attended(k), CreateObject(m)
  PROVE  Attended(k)'
<1>1. /\ UNCHANGED <<pods, note, work, deleting, requests, jobs, Untracked>>
      /\ queue' = queue \cup {m} /\ uids[k] \in Nat
  BY TypesOf DEF CreateObject, provVars, slurmVars
<1>2. CASE m # k
  BY <1>1, <1>2, AsideAttended DEF CreateObject, Aside, JobsEnd, IInv, TypeOK
<1>3. CASE m = k
  <2>1. /\ uids'[k] = uids[k] + 1 /\ k8s[k] = NoPod
        /\ k8s'[k].uid = uids[k] + 1 /\ k8s'[k].edit = 0 /\ k8s'[k].phase = "Pending"
    BY <1>3 DEF CreateObject, IInv, TypeOK
  <2>2. \A p \in {pods[k], note[k], work[k].pod} :
          p # NoPod => p \in Pod /\ p.uid \in Nat /\ p.uid <= uids[k] /\ p.edit = 0
    BY TypesOf DEF Attended, Copies, CopyOK
  <2>3. Copies(k)'
    BY <1>1, <2>1, <2>2 DEF Copies, CopyOK
  <2>4. Answering(k)'
    BY <1>1 DEF Attended, Answering
  <2>5. ~Notified(k)' /\ (work[k].op # "none" => work[k].pod.uid # uids'[k])
    <3>1. work[k].op # "none" => work[k].pod \in Pod
      BY ArgumentOK
    <3>2. QED BY <1>1, <2>1, <2>2, <3>1, NoPodAssumption DEF Notified
  <2>6. Shown(k)' /\ First(k)' /\ Leaving(k)'
    BY <1>1, <2>1, <2>2, <2>5 DEF Attended, Shown, First, Leaving
  <2>7. Held(k)'
    <3>1. \A j \in JobId : jobs[j] # NoJob /\ jobs[j].key = k => jobs[j].uid <= uids[k]
      BY DEF OInv, Numbered, Dispatched, IInv, TypeOK, Job
    <3>2. QED BY <1>1, <2>1, <3>1, TypesOf DEF Attended, Held
  <2>8. QED BY <2>3, <2>4, <2>6, <2>7 DEF Attended
<1>4. QED BY <1>2, <1>3

LEMMA KubernetesAttended ==
  ASSUME IInv, OInv, NEW k \in Key, NEW m \in Key, Attended(k),
         DeleteObject(m) \/ PushStatus(m) \/ RemoveObject(m)
  PROVE  Attended(k)'
<1>1. UNCHANGED <<uids, pods, work, requests, jobs, Untracked>>
  BY DEF DeleteObject, PushStatus, RemoveObject, provVars, slurmVars
<1>2. CASE m # k
  BY <1>1, <1>2, AsideAttended
  DEF DeleteObject, PushStatus, RemoveObject, Aside, JobsEnd, IInv, TypeOK
<1>3. CASE m = k /\ DeleteObject(k)
  <2>1. /\ UNCHANGED <<k8s, note>> /\ k \in deleting'
    BY <1>3 DEF DeleteObject
  <2>2. Copies(k)' /\ Answering(k)'
    BY <1>1, <2>1 DEF Attended, Copies, CopyOK, Answering
  <2>3. Shown(k)' /\ First(k)' /\ Leaving(k)'
    BY <1>1, <2>1 DEF Attended, Shown, First, Leaving, Notified
  <2>4. Held(k)'
    BY <1>1, <2>1 DEF Attended, Held, Received, Kept, Canceling, Notified
  <2>5. QED BY <2>2, <2>3, <2>4 DEF Attended
<1>4. CASE m = k /\ RemoveObject(k)
  <2>1. k8s'[k] = NoPod /\ note'[k] = NoPod
    BY <1>4 DEF RemoveObject, IInv, TypeOK
  <2>2. Copies(k)' /\ Answering(k)'
    BY <1>1, <2>1 DEF Attended, Copies, CopyOK, Answering
  <2>3. Shown(k)' /\ First(k)' /\ Leaving(k)'
    BY <1>1, <2>1 DEF Attended, Shown, First, Leaving, Notified
  <2>4. Held(k)'
    BY <1>1, <2>1 DEF Attended, Held, Received, Kept, Canceling, Notified
  <2>5. QED BY <2>2, <2>3, <2>4 DEF Attended
<1>5. CASE m = k /\ PushStatus(k)
  <2>1. /\ note'[k] = NoPod /\ deleting' = deleting
        /\ \/ k8s'[k] = k8s[k] /\ queue' = queue
           \/ k8s[k] # NoPod /\ note[k] # NoPod /\ k8s[k].uid = note[k].uid /\ k8s'[k] = note[k]
    BY <1>5 DEF PushStatus, IInv, TypeOK
  <2>2. k8s[k] # NoPod => k8s[k].uid = uids[k]
    BY DEF OInv, Numbered
  <2>3. Copies(k)' /\ Answering(k)'
    BY <1>1, <2>1 DEF Attended, Copies, CopyOK, Answering
  <2>4. Shown(k)' /\ First(k)' /\ Leaving(k)'
    BY <1>1, <2>1, <2>2 DEF Attended, Shown, First, Leaving, Notified
  <2>5. Held(k)'
    BY <1>1, <2>1, <2>2 DEF Attended, Held, Received, Kept, Canceling, Notified
  <2>6. QED BY <2>3, <2>4, <2>5 DEF Attended
<1>6. QED BY <1>2, <1>3, <1>4, <1>5

\* No update is asked for that would lose the identifier of an active job.
LEMMA SyncAttended ==
  ASSUME IInv, OInv, NEW k \in Key, NEW m \in Key, Attended(k), SyncPod(m)
  PROVE  Attended(k)'
<1>1. /\ UNCHANGED <<k8s, deleting, uids, pods, note, requests, jobs, Untracked>>
      /\ queue' = queue \ {m} /\ work[m] = Idle /\ m \in queue
      /\ \A n \in Key \ {m} : work'[n] = work[n]
  BY DEF SyncPod, IInv, TypeOK, kubeVars, provVars, slurmVars
<1>2. CASE m # k \/ work'[k] = work[k]
  BY <1>1, <1>2, AsideAttended DEF Aside, JobsEnd
<1>3. CASE m = k /\ work'[k] # work[k]
  <2> DEFINE p == work'[k].pod
  <2>1. \/ work'[k] = Call("delete", pods[k]) /\ k8s[k] = NoPod /\ pods[k] # NoPod
        \/ /\ work'[k] = Call("delete", k8s[k])
           /\ k8s[k] # NoPod /\ k \in deleting /\ k8s[k].phase = "Running"
        \/ /\ work'[k] = Call("create", k8s[k])
           /\ k8s[k] # NoPod /\ k \notin deleting /\ pods[k] = NoPod
        \/ /\ work'[k] = Call("update", k8s[k]) /\ pods[k] # NoPod
           /\ k8s[k] # NoPod /\ k \notin deleting /\ ~SameLabels(pods[k], k8s[k])
    BY <1>3 DEF SyncPod, IInv, TypeOK
  <2>2. k8s[k] # NoPod => k8s[k].uid = uids[k]
    BY DEF OInv, Numbered
  <2>3. work[k].op = "none" /\ work[k].stage = "idle"
    BY <1>1, <1>3 DEF Idle
  <2>4. Copies(k)'
    BY <1>1, <2>1 DEF Attended, Copies, CopyOK, Call
  <2>5. Answering(k)'
    BY <1>1, <2>3 DEF Attended, Answering
  <2>6. Shown(k)' /\ First(k)' /\ Leaving(k)'
    BY <1>1, <1>3, <2>1, <2>2, <2>3 DEF Attended, Shown, First, Leaving, Notified, Call
  <2>7. Held(k)'
    <3> SUFFICES ASSUME NEW j \in JobId, jobs[j] # NoJob, jobs[j].key = k,
                        jobs[j].phase \notin Terminal, jobs[j].uid = uids[k]
                 PROVE  Canceling(k, j)'
      BY <1>1 DEF Attended, Held
    <3>1. Kept(k, j)
      BY <2>3 DEF Attended, Held, Received, Canceling
    <3>2. ~(k8s[k] # NoPod /\ k \notin deleting /\ ~SameLabels(pods[k], k8s[k]))
      <4>1. k8s[k] # NoPod /\ k \notin deleting => k8s[k].id = j
        BY <1>1, <1>3, <3>1 DEF Kept
      <4>2. pods[k].id = j /\ pods[k].edit = 0 /\ (k8s[k] # NoPod => k8s[k].edit = 0)
        BY <3>1 DEF Kept, Attended, Copies, CopyOK
      <4>3. QED BY <4>1, <4>2 DEF SameLabels
    <3>3. QED BY <1>1, <2>1, <2>2, <3>1, <3>2 DEF Kept, Canceling, Call
  <2>8. QED BY <2>4, <2>5, <2>6, <2>7 DEF Attended
<1>4. QED BY <1>2, <1>3

\* The frame of a provider call, for the other names.
LEMMA OthersAside ==
  ASSUME IInv, NEW k \in Key, NEW m \in Key \ {k}, Provider(m)
  PROVE  Aside(k)
<1>1. CASE CreatePod(m)
  BY <1>1 DEF CreatePod, FinishCreate, Store, Notify, Aside, JobsEnd, IInv, TypeOK, kubeVars,
              slurmVars
<1>2. CASE EndCreate(m)
  BY <1>2 DEF EndCreate, FinishCreate, Store, Notify, Aside, JobsEnd, IInv, TypeOK, kubeVars,
              slurmVars
<1>3. CASE UpdatePod(m)
  BY <1>3 DEF UpdatePod, Store, Notify, Aside, JobsEnd, IInv, TypeOK, kubeVars, slurmVars
<1>4. CASE DeletePod(m)
  BY <1>4 DEF DeletePod, FinishDelete, Notify, Aside, JobsEnd, IInv, TypeOK, kubeVars, slurmVars
<1>5. CASE EndDelete(m)
  BY <1>5 DEF EndDelete, FinishDelete, Notify, Aside, JobsEnd, IInv, TypeOK, kubeVars, slurmVars
<1>6. QED BY <1>1, <1>2, <1>3, <1>4, <1>5 DEF Provider

\* CreatePod ends with the Pod kept, and with the identifier it was answered.
LEMMA FinishAttended ==
  ASSUME IInv, NEW k \in Key, Attended(k), NEW p \in Pod, FinishCreate(k, p),
         p.uid = work[k].pod.uid, p.edit = work[k].pod.edit, work[k].pod \in Pod,
         work[k].op = "create", work[k].stage # "rpc",
         work[k].stage = "answered" => p.id = work[k].answer,
         UNCHANGED <<k8s, deleting, uids, queue, requests, jobs, Untracked>>
  PROVE  Attended(k)'
<1> DEFINE q == [p EXCEPT !.message = "created"]
<1>1. q \in Pod /\ q.id = p.id /\ q.uid = p.uid /\ q.edit = p.edit /\ q # NoPod
  <2>1. q \in Pod /\ q.id = p.id /\ q.uid = p.uid /\ q.edit = p.edit
    BY DEF Pod, Message
  <2>2. QED BY <2>1, NoPodAssumption
<1>2. /\ pods'[k] = q /\ work'[k] = Idle
      /\ note'[k] = IF k8s[k] # NoPod THEN q ELSE note[k]
  BY DEF FinishCreate, Store, Notify, IInv, TypeOK
<1> HIDE DEF q
<1>3. work'[k].op = "none" /\ work'[k].pod = NoPod
  BY <1>2 DEF Idle
<1>4. CopyOK(k, q)
  BY <1>1, NoPodAssumption DEF Attended, Copies, CopyOK
<1>5. Copies(k)'
  BY <1>2, <1>3, <1>4 DEF Attended, Copies, CopyOK
<1>6. Answering(k)'
  BY DEF Attended, Answering
<1>7. Shown(k)' /\ First(k)' /\ Leaving(k)'
  BY <1>1, <1>2, <1>3 DEF Shown, First, Leaving
<1>8. Held(k)'
  <2> SUFFICES ASSUME NEW j \in JobId, jobs[j] # NoJob, jobs[j].key = k,
                      jobs[j].phase \notin Terminal, jobs[j].uid = uids[k]
               PROVE  Kept(k, j)'
    BY DEF Attended, Held
  <2>1. Received(k, j)
    BY DEF Attended, Held, Kept, Canceling
  <2>2. q.id = j /\ q.uid = uids[k]
    BY <1>1, <2>1 DEF Received
  <2>3. First(k)
    BY DEF Attended
  <2>4. QED BY <1>1, <1>2, <1>3, <2>1, <2>2, <2>3 DEF First, Received, Kept, Notified
<1>9. QED BY <1>5, <1>6, <1>7, <1>8 DEF Attended

LEMMA CreateAttended ==
  ASSUME IInv, NEW k \in Key, Attended(k), CreatePod(k) \/ EndCreate(k)
  PROVE  Attended(k)'
<1>1. work[k].pod \in Pod /\ work[k].op = "create"
  BY ArgumentOK DEF CreatePod, EndCreate
<1>2. CASE CreatePod(k)
  <2>1. /\ Loaded(k) \in Pod /\ Loaded(k).uid = work[k].pod.uid
        /\ Loaded(k).edit = work[k].pod.edit
    <3>1. pendingStatus[k] # NoPod => pendingStatus[k] \in Phase
      BY DEF IInv, TypeOK
    <3>2. QED BY <1>1, <3>1 DEF Loaded, Pod
  <2>2. work[k].stage = "called" /\ UNCHANGED <<k8s, deleting, uids, queue, jobs, Untracked>>
    BY <1>2 DEF CreatePod, kubeVars
  <2>3. CASE NeedsDispatch(k)
    <3>1. /\ UNCHANGED <<pods, note>> /\ k \notin Untracked
          /\ requests' = requests \cup {[key |-> k, uid |-> work[k].pod.uid, run |-> restarts]}
          /\ work'[k].op = "create" /\ work'[k].stage = "rpc" /\ work'[k].pod = Loaded(k)
      BY <1>1, <1>2, <2>3 DEF CreatePod, NeedsDispatch, IsTracked, IInv, TypeOK, Work
    <3>2. Copies(k)'
      BY <1>1, <2>1, <2>2, <3>1, NoPodAssumption DEF Attended, Copies, CopyOK
    <3>3. Answering(k)'
      BY <2>1, <2>2, <3>1 DEF Attended, Answering
    <3>4. Shown(k)' /\ First(k)' /\ Leaving(k)'
      BY <1>1, <2>1, <2>2, <3>1 DEF Attended, Shown, First, Leaving, Notified
    <3>5. Held(k)'
      BY <1>1, <2>2, <3>1 DEF Attended, Held, Received, Kept, Canceling
    <3>6. QED BY <3>2, <3>3, <3>4, <3>5 DEF Attended
  <2>4. CASE ~NeedsDispatch(k)
    <3>1. FinishCreate(k, Loaded(k)) /\ requests' = requests
      BY <1>2, <2>4 DEF CreatePod
    <3>2. QED BY <1>1, <2>1, <2>2, <3>1, FinishAttended
  <2>5. QED BY <2>3, <2>4
<1>3. CASE EndCreate(k)
  <2>1. UNCHANGED <<k8s, deleting, uids, queue, requests, jobs, Untracked>>
    BY <1>3 DEF EndCreate, kubeVars, slurmVars
  <2>2. CASE work[k].stage = "answered"
    <3> DEFINE p == [work[k].pod EXCEPT !.id = work[k].answer]
    <3>1. work[k].answer \in JobId
      BY <1>1, <2>2 DEF IInv, CallOK, Idle
    <3>2. p \in Pod /\ p.uid = work[k].pod.uid /\ p.edit = work[k].pod.edit
          /\ p.id = work[k].answer
      BY <1>1, <3>1 DEF Pod
    <3>3. FinishCreate(k, p)
      BY <1>3, <2>2 DEF EndCreate
    <3> HIDE DEF p
    <3>4. QED BY <1>1, <2>1, <2>2, <3>2, <3>3, FinishAttended
  <2>3. CASE work[k].stage = "failed"
    <3> DEFINE p == [work[k].pod EXCEPT !.phase = "Failed"]
    <3>1. p \in Pod /\ p.uid = work[k].pod.uid /\ p.edit = work[k].pod.edit
      BY <1>1 DEF Pod, Phase
    <3>2. FinishCreate(k, p)
      BY <1>3, <2>3 DEF EndCreate
    <3> HIDE DEF p
    <3>3. QED BY <1>1, <2>1, <2>3, <3>1, <3>2, FinishAttended
  <2>4. QED BY <1>3, <2>2, <2>3 DEF EndCreate
<1>4. QED BY <1>2, <1>3

LEMMA UpdateAttended ==
  ASSUME IInv, NEW k \in Key, Attended(k), UpdatePod(k)
  PROVE  Attended(k)'
<1> DEFINE p == [work[k].pod EXCEPT !.message = "updated"]
<1>1. work[k].pod \in Pod /\ work[k].op = "update"
  BY ArgumentOK DEF UpdatePod
<1>2. p \in Pod /\ p.uid = work[k].pod.uid /\ p.edit = work[k].pod.edit
  BY <1>1 DEF Pod, Message
<1>3. /\ pods'[k] = p /\ work'[k].op = "none" /\ work'[k].pod = NoPod
      /\ note'[k] = p \/ note'[k] = note[k]
      /\ UNCHANGED <<k8s, deleting, uids, queue, requests, jobs, Untracked>>
  BY DEF UpdatePod, Store, Notify, Idle, IInv, TypeOK, kubeVars, slurmVars
<1> HIDE DEF p
<1>4. Copies(k)'
  BY <1>1, <1>2, <1>3, NoPodAssumption DEF Attended, Copies, CopyOK
<1>5. Answering(k)'
  BY <1>1, <1>3 DEF Attended, Answering
<1>6. Shown(k)' /\ First(k)' /\ Leaving(k)'
  BY <1>2, <1>3, NoPodAssumption DEF Shown, First, Leaving
<1>7. Held(k)'
  BY <1>1, <1>3 DEF Attended, Held, Received, Kept, Canceling
<1>8. QED BY <1>4, <1>5, <1>6, <1>7 DEF Attended

\* DeletePod gives the Pod up only when its job has been canceled.
LEMMA DeleteAttended ==
  ASSUME IInv, NEW k \in Key, Attended(k), DeletePod(k) \/ EndDelete(k)
  PROVE  Attended(k)'
<1> DEFINE p == [work[k].pod EXCEPT !.phase = "Succeeded", !.message = "deleted"]
<1>1. work[k].pod \in Pod /\ work[k].op = "delete" /\ work[k] \in Work
  BY ArgumentOK, TypesOf DEF DeletePod, EndDelete
<1>2. p \in Pod /\ p.uid = work[k].pod.uid /\ p.edit = work[k].pod.edit
  BY <1>1 DEF Pod, Phase, Message
<1>3. UNCHANGED <<k8s, deleting, uids, queue, requests, jobs, Untracked>>
  BY DEF DeletePod, EndDelete, kubeVars, slurmVars
<1>4. \/ /\ work'[k].op = "delete" /\ work'[k].stage = "rpc" /\ work'[k].pod = work[k].pod
         /\ UNCHANGED <<pods, note>>
      \/ /\ work'[k] = Idle /\ pods'[k] = NoPod
         /\ note'[k] = note[k] \/ note'[k] = p
         /\ pods[k] = NoPod \/ k \in Untracked \/ work[k].stage = "answered"
  BY <1>1 DEF DeletePod, EndDelete, FinishDelete, Notify, IsTracked, IInv, TypeOK, Work
<1> HIDE DEF p
<1>5. Copies(k)'
  BY <1>1, <1>2, <1>3, <1>4, NoPodAssumption DEF Attended, Copies, CopyOK, Idle
<1>6. Answering(k)'
  BY <1>1, <1>3 DEF Attended, Answering
<1>7. Shown(k)' /\ First(k)' /\ Leaving(k)'
  BY <1>1, <1>2, <1>3, <1>4 DEF Attended, Shown, First, Leaving, Notified, Idle
<1>8. Held(k)'
  BY <1>1, <1>3, <1>4 DEF Attended, Held, Received, Kept, Canceling
<1>9. QED BY <1>5, <1>6, <1>7, <1>8 DEF Attended

LEMMA ScancelAttended ==
  ASSUME IInv, NEW k \in Key, NEW m \in Key, Attended(k), Scancel(m)
  PROVE  Attended(k)'
<1> DEFINE i == work[m].pod.id
<1>1. /\ UNCHANGED <<uids, k8s, deleting, pods, note, queue, requests, Untracked>>
      /\ work[m] \in Work /\ work[m].op = "delete" /\ work[m].stage = "rpc"
      /\ work' = [work EXCEPT ![m].stage = "answered"]
      /\ \/ jobs' = jobs /\ (i \in JobId => jobs[i].phase \in Terminal)
         \/ i # NoId /\ jobs' = [jobs EXCEPT ![i].phase = "Failed"]
  BY TypesOf, ProviderAssumption DEF Scancel, kubeVars, provVars
<1>2. i # NoId => i \in JobId /\ jobs[i] \in Job
  <2>1. work[m].pod \in Pod /\ OwnsId(m, work[m].pod)
    BY <1>1, ArgumentOK
  <2>2. QED BY <2>1, NoPodAssumption DEF OwnsId, Pod, IInv, TypeOK
<1> HIDE DEF i
<1>3. /\ \A j \in JobId : jobs'[j] # NoJob =>
           /\ jobs[j] # NoJob /\ jobs'[j].key = jobs[j].key /\ jobs'[j].uid = jobs[j].uid
           /\ jobs'[j].phase \notin Terminal => jobs[j].phase \notin Terminal /\ j # i
  BY <1>1, <1>2, NoJobAssumption DEF IInv, TypeOK, Job, Terminal
<1>4. CASE m # k
  BY <1>1, <1>3, <1>4, AsideAttended DEF Aside, JobsEnd, IInv, TypeOK
<1>5. CASE m = k
  <2>1. work'[k].op = "delete" /\ work'[k].pod = work[k].pod
    BY <1>1, <1>5 DEF IInv, TypeOK, Work
  <2>2. Copies(k)' /\ Answering(k)'
    BY <1>1, <1>5, <2>1 DEF Attended, Copies, CopyOK, Answering
  <2>3. Shown(k)' /\ First(k)' /\ Leaving(k)'
    BY <1>1, <1>5, <2>1 DEF Attended, Shown, First, Leaving, Notified
  <2>4. Held(k)'
    BY <1>1, <1>3, <1>5, <2>1 DEF Attended, Held, Received, Kept, Canceling, i
  <2>5. QED BY <2>2, <2>3, <2>4 DEF Attended
<1>6. QED BY <1>4, <1>5

\* CreatePod is there to receive the answer to its request.
LEMMA RequestAttended ==
  ASSUME IInv, OInv, Calm, NEW k \in Key, Attended(k), NEW r \in requests, Attended(r.key),
         SbatchFails(r) \/ \E j \in JobId : Sbatch(r, j)
  PROVE  Attended(k)'
<1>1. /\ r \in Request /\ r.key \in Key /\ work[r.key] \in Work
      /\ UNCHANGED <<uids, k8s, deleting, pods, note, queue, Untracked>>
      /\ requests' = requests \ {r}
  BY TypesOf DEF IInv, TypeOK, Request, Sbatch, SbatchFails, kubeVars, provVars
<1>2. /\ r.key \notin Untracked /\ work[r.key].op = "create" /\ work[r.key].stage = "rpc"
      /\ work[r.key].pod.uid = r.uid /\ r.run = 0
      /\ \A q \in requests : q.key = r.key => q = r
  <2>1. \A q \in requests : q \in Request /\ q.run = 0
    BY DEF IInv, TypeOK, OInv, SentOnce, Calm
  <2>2. \A q \in requests : q.key = r.key => q.uid = r.uid
    BY DEF Attended, Answering
  <2>3. QED BY <2>1, <2>2 DEF Attended, Answering, Request
<1>3. Awaits(r)
  BY <1>2 DEF Awaits, Calm
<1>4. CASE SbatchFails(r)
  <2>1. work' = [work EXCEPT ![r.key].stage = "failed"] /\ jobs' = jobs
    BY <1>3, <1>4 DEF SbatchFails
  <2>2. CASE r.key # k
    BY <1>1, <2>1, <2>2, AsideAttended DEF Aside, JobsEnd, IInv, TypeOK
  <2>3. CASE r.key = k
    <3>1. work'[k].op = "create" /\ work'[k].pod = work[k].pod
      BY <1>1, <1>2, <2>1, <2>3 DEF IInv, TypeOK, Work
    <3>2. Copies(k)' /\ Answering(k)'
      BY <1>1, <1>2, <2>3, <3>1 DEF Attended, Copies, CopyOK, Answering
    <3>3. Shown(k)' /\ First(k)' /\ Leaving(k)'
      BY <1>1, <1>2, <2>3, <3>1 DEF Attended, Shown, First, Leaving, Notified
    <3>4. Held(k)'
      BY <1>1, <1>2, <2>1, <2>3 DEF Attended, Held, Received, Kept, Canceling
    <3>5. QED BY <3>2, <3>3, <3>4 DEF Attended
  <2>4. QED BY <2>2, <2>3
<1>5. ASSUME NEW j \in JobId, Sbatch(r, j)
      PROVE  Attended(k)'
  <2> DEFINE new == [key |-> r.key, uid |-> r.uid, phase |-> "Pending"]
  <2>1. /\ work' = [work EXCEPT ![r.key].stage = "answered", ![r.key].answer = j]
        /\ jobs'[j] = new /\ \A i \in JobId \ {j} : jobs'[i] = jobs[i]
    BY <1>3, <1>5 DEF Sbatch, IInv, TypeOK
  <2>2. new.key = r.key /\ new.uid = r.uid
    OBVIOUS
  <2> HIDE DEF new
  <2>3. CASE r.key # k
    <3>1. JobsEnd(k)
      BY <2>1, <2>2, <2>3 DEF JobsEnd
    <3>2. QED BY <1>1, <2>1, <2>3, <3>1, AsideAttended DEF Aside, IInv, TypeOK
  <2>4. CASE r.key = k
    <3>1. /\ work'[k].op = "create" /\ work'[k].pod = work[k].pod
          /\ work'[k].stage = "answered" /\ work'[k].answer = j
      BY <1>1, <1>2, <2>1, <2>4 DEF IInv, TypeOK, Work
    <3>2. Copies(k)' /\ Answering(k)'
      BY <1>1, <1>2, <2>4, <3>1 DEF Attended, Copies, CopyOK, Answering
    <3>3. Shown(k)' /\ First(k)' /\ Leaving(k)'
      BY <1>1, <1>2, <2>4, <3>1 DEF Attended, Shown, First, Leaving, Notified
    <3>4. Held(k)'
      BY <1>1, <1>2, <2>1, <2>2, <2>4, <3>1 DEF Attended, Held, Received, Kept, Canceling
    <3>5. QED BY <3>2, <3>3, <3>4 DEF Attended
  <2>5. QED BY <2>3, <2>4
<1>6. QED BY <1>4, <1>5

LEMMA StatusAttended ==
  ASSUME IInv, NEW k \in Key, Attended(k),
         \/ \E j \in JobId : PollTracked(j) \/ RunJob(j)
         \/ \E m \in Key : PollUntracked(m) \/ RunExternal(m)
         \/ LookupTracked \/ ApplyStatus
  PROVE  Attended(k)'
<1>1. UNCHANGED <<k8s, deleting, uids, queue, work, requests, Untracked>>
  BY DEF PollTracked, RunJob, PollUntracked, RunExternal, LookupTracked, ApplyStatus,
         kubeVars, vkVars, slurmVars, IInv, TypeOK
<1>2. JobsEnd(k)
  <2>1. CASE \E j \in JobId : RunJob(j)
    <3>1. PICK j \in JobId, p \in Phase :
            /\ jobs[j] # NoJob /\ jobs[j].phase \notin Terminal
            /\ jobs' = [jobs EXCEPT ![j].phase = p]
      BY <2>1 DEF RunJob, Moves, Phase, Terminal
    <3>2. jobs[j] \in Job
      BY <3>1, TypesOf DEF IInv, TypeOK
    <3>3. QED BY <3>1, <3>2 DEF JobsEnd, IInv, TypeOK, Job
  <2>2. CASE jobs' = jobs
    BY <2>2 DEF JobsEnd
  <2>3. QED
    BY <2>1, <2>2 DEF PollTracked, PollUntracked, RunExternal, LookupTracked, ApplyStatus,
                      slurmVars
<1>3. CASE UNCHANGED <<pods[k], note[k]>>
  BY <1>1, <1>2, <1>3, AsideAttended DEF Aside
<1>4. CASE ApplyStatus /\ ~UNCHANGED <<pods[k], note[k]>>
  <2>1. update \in Update /\ update.key \in Key /\ update.phase \in Phase
    BY <1>4 DEF ApplyStatus, IInv, TypeOK, Update
  <2> DEFINE p == [pods[k] EXCEPT !.phase = update.phase, !.message = "status updated"]
  <2>2. update.key = k /\ pods[k] # NoPod /\ Store(k, p) /\ jobs' = jobs
    BY <1>4, <2>1 DEF ApplyStatus, Store, Notify, IInv, TypeOK, slurmVars
  <2>3. pods[k] \in Pod
    BY <2>2, TypesOf
  <2>4. p \in Pod /\ p.id = pods[k].id /\ p.uid = pods[k].uid /\ p.edit = pods[k].edit
    BY <2>1, <2>3 DEF Pod, Message
  <2>5. pods'[k] = p /\ (note'[k] = p \/ note'[k] = note[k]) /\ p # NoPod
    BY <2>2, <2>4, NoPodAssumption DEF Store, Notify, IInv, TypeOK
  <2> HIDE DEF p
  <2>6. work[k].op \in {"none", "create", "update", "delete"}
    BY TypesOf DEF Work
  <2>7. Copies(k)' /\ Answering(k)'
    BY <1>1, <2>2, <2>4, <2>5 DEF Attended, Copies, CopyOK, Answering
  <2>8. Shown(k)' /\ First(k)' /\ Leaving(k)'
    BY <1>1, <2>2, <2>4, <2>5, <2>6 DEF Attended, Shown, First, Leaving, Notified
  <2>9. Held(k)'
    BY <1>1, <2>2, <2>4, <2>5 DEF Attended, Held, Received, Kept, Canceling, Notified
  <2>10. QED BY <2>7, <2>8, <2>9 DEF Attended
<1>5. QED
  BY <1>3, <1>4 DEF PollTracked, RunJob, PollUntracked, RunExternal, LookupTracked, vkVars,
                    provVars

LEMMA NextAInv == IInv /\ OInv /\ AInv /\ [Next]_vars => AInv'
<1> SUFFICES ASSUME IInv, OInv, AInv, [Next]_vars, Calm', NEW k \in Key PROVE Attended(k)'
  BY DEF AInv
<1>1. Calm
  <2>1. edits \in Nat /\ fails \in Nat /\ restarts \in Nat
    BY ProviderAssumption DEF IInv, TypeOK
  <2>2. CASE UNCHANGED bounds
    BY <2>2 DEF bounds, Calm
  <2>3. CASE \E m \in Key : EditObject(m) \/ LoseCreate(m) \/ LoseDelete(m)
    BY <2>1, <2>3 DEF EditObject, LoseCreate, LoseDelete, Calm
  <2>4. CASE \E r \in requests : SbatchFails(r)
    BY <2>1, <2>4 DEF SbatchFails, Calm
  <2>5. CASE RestartController \/ RestartInstance
    BY <2>1, <2>5 DEF RestartController, RestartInstance, FreshInstance, Calm
  <2>6. CASE \E m \in Key : Provider(m)
    BY <2>2, <2>6 DEF Provider, CreatePod, EndCreate, UpdatePod, DeletePod, EndDelete
  <2>7. QED
    BY <2>2, <2>3, <2>4, <2>5, <2>6
    DEF Next, Agent, vars, CreateObject, DeleteObject, SyncPod, PushStatus, RemoveObject,
        Scancel, Sbatch, PollTracked, RunJob, PollUntracked, RunExternal, LookupTracked,
        ApplyStatus
<1>2. \A m \in Key : Attended(m)
  BY <1>1 DEF AInv
<1>3. CASE UNCHANGED vars
  BY <1>2, <1>3, AsideAttended DEF Aside, JobsEnd, vars, kubeVars, vkVars, provVars, slurmVars
<1>4. CASE \E m \in Key : CreateObject(m)
  BY <1>2, <1>4, CreateObjectAttended
<1>5. CASE \E m \in Key : DeleteObject(m) \/ PushStatus(m) \/ RemoveObject(m)
  BY <1>2, <1>5, KubernetesAttended
<1>6. CASE \E m \in Key : SyncPod(m)
  BY <1>2, <1>6, SyncAttended
<1>7. ASSUME NEW m \in Key, Provider(m)
      PROVE  Attended(k)'
  <2>1. CASE m # k
    BY <1>2, <1>7, <2>1, OthersAside, AsideAttended
  <2>2. CASE m = k
    BY <1>2, <1>7, <2>2, CreateAttended, UpdateAttended, DeleteAttended DEF Provider
  <2>3. QED BY <2>1, <2>2
<1>8. CASE \E m \in Key : Scancel(m)
  BY <1>2, <1>8, ScancelAttended
<1>9. CASE \E r \in requests : SbatchFails(r) \/ \E j \in JobId : Sbatch(r, j)
  <2>1. \A r \in requests : r.key \in Key
    BY DEF IInv, TypeOK, Request
  <2>2. QED BY <1>1, <1>2, <1>9, <2>1, RequestAttended
<1>10. CASE \/ \E j \in JobId : PollTracked(j) \/ RunJob(j)
            \/ \E m \in Key : PollUntracked(m) \/ RunExternal(m)
            \/ LookupTracked \/ ApplyStatus
  BY <1>2, <1>10, StatusAttended
<1>11. CASE \/ \E m \in Key : EditObject(m) \/ LoseCreate(m) \/ LoseDelete(m)
            \/ RestartController \/ RestartInstance
  BY <1>1, <1>11 DEF EditObject, LoseCreate, LoseDelete, RestartController, RestartInstance,
                     FreshInstance, Calm
<1>12. QED
  BY <1>3, <1>4, <1>5, <1>6, <1>7, <1>8, <1>9, <1>10, <1>11 DEF Next, Agent

\* The object of an active job is known to someone who will cancel the job when
\* the object is deleted, as long as there are no edits, errors and restarts:
\* from the answer of sbatch to scancel, somebody holds the job's identifier.
THEOREM NoJobIsForgotten == Spec => []NoOrphan
<1>1. IInv /\ AInv => NoOrphan
  <2> SUFFICES ASSUME IInv, AInv, Calm, NEW j \in JobId, jobs[j] # NoJob,
                      jobs[j].phase \notin Terminal, uids[jobs[j].key] = jobs[j].uid
               PROVE  Known(jobs[j].key, jobs[j].uid)
    BY DEF NoOrphan, Calm
  <2> DEFINE k == jobs[j].key
  <2>1. k \in Key
    BY TypesOf DEF IInv, TypeOK, Job
  <2>2. Received(k, j) \/ Kept(k, j) \/ Canceling(k, j)
    BY <2>1 DEF AInv, Attended, Held
  <2>3. work[k].op # "none" => work[k].pod # NoPod
    BY <2>1, ArgumentOK, NoPodAssumption
  <2>4. QED BY <2>2, <2>3 DEF Received, Kept, Canceling, Known
<1>2. QED BY <1>1, InitIInv, NextIInv, InitOInv, NextOInv, InitAInv, NextAInv, PTL DEF Spec

-----------------------------------------------------------------------------
(* What Kubernetes and the agent see is what PodJobs promises.               *)

\* No copy of a Pod is of an object that does not exist yet.
Earlier(k) == \A p \in {pods[k], note[k], work[k].pod} : p # NoPod => p.uid <= uids[k]

\* Nothing is waiting to be pushed over the object.
Quiet(k) == note[k] # NoPod => note[k].uid # k8s[k].uid

\* What the provider does not know of has not been notified either.
Unknown(k) == pods[k] = NoPod /\ k8s[k] # NoPod /\ k \notin deleting => Quiet(k)

\* CreatePod is called with what the object still shows, which stays until
\* CreatePod has ended.
Creating(k) ==
  work[k].op = "create" =>
    /\ pods[k] = NoPod
    /\ k8s[k] # NoPod /\ k8s[k].uid = work[k].pod.uid /\ k \notin removal
    /\ work[k].stage = "called" =>
         k8s[k].id = work[k].pod.id /\ k8s[k].phase \notin Terminal /\ Quiet(k)

\* DeletePod is called for an object that a user has deleted, or that is gone.
Condemned(k, u) == k8s[k] = NoPod \/ k8s[k].uid # u \/ k \in deleting
Ending(k) == work[k].op = "delete" => Condemned(k, work[k].pod.uid)

\* Only an object that a user has deleted is removed.
Removing(k) == (k \in removal => k \in deleting) /\ (k \in deleting => k8s[k] # NoPod)

Promised(k) == Earlier(k) /\ Unknown(k) /\ Creating(k) /\ Ending(k) /\ Removing(k)

VInv == /\ \A r \in requests : r.key \notin Untracked
        /\ \A k \in Key : Promised(k)

LEMMA InitVInv == Init => VInv
  BY DEF Init, VInv, Promised, Earlier, Quiet, Unknown, Creating, Ending, Removing, Idle

\* A step that moves no copy of the Pods of a name, and at most edits the
\* object, carries on a call or takes it away from the pod controller.
Steady(k) ==
  /\ UNCHANGED <<uids[k], pods[k], note[k]>>
  /\ \/ k8s'[k] = k8s[k]
     \/ /\ k8s[k] # NoPod /\ k8s'[k] # NoPod /\ k8s'[k].uid = k8s[k].uid
        /\ k8s'[k].id = k8s[k].id /\ k8s'[k].phase = k8s[k].phase
  /\ k \in deleting' <=> k \in deleting
  /\ k \in removal' <=> k \in removal
  /\ \/ work'[k] = work[k]
     \/ /\ work'[k].op = work[k].op /\ work'[k].pod.uid = work[k].pod.uid
        /\ work'[k].pod # NoPod => work[k].pod # NoPod
        /\ work'[k].stage # "called"

LEMMA SteadyPromised ==
  ASSUME NEW k \in Key, Promised(k), Steady(k)
  PROVE  Promised(k)'
<1>1. Earlier(k)' /\ Unknown(k)' /\ Removing(k)'
  BY DEF Promised, Steady, Earlier, Quiet, Unknown, Removing
<1>2. Creating(k)'
  BY DEF Promised, Steady, Creating, Quiet
<1>3. Ending(k)'
  BY DEF Promised, Steady, Ending, Condemned
<1>4. QED BY <1>1, <1>2, <1>3 DEF Promised

LEMMA UsersPromised ==
  ASSUME IInv, OInv, NEW k \in Key, NEW m \in Key, Promised(k),
         CreateObject(m) \/ EditObject(m) \/ DeleteObject(m) \/ PushStatus(m) \/ RemoveObject(m)
  PROVE  Promised(k)'
<1>1. UNCHANGED <<pods, work>>
  BY DEF CreateObject, EditObject, DeleteObject, PushStatus, RemoveObject, provVars
<1>2. CASE m # k
  BY <1>1, <1>2, SteadyPromised
  DEF CreateObject, EditObject, DeleteObject, PushStatus, RemoveObject, Steady, IInv, TypeOK
<1>3. CASE m = k /\ CreateObject(k)
  <2>1. /\ uids'[k] = uids[k] + 1 /\ uids[k] \in Nat
        /\ k8s[k] = NoPod /\ k8s'[k].uid = uids[k] + 1
        /\ UNCHANGED <<note, deleting, removal>>
    BY <1>3, TypesOf DEF CreateObject, IInv, TypeOK
  <2>2. \A p \in {pods[k], note[k], work[k].pod} : p # NoPod => p.uid \in Nat /\ p.uid <= uids[k]
    BY TypesOf DEF Promised, Earlier
  <2>3. work[k].op # "none" => work[k].pod # NoPod
    BY ArgumentOK, NoPodAssumption
  <2>4. QED
    BY <1>1, <2>1, <2>2, <2>3
    DEF Promised, Earlier, Quiet, Unknown, Creating, Ending, Condemned, Removing
<1>4. CASE m = k /\ EditObject(k)
  <2>1. k8s[k] \in Pod /\ k8s'[k] = [k8s[k] EXCEPT !.edit = edits + 1] /\ edits + 1 \in 0..MaxEdit
    BY <1>4, ProviderAssumption DEF EditObject, IInv, TypeOK
  <2>2. /\ k8s'[k] \in Pod /\ k8s'[k].uid = k8s[k].uid /\ k8s'[k].id = k8s[k].id
        /\ k8s'[k].phase = k8s[k].phase
    BY <2>1 DEF Pod
  <2>3. QED BY <1>1, <1>4, <2>1, <2>2, SteadyPromised, NoPodAssumption DEF EditObject, Steady
<1>5. CASE m = k /\ DeleteObject(k)
  <2>1. UNCHANGED <<uids, k8s, note, removal>> /\ k8s[k] # NoPod /\ k \in deleting'
    BY <1>5 DEF DeleteObject
  <2>2. QED
    BY <1>1, <2>1
    DEF Promised, Earlier, Quiet, Unknown, Creating, Ending, Condemned, Removing
<1>6. CASE m = k /\ RemoveObject(k)
  <2>1. /\ k \in removal /\ k \notin removal' /\ k \notin deleting' /\ uids' = uids
        /\ k8s'[k] = NoPod /\ note'[k] = NoPod
    BY <1>6 DEF RemoveObject, IInv, TypeOK
  <2>2. QED
    BY <1>1, <2>1
    DEF Promised, Earlier, Quiet, Unknown, Creating, Ending, Condemned, Removing
<1>7. CASE m = k /\ PushStatus(k)
  <2>1. /\ note'[k] = NoPod /\ UNCHANGED <<uids, deleting, removal>>
        /\ \/ k8s'[k] = k8s[k]
           \/ /\ k8s[k] # NoPod /\ note[k] # NoPod /\ k8s[k].uid = note[k].uid
              /\ k8s'[k] = note[k]
    BY <1>7 DEF PushStatus, IInv, TypeOK
  <2>2. QED
    BY <1>1, <2>1
    DEF Promised, Earlier, Quiet, Unknown, Creating, Ending, Condemned, Removing
<1>8. QED BY <1>2, <1>3, <1>4, <1>5, <1>6, <1>7

\* The pod controller decides on a call by what the object shows.
LEMMA SyncPromised ==
  ASSUME IInv, OInv, NEW k \in Key, NEW m \in Key, Promised(k), SyncPod(m)
  PROVE  Promised(k)'
<1>1. /\ UNCHANGED <<k8s, deleting, uids, pods, note>>
      /\ work[m] = Idle
      /\ \A n \in Key \ {m} : work'[n] = work[n]
      /\ m # k => (k \in removal' <=> k \in removal)
  BY DEF SyncPod, IInv, TypeOK, kubeVars, provVars
<1>2. CASE m # k
  BY <1>1, <1>2, SteadyPromised DEF Steady
<1>3. CASE m = k /\ work'[k] = work[k]
  <2>1. k \in removal' => k \in removal \/ k \in deleting
    BY <1>3 DEF SyncPod
  <2>2. QED
    BY <1>1, <1>3, <2>1
    DEF Promised, Earlier, Quiet, Unknown, Creating, Ending, Condemned, Removing, Idle
<1>4. CASE m = k /\ work'[k] # work[k]
  <2>1. /\ removal' = removal
        /\ \/ work'[k] = Call("delete", pods[k]) /\ k8s[k] = NoPod
           \/ work'[k] = Call("delete", k8s[k]) /\ k8s[k] # NoPod /\ k \in deleting
           \/ /\ work'[k] = Call("create", k8s[k]) /\ k8s[k] # NoPod /\ k \notin deleting
              /\ k8s[k].phase \notin Terminal /\ pods[k] = NoPod
           \/ work'[k] = Call("update", k8s[k]) /\ k8s[k] # NoPod
    BY <1>4 DEF SyncPod, IInv, TypeOK
  <2>2. k8s[k] # NoPod => k8s[k].uid <= uids[k]
    BY TypesOf DEF OInv, Numbered
  <2>3. Earlier(k)'
    BY <1>1, <2>1, <2>2 DEF Promised, Earlier, Call
  <2>4. Unknown(k)' /\ Removing(k)'
    BY <1>1, <2>1 DEF Promised, Unknown, Quiet, Removing
  <2>5. Creating(k)' /\ Ending(k)'
    BY <1>1, <2>1 DEF Promised, Unknown, Quiet, Creating, Ending, Condemned, Removing, Call
  <2>6. QED BY <2>3, <2>4, <2>5 DEF Promised
<1>5. QED BY <1>2, <1>3, <1>4

\* The frame of a provider call, for the other names.
LEMMA OthersSteady ==
  ASSUME IInv, NEW k \in Key, NEW m \in Key \ {k}, Provider(m)
  PROVE  Steady(k)
<1>1. CASE CreatePod(m)
  BY <1>1 DEF CreatePod, FinishCreate, Store, Notify, Steady, IInv, TypeOK, kubeVars
<1>2. CASE EndCreate(m)
  BY <1>2 DEF EndCreate, FinishCreate, Store, Notify, Steady, IInv, TypeOK, kubeVars
<1>3. CASE UpdatePod(m)
  BY <1>3 DEF UpdatePod, Store, Notify, Steady, IInv, TypeOK, kubeVars
<1>4. CASE DeletePod(m)
  BY <1>4 DEF DeletePod, FinishDelete, ScheduleRemoval, Notify, Steady, IInv, TypeOK, kubeVars
<1>5. CASE EndDelete(m)
  BY <1>5 DEF EndDelete, FinishDelete, ScheduleRemoval, Notify, Steady, IInv, TypeOK, kubeVars
<1>6. QED BY <1>1, <1>2, <1>3, <1>4, <1>5 DEF Provider

\* A call, or a status, that ends with a Pod of a known object being kept.
LEMMA StorePromised ==
  ASSUME IInv, NEW k \in Key, Promised(k), NEW p \in Pod, p.uid <= uids[k], Store(k, p),
         \/ work'[k] = Idle
         \/ work'[k] = work[k] /\ pods[k] # NoPod,
         UNCHANGED <<k8s, deleting, uids, removal>>
  PROVE  Promised(k)'
<1>1. pods'[k] = p /\ (note'[k] = p \/ note'[k] = note[k]) /\ p # NoPod
  BY NoPodAssumption DEF Store, Notify, IInv, TypeOK
<1>2. Earlier(k)'
  BY <1>1 DEF Promised, Earlier, Idle
<1>3. Unknown(k)' /\ Removing(k)'
  BY <1>1 DEF Promised, Unknown, Removing
<1>4. Creating(k)' /\ Ending(k)'
  BY DEF Promised, Creating, Ending, Condemned, Idle
<1>5. QED BY <1>2, <1>3, <1>4 DEF Promised

LEMMA FinishPromised ==
  ASSUME IInv, NEW k \in Key, Promised(k), NEW p \in Pod, FinishCreate(k, p),
         p.uid = work[k].pod.uid, work[k].pod \in Pod,
         UNCHANGED <<k8s, deleting, uids, removal>>
  PROVE  Promised(k)'
<1> DEFINE q == [p EXCEPT !.message = "created"]
<1>1. q \in Pod /\ q.uid = p.uid
  BY DEF Pod, Message
<1>2. Store(k, q) /\ work'[k] = Idle
  BY DEF FinishCreate, IInv, TypeOK
<1> HIDE DEF q
<1>3. q.uid <= uids[k]
  BY <1>1, NoPodAssumption DEF Promised, Earlier
<1>4. QED BY <1>1, <1>2, <1>3, StorePromised

LEMMA CreatePromised ==
  ASSUME IInv, NEW k \in Key, Promised(k), CreatePod(k) \/ EndCreate(k) \/ UpdatePod(k)
  PROVE  Promised(k)'
<1>1. work[k].pod \in Pod
  BY ArgumentOK DEF CreatePod, EndCreate, UpdatePod
<1>2. CASE CreatePod(k)
  <2>1. Loaded(k) \in Pod /\ Loaded(k).uid = work[k].pod.uid
    <3>1. pendingStatus[k] # NoPod => pendingStatus[k] \in Phase
      BY DEF IInv, TypeOK
    <3>2. QED BY <1>1, <3>1 DEF Loaded, Pod
  <2>2. UNCHANGED <<k8s, deleting, uids, removal>>
    BY <1>2 DEF CreatePod, kubeVars
  <2>3. CASE NeedsDispatch(k)
    <3>1. /\ UNCHANGED <<pods, note>>
          /\ work'[k].op = work[k].op /\ work'[k].pod = Loaded(k) /\ work'[k].stage = "rpc"
      BY <1>2, <2>3, TypesOf DEF CreatePod, IInv, TypeOK, Work
    <3>2. Steady(k)
      BY <1>1, <2>1, <2>2, <3>1, NoPodAssumption DEF Steady
    <3>3. QED BY <3>2, SteadyPromised
  <2>4. CASE ~NeedsDispatch(k)
    <3>1. FinishCreate(k, Loaded(k))
      BY <1>2, <2>4 DEF CreatePod
    <3>2. QED BY <1>1, <2>1, <2>2, <3>1, FinishPromised
  <2>5. QED BY <2>3, <2>4
<1>3. CASE EndCreate(k) /\ work[k].stage = "answered"
  <2> DEFINE p == [work[k].pod EXCEPT !.id = work[k].answer]
  <2>1. work[k].answer \in JobId
    BY <1>3 DEF EndCreate, IInv, CallOK, Idle
  <2>2. p \in Pod /\ p.uid = work[k].pod.uid
    BY <1>1, <2>1 DEF Pod
  <2>3. FinishCreate(k, p) /\ UNCHANGED <<k8s, deleting, uids, removal>>
    BY <1>3 DEF EndCreate, kubeVars
  <2> HIDE DEF p
  <2>4. QED BY <1>1, <2>2, <2>3, FinishPromised
<1>4. CASE EndCreate(k) /\ work[k].stage = "failed"
  <2> DEFINE p == [work[k].pod EXCEPT !.phase = "Failed"]
  <2>1. p \in Pod /\ p.uid = work[k].pod.uid
    BY <1>1 DEF Pod, Phase
  <2>2. FinishCreate(k, p) /\ UNCHANGED <<k8s, deleting, uids, removal>>
    BY <1>4 DEF EndCreate, kubeVars
  <2> HIDE DEF p
  <2>3. QED BY <1>1, <2>1, <2>2, FinishPromised
<1>5. CASE UpdatePod(k)
  <2> DEFINE p == [work[k].pod EXCEPT !.message = "updated"]
  <2>1. p \in Pod /\ p.uid = work[k].pod.uid
    BY <1>1 DEF Pod, Message
  <2>2. Store(k, p) /\ work'[k] = Idle /\ UNCHANGED <<k8s, deleting, uids, removal>>
    BY <1>5 DEF UpdatePod, IInv, TypeOK, kubeVars
  <2> HIDE DEF p
  <2>3. p.uid <= uids[k]
    BY <1>1, <2>1, NoPodAssumption DEF Promised, Earlier
  <2>4. QED BY <2>1, <2>2, <2>3, StorePromised
<1>6. QED BY <1>2, <1>3, <1>4, <1>5 DEF EndCreate

\* What DeletePod forgets and notifies is an object that is condemned.
LEMMA DeletePromised ==
  ASSUME IInv, NEW k \in Key, Promised(k), DeletePod(k) \/ EndDelete(k)
  PROVE  Promised(k)'
<1> DEFINE p == [work[k].pod EXCEPT !.phase = "Succeeded", !.message = "deleted"]
<1>1. work[k].pod \in Pod /\ work[k].op = "delete"
  BY ArgumentOK DEF DeletePod, EndDelete
<1>2. p \in Pod /\ p.uid = work[k].pod.uid
  BY <1>1 DEF Pod, Phase, Message
<1>3. /\ UNCHANGED <<k8s, deleting, uids>>
      /\ k \in removal' => k \in removal \/ k \in deleting
      /\ \/ /\ work'[k].op = "delete" /\ work'[k].pod = work[k].pod
            /\ UNCHANGED <<pods, note>>
         \/ work'[k] = Idle /\ UNCHANGED <<pods, note>>
         \/ /\ work'[k] = Idle /\ pods'[k] = NoPod
            /\ note'[k] = IF k8s[k] # NoPod THEN p ELSE note[k]
  BY <1>1, TypesOf
  DEF DeletePod, EndDelete, FinishDelete, ScheduleRemoval, Notify, IInv, TypeOK, Work, kubeVars
<1> HIDE DEF p
<1>4. Condemned(k, p.uid)
  BY <1>1, <1>2 DEF Promised, Ending
<1>5. p.uid <= uids[k]
  BY <1>1, <1>2, NoPodAssumption DEF Promised, Earlier
<1>6. Earlier(k)'
  BY <1>3, <1>5 DEF Promised, Earlier, Idle
<1>7. Unknown(k)' /\ Removing(k)'
  BY <1>3, <1>4 DEF Promised, Unknown, Quiet, Removing, Condemned
<1>8. Creating(k)' /\ Ending(k)'
  BY <1>1, <1>3 DEF Promised, Creating, Ending, Condemned, Idle
<1>9. QED BY <1>6, <1>7, <1>8 DEF Promised

LEMMA AgentPromised ==
  ASSUME IInv, NEW k \in Key, Promised(k),
         \/ \E m \in Key : Agent(m)
         \/ \E r \in requests : SbatchFails(r) \/ \E j \in JobId : Sbatch(r, j)
  PROVE  Promised(k)'
<1>1. work[k] \in Work
  BY TypesOf
<1>2. Steady(k)
  <2>1. CASE \E m \in Key : LoseCreate(m)
    BY <1>1, <2>1 DEF LoseCreate, Steady, IInv, TypeOK, Work, kubeVars, provVars
  <2>2. CASE \E m \in Key : Scancel(m)
    BY <1>1, <2>2 DEF Scancel, Steady, IInv, TypeOK, Work, kubeVars, provVars
  <2>3. CASE \E m \in Key : LoseDelete(m)
    BY <1>1, <2>3 DEF LoseDelete, Steady, IInv, TypeOK, Work, kubeVars, provVars
  <2>4. CASE \E r \in requests : SbatchFails(r)
    BY <1>1, <2>4 DEF SbatchFails, Awaits, Steady, IInv, TypeOK, Work, kubeVars, provVars
  <2>5. CASE \E r \in requests, j \in JobId : Sbatch(r, j)
    BY <1>1, <2>5 DEF Sbatch, Awaits, Steady, IInv, TypeOK, Work, kubeVars, provVars
  <2>6. QED BY <2>1, <2>2, <2>3, <2>4, <2>5 DEF Agent
<1>3. QED BY <1>2, SteadyPromised

LEMMA StatusPromised ==
  ASSUME IInv, NEW k \in Key, Promised(k),
         \/ \E j \in JobId : PollTracked(j) \/ RunJob(j)
         \/ \E m \in Key : PollUntracked(m) \/ RunExternal(m)
         \/ LookupTracked \/ ApplyStatus
  PROVE  Promised(k)'
<1>1. UNCHANGED <<k8s, deleting, uids, work, removal>>
  BY DEF PollTracked, RunJob, PollUntracked, RunExternal, LookupTracked, ApplyStatus,
         kubeVars, vkVars
<1>2. CASE UNCHANGED <<pods[k], note[k]>>
  BY <1>1, <1>2, SteadyPromised DEF Steady
<1>3. CASE ApplyStatus /\ ~UNCHANGED <<pods[k], note[k]>>
  <2>1. update \in Update /\ update.key \in Key /\ update.phase \in Phase
    BY <1>3 DEF ApplyStatus, IInv, TypeOK, Update
  <2> DEFINE p == [pods[k] EXCEPT !.phase = update.phase, !.message = "status updated"]
  <2>2. update.key = k /\ pods[k] # NoPod /\ Store(k, p)
    BY <1>3, <2>1 DEF ApplyStatus, Store, Notify, IInv, TypeOK
  <2>3. pods[k] \in Pod
    BY <2>2, TypesOf
  <2>4. p \in Pod /\ p.uid = pods[k].uid
    BY <2>1, <2>3 DEF Pod, Message
  <2> HIDE DEF p
  <2>5. p.uid <= uids[k]
    BY <2>2, <2>4 DEF Promised, Earlier
  <2>6. QED BY <1>1, <2>2, <2>4, <2>5, StorePromised
<1>4. QED
  BY <1>2, <1>3 DEF PollTracked, RunJob, PollUntracked, RunExternal, LookupTracked, vkVars,
                    provVars

LEMMA RestartPromised ==
  ASSUME NEW k \in Key, Promised(k), RestartController \/ RestartInstance
  PROVE  Promised(k)'
<1>1. /\ pods'[k] = NoPod /\ work'[k] = Idle /\ note'[k] = NoPod /\ k \notin removal'
      /\ UNCHANGED <<k8s, uids, deleting>>
  BY DEF RestartController, RestartInstance, FreshInstance, kubeVars
<1>2. QED
  BY <1>1 DEF Promised, Earlier, Quiet, Unknown, Creating, Ending, Removing, Idle

LEMMA NextVInv == IInv /\ OInv /\ VInv /\ [Next]_vars => VInv'
<1> SUFFICES ASSUME IInv, OInv, VInv, [Next]_vars PROVE VInv'
  OBVIOUS
<1>1. \A r \in requests' : r.key \notin Untracked'
  <2>1. Untracked' = Untracked
    BY JobsLastStep
  <2>2. CASE \E k \in Key : CreatePod(k)
    BY <2>1, <2>2 DEF CreatePod, NeedsDispatch, IsTracked, VInv
  <2>3. CASE requests' \subseteq requests
    BY <2>1, <2>3 DEF VInv
  <2>4. QED
    BY <2>2, <2>3
    DEF Next, vars, slurmVars, CreateObject, EditObject, DeleteObject, SyncPod, PushStatus,
        RemoveObject, Provider, EndCreate, UpdatePod, DeletePod, EndDelete, Agent,
        LoseCreate, Scancel, LoseDelete, SbatchFails, Sbatch, PollTracked, RunJob,
        PollUntracked, RunExternal, LookupTracked, ApplyStatus, RestartController,
        RestartInstance, FreshInstance
<1>2. ASSUME NEW k \in Key
      PROVE  Promised(k)'
  <2> Promised(k)
    BY DEF VInv
  <2>1. CASE UNCHANGED vars
    BY <2>1, SteadyPromised DEF Steady, vars, kubeVars, vkVars, provVars
  <2>2. CASE \E m \in Key : CreateObject(m) \/ EditObject(m) \/ DeleteObject(m)
                            \/ PushStatus(m) \/ RemoveObject(m)
    BY <2>2, UsersPromised
  <2>3. CASE \E m \in Key : SyncPod(m)
    BY <2>3, SyncPromised
  <2>4. ASSUME NEW m \in Key, Provider(m)
        PROVE  Promised(k)'
    <3>1. CASE m # k
      BY <2>4, <3>1, OthersSteady, SteadyPromised
    <3>2. CASE m = k
      BY <2>4, <3>2, CreatePromised, DeletePromised DEF Provider
    <3>3. QED BY <3>1, <3>2
  <2>5. CASE \/ \E m \in Key : Agent(m)
             \/ \E r \in requests : SbatchFails(r) \/ \E j \in JobId : Sbatch(r, j)
    BY <2>5, AgentPromised
  <2>6. CASE \/ \E j \in JobId : PollTracked(j) \/ RunJob(j)
             \/ \E m \in Key : PollUntracked(m) \/ RunExternal(m)
             \/ LookupTracked \/ ApplyStatus
    BY <2>6, StatusPromised
  <2>7. CASE RestartController \/ RestartInstance
    BY <2>7, RestartPromised
  <2>8. QED BY <2>1, <2>2, <2>3, <2>4, <2>5, <2>6, <2>7 DEF Next
<1>3. QED BY <1>1, <1>2 DEF VInv

\* What is shown of an object, and how what is seen changes with one name.
LEMMA ShownPodOf ==
  ASSUME IInv, NEW k \in Key
  PROVE  /\ ShownPods[k] = ShownPod(k) /\ Cancels[k] = Canceled(k)
         /\ k8s[k] = NoPod => ShownPod(k) = NoPod
         /\ k8s[k] # NoPod => /\ ShownPod(k) # NoPod
                              /\ ShownPod(k).uid = k8s[k].uid
                              /\ ShownPod(k).id = k8s[k].id
                              /\ ShownPod(k).phase = k8s[k].phase
<1>1. ShownPods[k] = ShownPod(k) /\ Cancels[k] = Canceled(k)
  BY DEF ShownPods, Cancels
<1>2. k8s[k] # NoPod => ShownPod(k) \in View
  BY DEF IInv, TypeOK, ShownPod, Pod, View
<1>3. QED BY <1>1, <1>2, NoPodAssumption DEF ShownPod

LEMMA ShownChange ==
  ASSUME NEW k \in Key, \A m \in Key \ {k} : k8s'[m] = k8s[m]
  PROVE  ShownPods' = [ShownPods EXCEPT ![k] = ShownPod(k)']
<1>1. \A m \in Key \ {k} : ShownPod(m)' = ShownPod(m)
  BY DEF ShownPod
<1>2. QED BY <1>1 DEF ShownPods

LEMMA CancelsChange ==
  ASSUME NEW k \in Key, \A m \in Key \ {k} : work'[m] = work[m]
  PROVE  Cancels' = [Cancels EXCEPT ![k] = Canceled(k)']
<1>1. \A m \in Key \ {k} : Canceled(m)' = Canceled(m)
  BY DEF Canceled
<1>2. QED BY <1>1 DEF Cancels

LEMMA CancelsSame ==
  ASSUME NEW k \in Key, \A m \in Key \ {k} : work'[m] = work[m], Canceled(k)' = Canceled(k)
  PROVE  Cancels' = Cancels
<1>1. \A m \in Key \ {k} : Canceled(m)' = Canceled(m)
  BY DEF Canceled
<1>2. QED BY <1>1 DEF Cancels

LEMMA ShownSame == ASSUME k8s' = k8s PROVE ShownPods' = ShownPods
  BY DEF ShownPods, ShownPod

-----------------------------------------------------------------------------
LEMMA UsersSeen ==
  ASSUME IInv, VInv, NEW k \in Key,
         CreateObject(k) \/ EditObject(k) \/ DeleteObject(k) \/ RemoveObject(k)
  PROVE  \/ Seen!Create(k) \/ Seen!Delete(k) \/ Seen!Remove(k)
         \/ UNCHANGED Seen!vars
<1>1. UNCHANGED <<work, requests, jobs, restarts, Untracked>>
  BY DEF CreateObject, EditObject, DeleteObject, RemoveObject, slurmVars, bounds
<1>2. Cancels' = Cancels
  BY <1>1 DEF Cancels, Canceled
<1>3. CASE CreateObject(k)
  <2>1. /\ k8s[k] = NoPod /\ uids' = [uids EXCEPT ![k] = @ + 1] /\ deleting' = deleting
        /\ \A m \in Key \ {k} : k8s'[m] = k8s[m]
    BY <1>3 DEF CreateObject, IInv, TypeOK
  <2> DEFINE q == [uid |-> uids[k] + 1, id |-> NoId, edit |-> 0, phase |-> "Pending",
                   message |-> "none"]
  <2>2. k8s'[k] = q
    BY <1>3 DEF CreateObject, IInv, TypeOK
  <2>3. q \in Pod
    <3>1. uids[k] + 1 \in 1..MaxUid /\ 0 \in 0..MaxEdit
      BY <1>3, ProviderAssumption DEF CreateObject, IInv, TypeOK
    <3>2. QED BY <3>1 DEF Pod, Phase, Message
  <2>4. ShownPod(k)' = [uid |-> uids[k] + 1, id |-> NoId, phase |-> "Pending"]
    BY <2>2, <2>3, NoPodAssumption DEF ShownPod
  <2>5. ShownPods' = [ShownPods EXCEPT ![k] = [uid |-> uids[k] + 1, id |-> NoId,
                                               phase |-> "Pending"]]
    BY <2>1, <2>4, ShownChange
  <2>6. ShownPods[k] = NoPod
    BY <2>1, ShownPodOf
  <2>7. QED BY <1>1, <1>2, <2>1, <2>5, <2>6 DEF Seen!Create
<1>4. CASE EditObject(k)
  <2>1. k8s[k] \in Pod /\ k8s'[k] = [k8s[k] EXCEPT !.edit = edits + 1] /\ edits + 1 \in 0..MaxEdit
        /\ k8s[k] # NoPod /\ UNCHANGED <<deleting, uids>>
        /\ \A m \in Key \ {k} : k8s'[m] = k8s[m]
    BY <1>4, ProviderAssumption DEF EditObject, IInv, TypeOK
  <2>2. k8s'[k] \in Pod /\ k8s'[k].uid = k8s[k].uid /\ k8s'[k].id = k8s[k].id
        /\ k8s'[k].phase = k8s[k].phase
    BY <2>1 DEF Pod
  <2>3. ShownPod(k)' = ShownPod(k)
    BY <2>1, <2>2, NoPodAssumption DEF ShownPod
  <2>4. ShownPods' = ShownPods
    <3>1. \A m \in Key \ {k} : ShownPod(m)' = ShownPod(m)
      BY <2>1 DEF ShownPod
    <3>2. QED BY <2>3, <3>1 DEF ShownPods
  <2>5. QED BY <1>1, <1>2, <2>1, <2>4 DEF Seen!vars
<1>5. CASE DeleteObject(k)
  <2>1. k8s[k] # NoPod /\ k \notin deleting /\ deleting' = deleting \cup {k}
        /\ UNCHANGED <<k8s, uids>>
    BY <1>5 DEF DeleteObject
  <2>2. ShownPods[k] # NoPod /\ ShownPods' = ShownPods
    BY <2>1, ShownPodOf, ShownSame
  <2>3. QED BY <1>1, <1>2, <2>1, <2>2 DEF Seen!Delete
<1>6. CASE RemoveObject(k)
  <2>1. /\ k \in removal /\ k8s'[k] = NoPod /\ deleting' = deleting \ {k} /\ uids' = uids
        /\ \A m \in Key \ {k} : k8s'[m] = k8s[m]
    BY <1>6 DEF RemoveObject, IInv, TypeOK
  <2>2. k \in deleting
    BY <2>1 DEF VInv, Promised, Removing
  <2>3. ShownPod(k)' = NoPod
    BY <2>1 DEF ShownPod
  <2>4. ShownPods' = [ShownPods EXCEPT ![k] = NoPod]
    BY <2>1, <2>3, ShownChange
  <2>5. QED BY <1>1, <1>2, <2>1, <2>2, <2>4 DEF Seen!Remove
<1>7. QED BY <1>3, <1>4, <1>5, <1>6

\* What is pushed over an object that has not ended is true, and its own.
LEMMA PushSeen ==
  ASSUME IInv, OInv, TInv, NEW k \in Key, PushStatus(k)
  PROVE  Seen!Show(k) \/ UNCHANGED Seen!vars
<1>1. UNCHANGED <<work, deleting, uids, requests, jobs, restarts, Untracked>>
  BY DEF PushStatus, slurmVars, bounds
<1>2. Cancels' = Cancels
  BY <1>1 DEF Cancels, Canceled
<1>3. CASE k8s' = k8s \/ ShownPods' = ShownPods
  BY <1>1, <1>2, <1>3, ShownSame DEF Seen!vars
<1>4. CASE k8s' # k8s /\ ShownPods' # ShownPods
  <2>1. /\ k8s[k] # NoPod /\ note[k] # NoPod /\ k8s[k].uid = note[k].uid
        /\ k8s[k].phase \notin Terminal /\ k8s' = [k8s EXCEPT ![k] = note[k]]
    BY <1>4 DEF PushStatus
  <2>2. note[k] \in Pod /\ k8s'[k] = note[k] /\ \A m \in Key \ {k} : k8s'[m] = k8s[m]
    BY <2>1 DEF IInv, TypeOK
  <2> DEFINE i == note[k].id
             p == note[k].phase
  <2>3. i \in JobId \cup {NoId} /\ p \in Phase
    BY <2>2 DEF Pod
  <2>4. /\ ShownPods[k] # NoPod /\ ShownPods[k].uid = k8s[k].uid
        /\ ShownPods[k].phase \notin Terminal
    BY <2>1, ShownPodOf
  <2>5. ShownPod(k)' = [uid |-> ShownPods[k].uid, id |-> i, phase |-> p]
    BY <2>1, <2>2, <2>4, NoPodAssumption DEF ShownPod
  <2>6. ShownPods' = [ShownPods EXCEPT ![k] = [uid |-> ShownPods[k].uid, id |-> i, phase |-> p]]
    BY <2>2, <2>5, ShownChange
  <2>7. i # NoId => Seen!OwnJob(i, k, ShownPods[k].uid)
    BY <2>1, <2>4 DEF IInv, IdentifierOwned, OwnsId, Seen!OwnJob
  <2>8. p = "Succeeded" => Seen!Succeeded(k)
    <3> SUFFICES ASSUME p = "Succeeded", k \notin Untracked, k \notin deleting, ~(uids[k] > 1)
                 PROVE  \E j \in JobId : jobs[j] = [key |-> k, uid |-> 1, phase |-> "Succeeded"]
      BY DEF Seen!Succeeded
    <3>1. uids[k] <= 1
      BY TypesOf
    <3>2. Success(k)
      BY <2>1, <3>1 DEF TInv, Truthful
    <3>3. PICK j \in JobId : jobs[j] # NoJob /\ jobs[j].key = k /\ jobs[j].phase = "Succeeded"
      BY <3>2 DEF Success
    <3>4. jobs[j] \in Job /\ jobs[j].uid \in 1..MaxUid
      BY <3>3 DEF IInv, TypeOK, Job
    <3>5. jobs[j].uid <= uids[k]
      BY <3>3, <3>4 DEF OInv, Numbered, Dispatched
    <3>6. jobs[j].uid = 1
      BY <3>1, <3>4, <3>5, TypesOf, ProviderAssumption
    <3>7. jobs[j] = [key |-> k, uid |-> 1, phase |-> "Succeeded"]
      BY <3>3, <3>4, <3>6 DEF Job
    <3>8. QED BY <3>7
  <2> HIDE DEF i, p
  <2>9. QED
    BY <1>1, <1>2, <1>4, <2>3, <2>4, <2>6, <2>7, <2>8
    DEF Seen!Show, Seen!Phase, Phase, Seen!Terminal, Terminal
<1>5. QED BY <1>3, <1>4

\* CreatePod asks for a job of the object as it is shown.
LEMMA CreateSeen ==
  ASSUME IInv, OInv, VInv, NEW k \in Key, CreatePod(k) \/ EndCreate(k) \/ UpdatePod(k)
  PROVE  Seen!Ask(k) \/ UNCHANGED Seen!vars
<1>1. /\ UNCHANGED <<k8s, deleting, uids, jobs, restarts, Untracked>>
      /\ \A m \in Key \ {k} : work'[m] = work[m]
      /\ work[k].op \in {"create", "update"}
      /\ work'[k] = Idle \/ work'[k].op = work[k].op
  BY TypesOf DEF CreatePod, EndCreate, UpdatePod, FinishCreate, IInv, TypeOK, Work, kubeVars,
                 slurmVars, bounds
<1>2. Canceled(k)' = Canceled(k)
  BY <1>1 DEF Canceled, Idle
<1>3. Cancels' = Cancels /\ ShownPods' = ShownPods
  BY <1>1, <1>2, CancelsSame, ShownSame
<1>4. CASE requests' = requests
  BY <1>1, <1>3, <1>4 DEF Seen!vars
<1>5. CASE CreatePod(k) /\ NeedsDispatch(k)
  <2>1. /\ work[k].op = "create" /\ work[k].stage = "called" /\ work[k].pod.id = NoId
        /\ k \notin Untracked
        /\ requests' = requests \cup {[key |-> k, uid |-> work[k].pod.uid, run |-> restarts]}
    BY <1>5 DEF CreatePod, NeedsDispatch, IsTracked
  <2>2. /\ k8s[k] # NoPod /\ k8s[k].uid = work[k].pod.uid /\ k8s[k].id = work[k].pod.id
        /\ k8s[k].phase \notin Terminal
    BY <2>1 DEF VInv, Promised, Creating
  <2>3. /\ ShownPods[k] # NoPod /\ ShownPods[k].uid = work[k].pod.uid
        /\ ShownPods[k].id = NoId /\ ShownPods[k].phase \notin Terminal
    BY <2>1, <2>2, ShownPodOf
  <2>4. restarts = 0 => ~Seen!Dispatched(k, ShownPods[k].uid)
    BY <1>5, <2>1, <2>3
    DEF OInv, Guarded, Unsent, Dispatched, Seen!Dispatched, Seen!OwnJob
  <2>5. QED
    BY <1>1, <1>3, <2>1, <2>3, <2>4 DEF Seen!Ask, Seen!Terminal, Terminal
<1>6. QED
  BY <1>4, <1>5 DEF CreatePod, EndCreate, UpdatePod, slurmVars

\* DeletePod has a job canceled whose object a user has deleted, or is gone.
LEMMA DeleteSeen ==
  ASSUME IInv, VInv, NEW k \in Key, DeletePod(k) \/ EndDelete(k)
  PROVE  Seen!AskCancel(k) \/ UNCHANGED Seen!vars
<1>1. /\ UNCHANGED <<k8s, deleting, uids, requests, jobs, restarts, Untracked>>
      /\ \A m \in Key \ {k} : work'[m] = work[m]
      /\ work[k].op = "delete" /\ work[k].stage # "rpc"
  BY DEF DeletePod, EndDelete, FinishDelete, IInv, TypeOK, kubeVars, slurmVars, bounds
<1>2. ShownPods' = ShownPods
  BY <1>1, ShownSame
<1>3. Canceled(k) = NoId
  BY <1>1 DEF Canceled
<1>4. CASE Canceled(k)' = NoId
  <2>1. Cancels' = Cancels
    BY <1>1, <1>3, <1>4, CancelsSame
  <2>2. QED BY <1>1, <1>2, <2>1 DEF Seen!vars
<1>5. CASE Canceled(k)' # NoId
  <2> DEFINE j == work[k].pod.id
  <2>1. Canceled(k)' = j /\ j # NoId
    BY <1>1, <1>5, TypesOf DEF Canceled, DeletePod, EndDelete, FinishDelete, Idle, IInv, TypeOK,
                               Work
  <2>2. work[k].pod \in Pod /\ OwnsId(k, work[k].pod)
    BY <1>1, ArgumentOK
  <2>3. /\ j \in JobId /\ jobs[j] # NoJob /\ jobs[j].key = k
        /\ jobs[j].uid = work[k].pod.uid
    BY <2>1, <2>2, NoPodAssumption DEF OwnsId, Pod
  <2>4. Condemned(k, work[k].pod.uid)
    BY <1>1 DEF VInv, Promised, Ending
  <2>5. Seen!Condemned(k, jobs[j].uid)
    BY <2>3, <2>4, ShownPodOf DEF Condemned, Seen!Condemned
  <2>6. Cancels' = [Cancels EXCEPT ![k] = j] /\ Cancels[k] = NoId
    BY <1>1, <1>3, <2>1, CancelsChange, ShownPodOf
  <2> HIDE DEF j
  <2>7. QED BY <1>1, <1>2, <2>3, <2>5, <2>6 DEF Seen!AskCancel
<1>6. QED BY <1>4, <1>5

LEMMA AgentSeen ==
  ASSUME IInv, NEW k \in Key, Agent(k)
  PROVE  Seen!Cancel(k) \/ UNCHANGED Seen!vars
<1>1. /\ UNCHANGED <<k8s, deleting, uids, requests, restarts, Untracked>>
      /\ \A m \in Key \ {k} : work'[m] = work[m]
      /\ work'[k].stage # "rpc"
  BY TypesOf DEF Agent, LoseCreate, Scancel, LoseDelete, IInv, TypeOK, Work, kubeVars,
                 slurmVars, bounds
<1>2. ShownPods' = ShownPods /\ Canceled(k)' = NoId
  BY <1>1, ShownSame DEF Canceled
<1>3. CASE Canceled(k) = NoId
  <2>1. Cancels' = Cancels
    BY <1>1, <1>2, <1>3, CancelsSame
  <2>2. jobs' = jobs
    BY <1>3 DEF Agent, LoseCreate, Scancel, LoseDelete, Canceled, slurmVars
  <2>3. QED BY <1>1, <1>2, <2>1, <2>2 DEF Seen!vars
<1>4. CASE Canceled(k) # NoId
  <2>1. Cancels[k] = work[k].pod.id /\ Cancels[k] # NoId
    BY <1>4, ShownPodOf DEF Canceled
  <2>2. Cancels' = [Cancels EXCEPT ![k] = NoId]
    BY <1>1, <1>2, CancelsChange
  <2>3. \/ UNCHANGED jobs
        \/ /\ jobs[Cancels[k]].phase \notin Terminal
           /\ jobs' = [jobs EXCEPT ![Cancels[k]].phase = "Failed"]
    BY <1>4, <2>1 DEF Agent, LoseCreate, Scancel, LoseDelete, slurmVars
  <2>4. QED BY <1>1, <1>2, <2>1, <2>2, <2>3 DEF Seen!Cancel, Seen!Terminal, Terminal
<1>5. QED BY <1>3, <1>4

LEMMA RequestSeen ==
  ASSUME IInv, NEW r \in requests, SbatchFails(r) \/ \E j \in JobId : Sbatch(r, j)
  PROVE  Seen!Refuse(r) \/ \E j \in JobId : Seen!Submit(r, j)
<1>1. /\ UNCHANGED <<k8s, deleting, uids, restarts, Untracked>>
      /\ requests' = requests \ {r} /\ r.key \in Key
      /\ \A m \in Key \ {r.key} : work'[m] = work[m]
      /\ \/ work' = work
         \/ work[r.key].op = "create" /\ work'[r.key].op = "create"
  <2>1. r.key \in Key /\ work[r.key] \in Work
    BY DEF IInv, TypeOK, Request
  <2>2. CASE SbatchFails(r)
    BY <2>1, <2>2 DEF SbatchFails, Awaits, IInv, TypeOK, Work, kubeVars
  <2>3. CASE \E j \in JobId : Sbatch(r, j)
    BY <2>1, <2>3 DEF Sbatch, Awaits, IInv, TypeOK, Work, kubeVars, bounds
  <2>4. QED BY <2>2, <2>3
<1>2. Canceled(r.key)' = Canceled(r.key)
  BY <1>1 DEF Canceled
<1>3. Cancels' = Cancels /\ ShownPods' = ShownPods
  BY <1>1, <1>2, CancelsSame, ShownSame
<1>4. CASE SbatchFails(r)
  BY <1>1, <1>3, <1>4 DEF SbatchFails, Seen!Refuse
<1>5. ASSUME NEW j \in JobId, Sbatch(r, j)
      PROVE  Seen!Submit(r, j)
  BY <1>1, <1>3, <1>5 DEF Sbatch, Seen!Submit
<1>6. QED BY <1>4, <1>5

LEMMA StatusSeen ==
  ASSUME IInv, \/ \E j \in JobId : PollTracked(j) \/ RunJob(j)
               \/ \E k \in Key : PollUntracked(k) \/ RunExternal(k) \/ SyncPod(k)
               \/ LookupTracked \/ ApplyStatus \/ UNCHANGED vars
  PROVE  (\E j \in JobId : Seen!Proceed(j)) \/ UNCHANGED Seen!vars
<1>1. UNCHANGED <<k8s, deleting, uids, requests, restarts, Untracked>>
  BY DEF PollTracked, RunJob, PollUntracked, RunExternal, LookupTracked, ApplyStatus, SyncPod,
         vars, kubeVars, slurmVars, bounds, IInv, TypeOK
<1>2. Cancels' = Cancels
  <2>1. CASE \E k \in Key : SyncPod(k)
    <3>1. PICK k \in Key : SyncPod(k)
      BY <2>1
    <3>2. /\ \A m \in Key \ {k} : work'[m] = work[m]
          /\ work[k].stage # "rpc" /\ work'[k].stage # "rpc"
      BY <3>1 DEF SyncPod, Idle, Call, IInv, TypeOK
    <3>3. QED BY <3>2, CancelsSame DEF Canceled
  <2>2. CASE work' = work
    BY <2>2 DEF Cancels, Canceled
  <2>3. QED
    BY <2>1, <2>2 DEF PollTracked, RunJob, PollUntracked, RunExternal, LookupTracked,
                      ApplyStatus, vars, vkVars
<1>3. ShownPods' = ShownPods
  BY <1>1, ShownSame
<1>4. CASE \E j \in JobId : RunJob(j)
  <2>1. PICK j \in JobId : RunJob(j)
    BY <1>4
  <2>2. jobs[j] # NoJob /\ jobs[j].phase \notin Terminal
        /\ \E p \in Phase : jobs' = [jobs EXCEPT ![j].phase = p]
    BY <2>1 DEF RunJob, Moves, Phase, Terminal
  <2>3. Seen!Proceed(j)
    BY <1>1, <1>2, <1>3, <2>2 DEF Seen!Proceed, Seen!Phase, Phase, Seen!Terminal, Terminal
  <2>4. QED BY <2>3
<1>5. CASE jobs' = jobs
  BY <1>1, <1>2, <1>3, <1>5 DEF Seen!vars
<1>6. QED
  BY <1>4, <1>5 DEF PollTracked, PollUntracked, RunExternal, LookupTracked, ApplyStatus,
                    SyncPod, vars, slurmVars

LEMMA RestartSeen ==
  ASSUME RestartController \/ RestartInstance
  PROVE  Seen!Restart
<1>1. /\ UNCHANGED <<k8s, deleting, uids, requests, jobs, Untracked>>
      /\ restarts' = restarts + 1 /\ work' = [k \in Key |-> Idle]
  BY DEF RestartController, RestartInstance, FreshInstance, kubeVars, slurmVars
<1>2. Cancels' = [k \in Key |-> NoId] /\ ShownPods' = ShownPods
  BY <1>1, ShownSame DEF Cancels, Canceled, Idle
<1>3. QED BY <1>1, <1>2 DEF Seen!Restart

LEMMA NextSeen == IInv /\ OInv /\ TInv /\ VInv /\ [Next]_vars => [Seen!Next]_(Seen!vars)
<1> SUFFICES ASSUME IInv, OInv, TInv, VInv, [Next]_vars
             PROVE  Seen!Next \/ UNCHANGED Seen!vars
  OBVIOUS
<1>1. CASE \E k \in Key : CreateObject(k) \/ EditObject(k) \/ DeleteObject(k) \/ RemoveObject(k)
  BY <1>1, UsersSeen DEF Seen!Next
<1>2. CASE \E k \in Key : PushStatus(k)
  BY <1>2, PushSeen DEF Seen!Next
<1>3. CASE \E k \in Key : Provider(k)
  BY <1>3, CreateSeen, DeleteSeen DEF Provider, Seen!Next
<1>4. CASE \E k \in Key : Agent(k)
  BY <1>4, AgentSeen DEF Seen!Next
<1>5. CASE \E r \in requests : SbatchFails(r) \/ \E j \in JobId : Sbatch(r, j)
  BY <1>5, RequestSeen DEF Seen!Next
<1>6. CASE \/ \E j \in JobId : PollTracked(j) \/ RunJob(j)
           \/ \E k \in Key : PollUntracked(k) \/ RunExternal(k) \/ SyncPod(k)
           \/ LookupTracked \/ ApplyStatus \/ UNCHANGED vars
  BY <1>6, StatusSeen DEF Seen!Next
<1>7. CASE RestartController \/ RestartInstance
  BY <1>7, RestartSeen DEF Seen!Next
<1>8. QED BY <1>1, <1>2, <1>3, <1>4, <1>5, <1>6, <1>7 DEF Next

\* The provider, its pod controller, the tracker and the agent's handlers do
\* together what PodJobs promises of Pods and their jobs, however their steps
\* interleave and whatever is lost, refused, read late or restarted: a job is
\* asked for only for an object that shows none and has not ended, and only
\* once until a restart; only the jobs of deleted objects are canceled; an
\* object is shown with its own jobs only, and its end once and truthfully.
THEOREM PromisesKept == Spec => ImplementsPodJobs
<1>1. Init => Seen!Init
  <2> SUFFICES ASSUME Init PROVE Seen!Init
    OBVIOUS
  <2>1. Untracked \in SUBSET Key
    BY DEF Init
  <2>2. ShownPods = [k \in Key |-> NoPod] /\ Cancels = [k \in Key |-> NoId]
    BY DEF Init, ShownPods, ShownPod, Cancels, Canceled, Idle
  <2>3. QED BY <2>1, <2>2 DEF Init, Seen!Init
<1>2. QED
  BY <1>1, InitIInv, NextIInv, InitOInv, NextOInv, InitTInv, NextTInv, InitVInv, NextVInv,
     NextSeen, PTL DEF Spec, ImplementsPodJobs, Seen!Spec
=============================================================================
