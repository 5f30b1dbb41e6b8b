---------------------- MODULE WorkloadReconcilerProofs ----------------------
(***************************************************************************)
(* Garbage collection in WorkloadReconciler, for any number of jobs, nodes,*)
(* failed calls and restarts: what it deletes, and what it does not lose;  *)
(* and the names of its Pods, for any identifiers, names and lengths.      *)
(***************************************************************************)
EXTENDS WorkloadNames, SequenceTheorems, WellFoundedInduction, TLAPS

\* Only jobs that were submitted are in Slurm, in a listing or have Pods.
SubmittedOK ==
  /\ \A j \in Job : jobs[j] # NoJob => j \in submitted
  /\ listing # NoListing => \A j \in Job : listing[j] # NoJob => j \in submitted
  /\ \A n \in Name : cluster[n] # NoPod => n[1] \in submitted

\* A job submitted after the listing was made has no Pods yet.
ListingOK ==
  listing # NoListing =>
    \A n \in Name : jobs[n[1]] # NoJob /\ listing[n[1]] = NoJob => cluster[n] = NoPod

\* The Pods of every job received so far are in the new inventory.
ReceivedOK ==
  \A j \in received : listing # NoListing /\ listing[j] # NoJob /\ PodsOf(j) \subseteq fresh

IInv == TypeOK /\ SubmittedOK /\ ListingOK /\ ReceivedOK

-----------------------------------------------------------------------------
LEMMA InitIInv == Init => IInv
  BY ReconcilerAssumption DEF Init, IInv, TypeOK, SubmittedOK, ListingOK, ReceivedOK

\* Names and Pods of a listed job.
LEMMA PodsOfListed ==
  ASSUME TypeOK, NEW j \in Job, listing # NoListing, listing[j] # NoJob
  PROVE  /\ listing[j] \in Listed
         /\ PodsOf(j) \subseteq Name
         /\ \A n \in PodsOf(j) : n[1] = j
         /\ PodFor(j) \in Pod
<1>1. listing[j] \in Listed
  BY DEF TypeOK
<1>2. PodFor(j) \in Pod
  BY <1>1 DEF PodFor, Pod, Listed
<1>3. PodsOf(j) \subseteq Name /\ \A n \in PodsOf(j) : n[1] = j
  BY DEF PodsOf, Name
<1>4. QED BY <1>1, <1>2, <1>3

LEMMA SlurmStep ==
  ASSUME IInv, NEW j \in Job, Slurm(j)
  PROVE  IInv'
<1>1. /\ submitted \subseteq submitted' /\ submitted' \subseteq Job
      /\ jobs' \in [Job -> Listed \cup {NoJob}]
      /\ \A i \in Job : jobs'[i] # NoJob => i \in submitted'
      /\ \A i \in Job : jobs'[i] # NoJob => jobs[i] # NoJob \/ i \notin submitted
      /\ UNCHANGED <<cluster, inventory, roundVars, told, fails, restarts>>
  <2>1. CASE Submit(j)
    <3>1. [phase |-> "Pending", width |-> 0] \in Listed
      BY ReconcilerAssumption DEF Listed, Phase
    <3>2. QED BY <2>1, <3>1 DEF Submit, SetJob, IInv, TypeOK, SubmittedOK
  <2>2. CASE Allocate(j)
    <3>1. \A w \in 1..MaxWidth : [phase |-> "Running", width |-> w] \in Listed
      BY ReconcilerAssumption DEF Listed, Phase
    <3>2. QED BY <2>2, <3>1 DEF Allocate, InPhase, SetJob, IInv, TypeOK, SubmittedOK
  <2>3. CASE Requeue(j)
    <3>1. [phase |-> "Pending", width |-> 0] \in Listed
      BY ReconcilerAssumption DEF Listed, Phase
    <3>2. QED BY <2>3, <3>1 DEF Requeue, InPhase, SetJob, IInv, TypeOK, SubmittedOK
  <2>4. CASE End(j)
    <3>1. jobs[j] # NoJob /\ [jobs[j] EXCEPT !.phase = "Ended"] \in Listed
      BY <2>4 DEF End, InPhase, IInv, TypeOK, Listed, Phase
    <3>2. QED BY <2>4, <3>1 DEF End, SetJob, IInv, TypeOK, SubmittedOK
  <2>5. CASE Purge(j)
    BY <2>5 DEF Purge, InPhase, SetJob, IInv, TypeOK, SubmittedOK
  <2>6. QED BY <2>1, <2>2, <2>3, <2>4, <2>5 DEF Slurm
<1>2. TypeOK' /\ SubmittedOK'
  BY <1>1 DEF IInv, TypeOK, SubmittedOK, roundVars
<1>3. ListingOK'
  <2>1. \A n \in Name : n[1] \in Job
    BY DEF Name
  <2>2. QED BY <1>1, <2>1 DEF IInv, ListingOK, SubmittedOK, roundVars
<1>4. ReceivedOK'
  BY <1>1 DEF IInv, ReceivedOK, PodsOf, roundVars
<1>5. QED BY <1>2, <1>3, <1>4 DEF IInv

-----------------------------------------------------------------------------
\* Pods of a received job are the only ones that appear.
LEMMA AppliedStep ==
  ASSUME IInv, NEW j \in Job, Awaited(j), NEW names \in SUBSET PodsOf(j),
         cluster' = Applied(j, names), UNCHANGED slurmVars
  PROVE  /\ cluster' \in [Name -> Pod \cup {NoPod}]
         /\ \A n \in Name : cluster'[n] # NoPod => n[1] \in submitted
         /\ \A n \in Name : jobs[n[1]] # NoJob /\ listing[n[1]] = NoJob => cluster'[n] = NoPod
         /\ \A n \in Name : cluster[n] # NoPod => cluster'[n] # NoPod
<1>1. /\ listing # NoListing /\ listing[j] # NoJob
      /\ \A n \in names : n \in Name /\ n[1] = j
      /\ PodFor(j) \in Pod
  BY PodsOfListed DEF IInv, Awaited
<1>2. j \in submitted
  BY <1>1 DEF IInv, SubmittedOK
<1>3. QED
  BY <1>1, <1>2, ValueAssumption
  DEF Applied, IInv, TypeOK, SubmittedOK, ListingOK

LEMMA ReceiveStep ==
  ASSUME IInv, NEW j \in Job, Receive(j)
  PROVE  IInv'
<1>1. /\ Awaited(j) /\ cluster' = Applied(j, PodsOf(j))
      /\ UNCHANGED <<slurmVars, inventory, stage, listing, fails, restarts>>
      /\ received' = received \cup {j} /\ fresh' = fresh \cup PodsOf(j)
  BY DEF Receive
<1>2. /\ listing # NoListing /\ listing[j] \in Listed /\ listing[j] # NoJob
      /\ PodsOf(j) \subseteq Name
  BY <1>1, PodsOfListed DEF IInv, Awaited
<1>3. /\ cluster' \in [Name -> Pod \cup {NoPod}]
      /\ \A n \in Name : cluster'[n] # NoPod => n[1] \in submitted
      /\ \A n \in Name : jobs[n[1]] # NoJob /\ listing[n[1]] = NoJob => cluster'[n] = NoPod
  BY <1>1, AppliedStep DEF slurmVars
<1>4. told' \in [Name -> Phase \cup {NoPhase}]
  BY <1>2 DEF Receive, IInv, TypeOK, Listed
<1>5. TypeOK' /\ SubmittedOK' /\ ListingOK'
  BY <1>1, <1>2, <1>3, <1>4 DEF IInv, TypeOK, SubmittedOK, ListingOK, slurmVars
<1>6. ReceivedOK'
  BY <1>1, <1>2 DEF IInv, ReceivedOK, PodsOf
<1>7. QED BY <1>5, <1>6 DEF IInv

\* Deleting Pods disturbs nothing.
LEMMA WithoutStep ==
  ASSUME IInv, NEW names, cluster' = Without(names), UNCHANGED slurmVars, Returns,
         inventory' \in {NoInventory} \cup SUBSET Name,
         fails' \in 0..MaxFail, UNCHANGED <<told, restarts>>
  PROVE  IInv'
<1>1. /\ cluster' \in [Name -> Pod \cup {NoPod}]
      /\ \A n \in Name : cluster'[n] # NoPod => cluster[n] # NoPod
  BY DEF Without, IInv, TypeOK
<1>2. QED
  BY <1>1 DEF IInv, TypeOK, SubmittedOK, ListingOK, ReceivedOK, Returns, slurmVars

LEMMA FaultCounted ==
  ASSUME TypeOK, NEW call, Fault(call)
  PROVE  fails' \in 0..MaxFail
  BY ReconcilerAssumption DEF Fault, TypeOK

LEMMA RoundStep ==
  ASSUME IInv, Round
  PROVE  IInv'
<1>1. CASE Begin
  BY <1>1 DEF Begin, IInv, TypeOK, SubmittedOK, ListingOK, ReceivedOK, PodsOf, slurmVars
<1>2. CASE AgentLists
  <2>1. received = {}
    BY <1>2 DEF AgentLists, IInv, ReceivedOK
  <2>2. \A n \in Name : n[1] \in Job
    BY DEF Name
  <2>3. QED
    BY <1>2, <2>1, <2>2 DEF AgentLists, IInv, TypeOK, SubmittedOK, ListingOK, ReceivedOK, slurmVars
<1>3. CASE Prepare
  <2>1. inventory' \in {NoInventory} \cup SUBSET Name
    BY <1>3 DEF Prepare, Present, IInv, TypeOK
  <2>2. QED
    BY <1>3, <2>1 DEF Prepare, IInv, TypeOK, SubmittedOK, ListingOK, ReceivedOK, PodsOf, slurmVars
<1>4. CASE Collect
  <2>1. inventory' \in {NoInventory} \cup SUBSET Name
    BY <1>4 DEF Collect, IInv, TypeOK
  <2>2. QED BY <1>4, <2>1, WithoutStep DEF Collect, IInv, TypeOK
<1>5. CASE \E j \in Job : Receive(j)
  BY <1>5, ReceiveStep
<1>6. QED BY <1>1, <1>2, <1>3, <1>4, <1>5 DEF Round

LEMMA RoundFailsStep ==
  ASSUME IInv, RoundFails
  PROVE  IInv'
<1>1. CASE ListFails
  BY <1>1, FaultCounted
  DEF ListFails, IInv, TypeOK, SubmittedOK, ListingOK, ReceivedOK, PodsOf, slurmVars, roundVars
<1>2. CASE PopulateFails
  BY <1>2, FaultCounted
  DEF PopulateFails, Returns, IInv, TypeOK, SubmittedOK, ListingOK, ReceivedOK, slurmVars
<1>3. CASE StreamFails
  BY <1>3, FaultCounted
  DEF StreamFails, Returns, IInv, TypeOK, SubmittedOK, ListingOK, ReceivedOK, slurmVars
<1>4. CASE CollectFails
  BY <1>4, FaultCounted, WithoutStep DEF CollectFails, IInv, TypeOK
<1>5. CASE \E j \in Job : ApplyFails(j)
  <2>1. PICK j \in Job : ApplyFails(j)
    BY <1>5
  <2>2. /\ cluster' \in [Name -> Pod \cup {NoPod}]
        /\ \A n \in Name : cluster'[n] # NoPod => n[1] \in submitted
    BY <2>1, AppliedStep DEF ApplyFails
  <2>3. QED
    BY <2>1, <2>2, FaultCounted
    DEF ApplyFails, Returns, IInv, TypeOK, SubmittedOK, ListingOK, ReceivedOK, slurmVars
<1>6. QED BY <1>1, <1>2, <1>3, <1>4, <1>5 DEF RoundFails

LEMMA NextIInv == IInv /\ [Next]_vars => IInv'
<1> SUFFICES ASSUME IInv, [Next]_vars PROVE IInv'
  OBVIOUS
<1>1. CASE \E j \in Job : Slurm(j)
  BY <1>1, SlurmStep
<1>2. CASE Round \/ RoundFails
  BY <1>2, RoundStep, RoundFailsStep
<1>3. CASE \E n \in Name : DeletePod(n)
  BY <1>3 DEF DeletePod, IInv, TypeOK, SubmittedOK, ListingOK, ReceivedOK, PodsOf,
              slurmVars, roundVars
<1>4. CASE Restart
  BY <1>4, ReconcilerAssumption
  DEF Restart, Returns, IInv, TypeOK, SubmittedOK, ListingOK, ReceivedOK, slurmVars
<1>5. CASE UNCHANGED vars
  BY <1>5 DEF vars, IInv, TypeOK, SubmittedOK, ListingOK, ReceivedOK, PodsOf, slurmVars, roundVars
<1>6. QED BY <1>1, <1>2, <1>3, <1>4, <1>5 DEF Next

\* The variables of WorkloadReconciler keep their types.
THEOREM TypeCorrect == Spec => []TypeOK
<1>1. IInv => TypeOK
  BY DEF IInv
<1>2. QED BY <1>1, InitIInv, NextIInv, PTL DEF Spec

-----------------------------------------------------------------------------
(* What garbage collection deletes *)

\* In a state of the invariant, no step deletes the Pod of a job that Slurm
\* keeps and that still has the node.
LEMMA CollectStep ==
  ASSUME IInv, [Next]_vars, NEW n \in Name,
         stage = "receiving", stage' = "idle",
         cluster[n] # NoPod, cluster'[n] = NoPod
  PROVE  \/ jobs[n[1]] = NoJob
         \/ listing # NoListing /\ listing[n[1]] # NoJob /\ n \notin PodsOf(n[1])
<1>1. CASE Collect \/ CollectFails
  <2>1. EndOfStream /\ n \notin fresh
    BY <1>1 DEF Collect, CollectFails, Without, Stale, IInv, TypeOK
  <2>2. n[1] \in Job
    BY DEF Name
  <2>3. jobs[n[1]] # NoJob => listing[n[1]] # NoJob
    BY <2>1 DEF EndOfStream, IInv, ListingOK
  <2>4. jobs[n[1]] # NoJob => PodsOf(n[1]) \subseteq fresh
    BY <2>1, <2>2, <2>3 DEF EndOfStream, IInv, ReceivedOK
  <2>5. QED BY <2>1, <2>3, <2>4 DEF EndOfStream
<1>2. CASE \E j \in Job : ApplyFails(j)
  <2>1. PICK j \in Job : ApplyFails(j)
    BY <1>2
  <2>2. cluster'[n] # NoPod
    BY <2>1, AppliedStep DEF ApplyFails
  <2>3. QED BY <2>2
<1>3. ~(StreamFails \/ Restart)
  BY DEF StreamFails, Restart
<1>4. ~(ListFails \/ PopulateFails \/ Begin \/ AgentLists \/ Prepare)
  BY DEF ListFails, PopulateFails, Begin, AgentLists, Prepare
<1>5. ~(\E j \in Job : Receive(j) \/ Slurm(j)) /\ ~(\E m \in Name : DeletePod(m)) /\ ~UNCHANGED vars
  BY DEF Receive, Slurm, Submit, Allocate, Requeue, End, Purge, SetJob, DeletePod, vars, roundVars
<1>6. QED BY <1>1, <1>2, <1>3, <1>4, <1>5 DEF Next, Round, RoundFails

\* Garbage collection deletes no Pod of a job that Slurm keeps, unless the job
\* has lost that node, whichever calls fail.
THEOREM CollectionIsSafe == Spec => CollectsOnlyGone
<1>1. IInv /\ [Next]_vars =>
        [\A n \in Name :
           /\ stage = "receiving" /\ stage' = "idle"
           /\ cluster[n] # NoPod /\ cluster'[n] = NoPod
           => \/ jobs[n[1]] = NoJob
              \/ listing # NoListing /\ listing[n[1]] # NoJob /\ n \notin PodsOf(n[1])]_vars
  BY CollectStep
<1>2. QED BY <1>1, InitIInv, NextIInv, PTL DEF Spec, CollectsOnlyGone

-----------------------------------------------------------------------------
(* What it does not lose *)

\* As long as no call has failed, a populated inventory has every Pod there is
\* when a round begins, and the two inventories together until it ends.
CoverOK ==
  fails = 0 =>
    /\ stage # "receiving" /\ inventory # NoInventory => Present \subseteq inventory
    /\ stage # "receiving" => fresh = {}
    /\ stage = "receiving" => inventory # NoInventory /\ Present \subseteq inventory \cup fresh

LEMMA CoverStep ==
  ASSUME IInv, CoverOK, [Next]_vars
  PROVE  CoverOK'
<1> SUFFICES ASSUME fails' = 0 PROVE CoverOK'
  BY DEF CoverOK
<1>0. fails = 0
  BY DEF IInv, TypeOK, Next, Slurm, Submit, Allocate, Requeue, End, Purge, SetJob, Round, Begin,
         AgentLists, Prepare, Collect, Receive, RoundFails, ListFails, PopulateFails, StreamFails,
         CollectFails, ApplyFails, Fault, DeletePod, Restart, vars
<1>1. CASE \E j \in Job : Slurm(j)
  BY <1>1 DEF Slurm, Submit, Allocate, Requeue, End, Purge, SetJob, CoverOK, Present, roundVars
<1>2. CASE \E j \in Job : Receive(j)
  <2>1. PICK j \in Job : Receive(j)
    BY <1>2
  <2>2. Present' \subseteq Present \cup PodsOf(j)
    BY <2>1 DEF Receive, Applied, Present, IInv, TypeOK
  <2>3. QED BY <2>1, <2>2 DEF Receive, Awaited, CoverOK
<1>3. CASE Collect
  <2>1. Present' \subseteq Present \ Stale /\ inventory' = fresh
    BY <1>3 DEF Collect, Without, Present, IInv, TypeOK
  <2>2. Present \subseteq inventory \cup fresh /\ stage' = "idle" /\ fresh' = {}
    BY <1>3 DEF Collect, Returns, EndOfStream, CoverOK
  <2>3. fresh \subseteq Name
    BY DEF IInv, TypeOK
  <2>4. QED BY <2>1, <2>2, <2>3 DEF CoverOK, Stale
<1>4. CASE Begin \/ AgentLists
  BY <1>4 DEF Begin, AgentLists, CoverOK, Present, IInv, TypeOK, roundVars
<1>5. CASE Prepare
  <2>1. Present' = Present
    BY <1>5 DEF Prepare, Present
  <2>2. Present # NoInventory
    BY ValueAssumption DEF Present
  <2>3. QED BY <1>5, <2>1, <2>2 DEF Prepare, CoverOK
<1>6. ~RoundFails
  BY <1>0 DEF IInv, TypeOK, RoundFails, ListFails, PopulateFails, StreamFails, CollectFails,
              ApplyFails, Fault
<1>7. CASE \E n \in Name : DeletePod(n)
  <2>1. Present' \subseteq Present
    BY <1>7 DEF DeletePod, Present, IInv, TypeOK
  <2>2. QED BY <1>7, <2>1 DEF DeletePod, CoverOK, roundVars
<1>8. CASE Restart
  BY <1>8 DEF Restart, Returns, CoverOK
<1>9. CASE UNCHANGED vars
  BY <1>9 DEF vars, roundVars, CoverOK, Present
<1>10. QED
  BY <1>1, <1>2, <1>3, <1>4, <1>5, <1>6, <1>7, <1>8, <1>9 DEF Next, Round

\* As long as no call has failed, the inventory never loses a Pod: restarts and
\* deletions by users included.
THEOREM InventoryIsComplete == Spec => []InventoryCovers
<1>1. Init => IInv /\ CoverOK
  BY InitIInv DEF Init, CoverOK
<1>2. IInv /\ CoverOK /\ [Next]_vars => IInv' /\ CoverOK'
  BY NextIInv, CoverStep
<1>3. CoverOK => InventoryCovers
  BY DEF CoverOK, InventoryCovers
<1>4. QED BY <1>1, <1>2, <1>3, PTL DEF Spec

-----------------------------------------------------------------------------
(* The names of Pods *)

\* What holds of 0, and of each number after one of which it holds, holds of all.
LEMMA AllNumbers ==
  ASSUME NEW n \in Nat, NEW S, 0 \in S, \A i \in 0..n : i \in S /\ i + 1 <= n => i + 1 \in S
  PROVE  0..n \subseteq S
<1> SUFFICES ASSUME ~(0..n \subseteq S) PROVE FALSE
  OBVIOUS
<1> DEFINE T == {i \in 0..n : i \notin S}
<1>1. T \subseteq Nat /\ T # {}
  OBVIOUS
<1>2. \E x \in T : \A y \in T : ~(<<y, x>> \in OpToRel(<, Nat))
  BY <1>1, NatLessThanWellFounded, WFMin
<1>3. PICK x \in T : \A y \in T : ~(<<y, x>> \in OpToRel(<, Nat))
  BY <1>2
<1>4. x \in Nat /\ x # 0 /\ x - 1 \in 0..n /\ (x - 1) + 1 = x /\ x <= n /\ x \notin S
  OBVIOUS
<1>5. <<x - 1, x>> \in OpToRel(<, Nat)
  <2>1. <<x - 1, x>> \in Nat \X Nat /\ x - 1 < x
    BY <1>4
  <2>2. QED BY <2>1 DEF OpToRel
<1>6. x - 1 \notin T
  BY <1>3, <1>5
<1>7. QED BY <1>4, <1>6

\* The loop over the runes is well defined.
LEMMA Loop ==
  ASSUME NEW S, NEW input \in Seq(S), NEW maxLen
  PROVE  LET r == Converted(input, maxLen)
         IN  /\ r[0] = <<>>
             /\ \A i \in 1..Len(input) : r[i] = Convert(r[i - 1], input[i], maxLen)
<1> DEFINE n == Len(input)
           Fits(f, k) == f = [i \in 0..k |-> IF i = 0 THEN <<>> ELSE Convert(f[i - 1], input[i], maxLen)]
           K == {k \in 0..n : \E f : Fits(f, k)}
<1>1. n \in Nat
  OBVIOUS
<1>2. 0 \in K
  <2> DEFINE f == [i \in 0..0 |-> <<>>]
  <2>1. Fits(f, 0)
    OBVIOUS
  <2> HIDE DEF f, Fits
  <2>2. QED BY <1>1, <2>1
<1>3. ASSUME NEW k \in 0..n, k \in K, k + 1 <= n
      PROVE  k + 1 \in K
  <2>1. PICK f : Fits(f, k)
    BY <1>3
  <2> DEFINE g == [i \in 0..(k + 1) |-> IF i = k + 1 THEN Convert(f[k], input[k + 1], maxLen) ELSE f[i]]
  <2>2. k \in Nat /\ k + 1 \in 0..n /\ \A i \in 0..(k + 1) : i = k + 1 \/ i \in 0..k
    BY <1>1, <1>3
  <2>3. ASSUME NEW i \in 0..(k + 1)
        PROVE  g[i] = IF i = 0 THEN <<>> ELSE Convert(g[i - 1], input[i], maxLen)
    <3>1. CASE i = k + 1
      <4>1. i - 1 = k /\ k \in 0..(k + 1) /\ k # k + 1 /\ i # 0
        BY <2>2, <3>1
      <4>2. g[i - 1] = f[k]
        BY <4>1
      <4>3. QED BY <3>1, <4>1, <4>2
    <3>2. CASE i \in 0..k /\ i = 0
      <4>1. f[0] = <<>>
        BY <2>1, <2>2, <3>2
      <4>2. g[0] = f[0]
        BY <2>2, <3>2
      <4>3. QED BY <3>2, <4>1, <4>2
    <3>3. CASE i \in 0..k /\ i # 0
      <4>1. i # k + 1 /\ i - 1 \in 0..k /\ i - 1 \in 0..(k + 1) /\ i - 1 # k + 1
        BY <2>2, <3>3
      <4>2. f[i] = Convert(f[i - 1], input[i], maxLen)
        BY <2>1, <3>3
      <4>3. g[i] = f[i] /\ g[i - 1] = f[i - 1]
        BY <4>1
      <4>4. QED BY <3>3, <4>2, <4>3
    <3>4. QED BY <2>2, <3>1, <3>2, <3>3
  <2>4. Fits(g, k + 1)
    <3>1. g = [i \in 0..(k + 1) |-> g[i]]
      OBVIOUS
    <3> HIDE DEF g
    <3>2. QED BY <2>3, <3>1
  <2> HIDE DEF Fits, g
  <2>5. QED BY <2>2, <2>4
<1>4. n \in K
  <2> HIDE DEF K
  <2>1. 0..n \subseteq K
    BY <1>1, <1>2, <1>3, AllNumbers
  <2>2. QED BY <1>1, <2>1
<1>5. \E f : Fits(f, n)
  BY <1>4
<1>6. Converted(input, maxLen) = CHOOSE f : Fits(f, n)
  BY DEF Converted
<1>7. Fits(Converted(input, maxLen), n)
  <2> HIDE DEF Fits
  <2>1. QED BY <1>5, <1>6
<1> DEFINE r == Converted(input, maxLen)
<1> HIDE DEF r
<1>8. r = [i \in 0..n |-> IF i = 0 THEN <<>> ELSE Convert(r[i - 1], input[i], maxLen)]
  BY <1>7 DEF r
<1>9. 0 \in 0..n /\ \A i \in 1..n : i \in 0..n /\ i # 0
  BY <1>1
<1>10. r[0] = <<>> /\ \A i \in 1..n : r[i] = Convert(r[i - 1], input[i], maxLen)
  BY <1>8, <1>9
<1>11. QED BY <1>10 DEF r

\* The runes of a Pod name, before anything is cut off.
Made == Letter \cup Latin \cup Digits \cup {"-"}

\* The result is made of converted runes, and never longer than asked for.
LEMMA LoopResult ==
  ASSUME NEW input \in Seq(Rune), NEW maxLen \in Int, NEW A, "-" \in A,
         \A i \in 1..Len(input) : ToLower(input[i]) \in Letter \cup Latin \cup Digits => ToLower(input[i]) \in A
  PROVE  LET s == Converted(input, maxLen)[Len(input)]
         IN  s \in Seq(A) /\ (maxLen > 0 => Len(s) <= maxLen)
<1> DEFINE n == Len(input)
           r == Converted(input, maxLen)
           K == {i \in 0..n : r[i] \in Seq(A) /\ (maxLen > 0 => Len(r[i]) <= maxLen)}
<1>1. /\ n \in Nat /\ r[0] = <<>>
      /\ \A i \in 1..n : r[i] = Convert(r[i - 1], input[i], maxLen)
  BY Loop
<1> HIDE DEF n, r
<1>2. 0 \in K
  <2>1. 0 \in 0..n /\ <<>> \in Seq(A) /\ Len(<<>>) = 0
    BY <1>1
  <2>2. r[0] \in Seq(A) /\ Len(r[0]) = 0
    BY <1>1, <2>1, Zenon
  <2>3. maxLen > 0 => Len(r[0]) <= maxLen
    BY <2>2
  <2>4. QED BY <2>1, <2>2, <2>3, Zenon
<1>3. ASSUME NEW i \in 0..n, i \in K, i + 1 <= n
      PROVE  i + 1 \in K
  <2>1. i + 1 \in 1..n /\ i + 1 \in 0..n /\ (i + 1) - 1 = i
    BY <1>1, <1>3
  <2> DEFINE s == r[i]
             c == input[i + 1]
             t == Convert(s, c, maxLen)
  <2>2. r[i + 1] = t
    BY <1>1, <2>1
  <2>3. s \in Seq(A) /\ Len(s) \in Nat /\ (maxLen > 0 => Len(s) <= maxLen)
    BY <1>3
  <2>4. ToLower(c) \in Letter \cup Latin \cup Digits => ToLower(c) \in A
    BY <2>1 DEF n
  <2> HIDE DEF s, c
  <2>5. t = s \/ (~(maxLen > 0 /\ Len(s) = maxLen) /\ \E x \in A : t = Append(s, x))
    <3>1. CASE maxLen > 0 /\ Len(s) = maxLen
      <4>1. t = s
        BY <3>1 DEF Convert
      <4>2. QED BY <4>1
    <3>2. CASE ~(maxLen > 0 /\ Len(s) = maxLen) /\ ToLower(c) \in Letter \cup Latin \cup Digits
      BY <2>4, <3>2, Zenon DEF Convert
    <3>3. CASE ~(maxLen > 0 /\ Len(s) = maxLen) /\ ToLower(c) \notin Letter \cup Latin \cup Digits
      <4>1. t = IF s # <<>> /\ Last(s) = "-" THEN s ELSE Append(s, "-")
        BY <3>3, Zenon DEF Convert
      <4>2. "-" \in A
        OBVIOUS
      <4>3. t = s \/ t = Append(s, "-")
        BY <4>1, Zenon
      <4>4. QED BY <3>3, <4>2, <4>3, Zenon
    <3>4. QED BY <3>1, <3>2, <3>3, Zenon
  <2> HIDE DEF t
  <2>6. CASE t = s
    BY <2>1, <2>2, <2>3, <2>6
  <2>7. CASE ~(maxLen > 0 /\ Len(s) = maxLen) /\ \E x \in A : t = Append(s, x)
    <3>1. t \in Seq(A) /\ Len(t) = Len(s) + 1
      BY <2>3, <2>7, AppendProperties
    <3>2. maxLen > 0 => Len(t) <= maxLen
      BY <2>3, <2>7, <3>1
    <3>3. QED BY <2>1, <2>2, <3>1, <3>2
  <2>8. QED BY <2>5, <2>6, <2>7
<1>4. 0..n \subseteq K
  <2> HIDE DEF K
  <2>1. QED BY <1>1, <1>2, <1>3, AllNumbers
<1>5. n \in K
  BY <1>1, <1>4
<1>6. QED BY <1>5 DEF n, r

\* Trimming leaves a part.
LEMMA Trimmed ==
  ASSUME NEW A, NEW s \in Seq(A)
  PROVE  TrimDash(s) \in Seq(A) /\ Len(TrimDash(s)) <= Len(s)
<1> DEFINE t == IF s # <<>> /\ Head(s) = "-" THEN Tail(s) ELSE s
           u == IF t # <<>> /\ Last(t) = "-" THEN Front(t) ELSE t
<1>1. t \in Seq(A) /\ Len(t) \in Nat /\ Len(t) <= Len(s) /\ Len(s) \in Nat
  <2>1. CASE s # <<>> /\ Head(s) = "-"
    BY <2>1, HeadTailProperties
  <2>2. CASE ~(s # <<>> /\ Head(s) = "-")
    BY <2>2
  <2>3. QED BY <2>1, <2>2
<1> HIDE DEF t
<1>2. u \in Seq(A) /\ Len(u) <= Len(t) /\ Len(u) \in Nat
  <2>1. CASE t # <<>> /\ Last(t) = "-"
    <3>1. Len(t) - 1 \in Nat /\ 1 \in Int /\ \A i \in 1..(Len(t) - 1) : t[i] \in A
      BY <1>1, <2>1
    <3>2. /\ SubSeq(t, 1, Len(t) - 1) \in Seq(A)
          /\ Len(SubSeq(t, 1, Len(t) - 1)) = IF 1 <= Len(t) - 1 THEN (Len(t) - 1) - 1 + 1 ELSE 0
      BY <3>1, SubSeqProperties
    <3>3. u = SubSeq(t, 1, Len(t) - 1)
      BY <2>1 DEF Front
    <3>4. QED BY <1>1, <3>1, <3>2, <3>3
  <2>2. CASE ~(t # <<>> /\ Last(t) = "-")
    BY <1>1, <2>2
  <2>3. QED BY <2>1, <2>2
<1>3. TrimDash(s) = u
  BY DEF TrimDash, t
<1> HIDE DEF u
<1>4. QED BY <1>1, <1>2, <1>3

\* A job's identifier stays as it is.
LEMMA IdentifierKept ==
  ASSUME NEW id \in Seq(Digits)
  PROVE  toLowerRFC1123(id, -1) = id
<1> DEFINE n == Len(id)
           r == Converted(id, -1)
           K == {i \in 0..n : Len(r[i]) = i /\ r[i] \in Seq(Digits) /\ \A j \in 1..i : r[i][j] = id[j]}
<1>1. /\ n \in Nat /\ r[0] = <<>>
      /\ \A i \in 1..n : r[i] = Convert(r[i - 1], id[i], -1)
  BY Loop
<1>2. "A" \notin Digits /\ "-" \notin Digits
  BY DEF Digits, Digit
<1> HIDE DEF n, r
<1>3. 0 \in K
  <2>1. 0 \in 0..n /\ <<>> \in Seq(Digits) /\ Len(<<>>) = 0 /\ 1..0 = {}
    BY <1>1
  <2>2. QED BY <1>1, <2>1
<1>4. ASSUME NEW i \in 0..n, i \in K, i + 1 <= n
      PROVE  i + 1 \in K
  <2>1. i + 1 \in 1..n /\ i + 1 \in 0..n /\ (i + 1) - 1 = i /\ i \in Nat
    BY <1>1, <1>4
  <2>2. r[i] \in Seq(Digits) /\ Len(r[i]) = i /\ \A j \in 1..i : r[i][j] = id[j]
    BY <1>4
  <2>3. id[i + 1] \in Digits /\ ToLower(id[i + 1]) = id[i + 1]
    BY <1>2, <2>1 DEF n, ToLower
  <2>4. r[i + 1] = Append(r[i], id[i + 1])
    <3>1. r[i + 1] = Convert(r[i], id[i + 1], -1)
      BY <1>1, <2>1
    <3>2. ~(-1 > 0) /\ ToLower(id[i + 1]) \in Letter \cup Latin \cup Digits
      BY <2>3
    <3>3. QED BY <2>3, <3>1, <3>2, Zenon DEF Convert
  <2> DEFINE s == r[i]
             t == r[i + 1]
  <2> HIDE DEF s, t
  <2>5. /\ t \in Seq(Digits) /\ Len(t) = i + 1
        /\ \A j \in 1..i : t[j] = s[j] /\ t[i + 1] = id[i + 1]
    BY <2>2, <2>3, <2>4, AppendProperties DEF s, t
  <2>6. t[i + 1] = id[i + 1]
    BY <2>2, <2>3, <2>4, AppendProperties DEF s, t
  <2>7. \A j \in 1..(i + 1) : j \in 1..i \/ j = i + 1
    BY <2>1
  <2>8. \A j \in 1..(i + 1) : t[j] = id[j]
    BY <2>2, <2>5, <2>6, <2>7 DEF s
  <2>9. QED BY <2>1, <2>5, <2>8 DEF t
<1>5. 0..n \subseteq K
  <2> HIDE DEF K
  <2>1. QED BY <1>1, <1>3, <1>4, AllNumbers
<1>6. n \in K
  BY <1>1, <1>5
<1>7. r[n] = id
  <2>1. Len(r[n]) = Len(id) /\ r[n] \in Seq(Digits) /\ \A j \in 1..n : r[n][j] = id[j]
    BY <1>6 DEF n
  <2>2. QED BY <2>1, SeqEqual DEF n
<1>8. TrimDash(id) = id
  <2>1. id # <<>> => Head(id) # "-" /\ Last(id) # "-"
    <3>1. ASSUME id # <<>> PROVE Head(id) \in Digits /\ Last(id) \in Digits
      <4>1. 1 \in 1..Len(id) /\ Len(id) \in 1..Len(id) /\ Head(id) = id[1] /\ Last(id) = id[Len(id)]
        BY <3>1 DEF Last
      <4>2. QED BY <4>1
    <3>2. QED BY <1>2, <3>1
  <2>2. QED BY <2>1 DEF TrimDash
<1>9. QED BY <1>7, <1>8 DEF toLowerRFC1123, r, n

\* One sequence after another.
LEMMA Joined ==
  ASSUME NEW S, NEW s1 \in Seq(S), NEW s2 \in Seq(S)
  PROVE  /\ s1 \o s2 \in Seq(S) /\ Len(s1 \o s2) = Len(s1) + Len(s2)
         /\ \A j \in 1..Len(s1) : (s1 \o s2)[j] = s1[j]
         /\ \A j \in 1..Len(s2) : (s1 \o s2)[Len(s1) + j] = s2[j]
<1>1. Len(s1) \in Nat /\ Len(s2) \in Nat
  OBVIOUS
<1>2. QED BY <1>1, ConcatProperties

\* The decimals of an index: one or two digits, and of no other index.
LEMMA Decimals ==
  ASSUME NEW i \in 0..99
  PROVE  Decimal(i) \in Seq(Digits) /\ Len(Decimal(i)) \in 1..2
<1>1. \A x \in 0..9 : x + 1 \in 1..10 /\ Digit[x + 1] \in Digits
  <2>1. DOMAIN Digit = 1..10
    BY DEF Digit
  <2>2. QED BY <2>1 DEF Digits
<1>2. CASE i < 10
  <2>1. Digit[i + 1] \in Digits /\ Decimal(i) = <<Digit[i + 1]>>
    BY <1>1, <1>2 DEF Decimal
  <2> HIDE DEF Digits
  <2>2. QED BY <2>1
<1>3. CASE ~(i < 10)
  <2>1. i \div 10 \in 0..9 /\ i % 10 \in 0..9
    BY <1>3
  <2> DEFINE x == Digit[(i \div 10) + 1]
             y == Digit[(i % 10) + 1]
  <2>2. x \in Digits /\ y \in Digits /\ Decimal(i) = <<x, y>>
    BY <1>1, <1>3, <2>1 DEF Decimal
  <2> HIDE DEF x, y
  <2>3. QED BY <2>2
<1>4. QED BY <1>2, <1>3

LEMMA DecimalsTell ==
  ASSUME NEW i \in 0..99, NEW k \in 0..99, Decimal(i) = Decimal(k)
  PROVE  i = k
<1>1. \A x, y \in 0..9 : Digit[x + 1] = Digit[y + 1] => x = y
  BY DEF Digit
<1>2. i \div 10 \in 0..9 /\ i % 10 \in 0..9 /\ k \div 10 \in 0..9 /\ k % 10 \in 0..9
  OBVIOUS
<1>3. i = 10 * (i \div 10) + (i % 10) /\ k = 10 * (k \div 10) + (k % 10)
  OBVIOUS
<1>4. CASE i < 10 /\ k < 10
  <2>1. Digit[i + 1] = Digit[k + 1]
    BY <1>4 DEF Decimal
  <2>2. QED BY <1>1, <1>4, <2>1
<1>5. CASE ~(i < 10) /\ ~(k < 10)
  <2>1. Digit[(i \div 10) + 1] = Digit[(k \div 10) + 1] /\ Digit[(i % 10) + 1] = Digit[(k % 10) + 1]
    BY <1>5 DEF Decimal
  <2>2. i \div 10 = k \div 10 /\ i % 10 = k % 10
    BY <1>1, <1>2, <2>1
  <2>3. QED BY <1>3, <2>2
<1>6. CASE i < 10 /\ ~(k < 10)
  BY <1>6 DEF Decimal
<1>7. CASE ~(i < 10) /\ k < 10
  BY <1>7 DEF Decimal
<1>8. QED BY <1>4, <1>5, <1>6, <1>7

\* What a Pod name is made of: the identifier, a dash, what is left of the job's
\* name, a dash, and the index.
LEMMA Parts ==
  ASSUME NEW id \in Seq(Digits), NEW name \in Seq(Rune), NEW i \in 0..99,
         NEW A, "-" \in A, Digits \subseteq A,
         \A j \in 1..Len(name) : ToLower(name[j]) \in Letter \cup Latin \cup Digits => ToLower(name[j]) \in A
  PROVE  LET s == podName(id, name, i)
             a == Len(id)
             d == Len(Decimal(i))
             m == MaxLen - (a + 1) - (d + 1)
         IN  /\ s \in Seq(A)
             /\ Len(s) >= a + 2 + d
             /\ m > 0 => Len(s) <= MaxLen
             /\ \A j \in 1..a : s[j] = id[j]
             /\ s[a + 1] = "-" /\ s[Len(s) - d] = "-"
             /\ \A j \in 1..d : s[(Len(s) - d) + j] = Decimal(i)[j]
<1> DEFINE D == Decimal(i)
           a == Len(id)
           d == Len(D)
           m == MaxLen - (a + 1) - (d + 1)
           prefix == id \o <<"-">>
           suffix == <<"-">> \o D
           mid == toLowerRFC1123(name, m)
           front == prefix \o mid
           s == front \o suffix
<1>1. D \in Seq(Digits) /\ d \in 1..2
  BY Decimals
<1> HIDE DEF D
<1>2. id \in Seq(A) /\ D \in Seq(A) /\ <<"-">> \in Seq(A) /\ a \in Nat /\ d \in Nat
  <2> HIDE DEF Digits
  <2>1. QED BY <1>1
<1>3. <<"-">> \in Seq(A) /\ Len(<<"-">>) = 1 /\ <<"-">>[1] = "-"
  BY <1>2
<1>4. /\ prefix \in Seq(A) /\ Len(prefix) = a + 1
      /\ \A j \in 1..a : prefix[j] = id[j]
      /\ prefix[a + 1] = "-"
  BY ONLY <1>2, <1>3, ConcatProperties
<1>5. /\ suffix \in Seq(A) /\ Len(suffix) = d + 1
      /\ \A j \in 1..d : suffix[j + 1] = D[j]
      /\ suffix[1] = "-"
  BY ONLY <1>2, <1>3, ConcatProperties
<1>6. m \in Int
  BY <1>2, MaxLenAssumption
<1>7. mid \in Seq(A) /\ Len(mid) \in Nat /\ (m > 0 => Len(mid) <= m)
  <2> DEFINE t == Converted(name, m)[Len(name)]
  <2>1. t \in Seq(A) /\ (m > 0 => Len(t) <= m)
    <3> HIDE DEF m
    <3>1. QED BY <1>6, LoopResult
  <2> HIDE DEF t, m
  <2>2. TrimDash(t) \in Seq(A) /\ Len(TrimDash(t)) <= Len(t)
    BY <2>1, Trimmed
  <2>3. mid = TrimDash(t)
    BY DEF toLowerRFC1123, t
  <2> HIDE DEF mid
  <2>4. mid \in Seq(A) /\ Len(mid) <= Len(t)
    BY <2>2, <2>3
  <2>5. Len(mid) \in Nat /\ Len(t) \in Nat
    BY <2>1, <2>4
  <2>6. QED BY <1>6, <2>1, <2>4, <2>5
<1>8. podName(id, name, i) = s
  <2>1. toLowerRFC1123(id, -1) = id
    BY IdentifierKept
  <2>2. MaxLen - Len(prefix) - Len(suffix) = m
    BY <1>4, <1>5
  <2>3. podName(id, name, i) = (prefix \o toLowerRFC1123(name, MaxLen - Len(prefix) - Len(suffix))) \o suffix
    BY <2>1 DEF podName, D
  <2>4. QED BY <2>2, <2>3
<1> HIDE DEF prefix, suffix, mid
<1>9. /\ front \in Seq(A) /\ Len(front) = a + 1 + Len(mid)
      /\ \A j \in 1..(a + 1) : front[j] = prefix[j]
  <2>1. /\ front \in Seq(A) /\ Len(front) = Len(prefix) + Len(mid)
        /\ \A j \in 1..Len(prefix) : front[j] = prefix[j]
    BY <1>4, <1>7, Joined
  <2> HIDE DEF front
  <2>2. QED BY <1>4, <2>1
<1> HIDE DEF front
<1>10. /\ s \in Seq(A) /\ Len(s) = a + 2 + d + Len(mid)
       /\ \A j \in 1..Len(front) : s[j] = front[j]
       /\ \A j \in 1..(d + 1) : s[Len(front) + j] = suffix[j]
  <2>1. /\ s \in Seq(A) /\ Len(s) = Len(front) + Len(suffix)
        /\ \A j \in 1..Len(front) : s[j] = front[j]
        /\ \A j \in 1..Len(suffix) : s[Len(front) + j] = suffix[j]
    <3>1. front \in Seq(A) /\ suffix \in Seq(A)
      BY <1>5, <1>9
    <3>2. QED BY ONLY <3>1, Joined
  <2> HIDE DEF s, a, d
  <2>2. Len(s) = a + 2 + d + Len(mid)
    BY <1>2, <1>5, <1>7, <1>9, <2>1
  <2>3. QED BY <1>5, <2>1, <2>2
<1> HIDE DEF s, a, d, m
<1>11. /\ Len(s) >= a + 2 + d
       /\ m > 0 => Len(s) <= MaxLen
  BY <1>2, <1>7, <1>10, MaxLenAssumption DEF m
<1>12. /\ \A j \in 1..a : s[j] = id[j]
       /\ s[a + 1] = "-"
  <2>1. \A j \in 1..(a + 1) : j \in 1..Len(front)
    BY <1>2, <1>7, <1>9
  <2>2. \A j \in 1..(a + 1) : s[j] = prefix[j]
    BY <1>9, <1>10, <2>1
  <2>3. a + 1 \in 1..(a + 1) /\ \A j \in 1..a : j \in 1..(a + 1)
    BY <1>2
  <2>4. QED BY <1>4, <2>2, <2>3
<1>13. Len(s) - d = Len(front) + 1
  BY <1>2, <1>7, <1>9, <1>10
<1>14. s[Len(s) - d] = "-"
  <2>1. 1 \in 1..(d + 1)
    BY <1>2
  <2>2. QED BY <1>5, <1>10, <1>13, <2>1
<1>15. \A j \in 1..d : s[(Len(s) - d) + j] = D[j]
  <2>1. ASSUME NEW j \in 1..d
        PROVE  s[(Len(s) - d) + j] = D[j]
    <3>1. j + 1 \in 1..(d + 1) /\ (Len(s) - d) + j = Len(front) + (j + 1)
      BY <1>2, <1>7, <1>9, <1>10
    <3>2. QED BY <1>5, <1>10, <3>1
  <2>2. QED BY <2>1
<1>16. QED BY <1>8, <1>10, <1>11, <1>12, <1>14, <1>15 DEF D, a, d, m

\* Two jobs, or two nodes of a job, never share a name.
LEMMA PodNameTells ==
  ASSUME NEW id \in Seq(Digits), NEW other \in Seq(Digits), NEW name \in Seq(Rune), NEW called \in Seq(Rune),
         NEW i \in 0..99, NEW k \in 0..99, podName(id, name, i) = podName(other, called, k)
  PROVE  id = other /\ i = k
<1> DEFINE s == podName(id, name, i)
           a == Len(id)
           b == Len(other)
           D == Decimal(i)
           E == Decimal(k)
           d == Len(D)
           e == Len(E)
<1>1. "-" \in Made /\ Digits \subseteq Made /\ Letter \cup Latin \cup Digits \subseteq Made
  BY DEF Made
<1>2. "-" \notin Digits
  BY DEF Digits, Digit
<1>3. /\ a \in Nat /\ b \in Nat
      /\ D \in Seq(Digits) /\ d \in 1..2 /\ E \in Seq(Digits) /\ e \in 1..2
      /\ \A j \in 1..a : id[j] \in Digits
      /\ \A j \in 1..b : other[j] \in Digits
      /\ \A j \in 1..d : D[j] \in Digits
      /\ \A j \in 1..e : E[j] \in Digits
  <2>1. D \in Seq(Digits) /\ d \in 1..2 /\ E \in Seq(Digits) /\ e \in 1..2
    BY Decimals
  <2> HIDE DEF D, E
  <2>2. QED BY <2>1
<1>4. /\ s \in Seq(Made) /\ Len(s) >= a + 2 + d
      /\ \A j \in 1..a : s[j] = id[j]
      /\ s[a + 1] = "-" /\ s[Len(s) - d] = "-"
      /\ \A j \in 1..d : s[(Len(s) - d) + j] = D[j]
  BY <1>1, Parts
<1>5. /\ Len(s) >= b + 2 + e
      /\ \A j \in 1..b : s[j] = other[j]
      /\ s[b + 1] = "-" /\ s[Len(s) - e] = "-"
      /\ \A j \in 1..e : s[(Len(s) - e) + j] = E[j]
  <2> DEFINE t == podName(other, called, k)
  <2>1. /\ Len(t) >= b + 2 + e
        /\ \A j \in 1..b : t[j] = other[j]
        /\ t[b + 1] = "-" /\ t[Len(t) - e] = "-"
        /\ \A j \in 1..e : t[(Len(t) - e) + j] = E[j]
    BY <1>1, Parts
  <2>2. t = s
    OBVIOUS
  <2> HIDE DEF s, t
  <2>3. QED BY <2>1, <2>2
<1>6. Len(s) \in Nat
  <2> HIDE DEF s
  <2>1. QED BY <1>4
<1> HIDE DEF s, a, b, d, e, D, E
<1>7. a = b
  <2>1. ~(a < b)
    <3>1. ASSUME a < b PROVE FALSE
      <4>1. a + 1 \in 1..b
        BY <1>3, <3>1
      <4>2. QED BY <1>2, <1>3, <1>4, <1>5, <4>1
    <3>2. QED BY <3>1
  <2>2. ~(b < a)
    <3>1. ASSUME b < a PROVE FALSE
      <4>1. b + 1 \in 1..a
        BY <1>3, <3>1
      <4>2. QED BY <1>2, <1>3, <1>4, <1>5, <4>1
    <3>2. QED BY <3>1
  <2>3. QED BY <1>3, <2>1, <2>2
<1>8. id = other
  <2>1. Len(id) = Len(other) /\ \A j \in 1..Len(id) : id[j] = other[j]
    BY <1>4, <1>5, <1>7 DEF a, b
  <2>2. QED BY <2>1, SeqEqual
<1>9. d = e
  <2>1. ~(d < e)
    <3>1. ASSUME d < e PROVE FALSE
      <4>1. e - d \in 1..e /\ (Len(s) - e) + (e - d) = Len(s) - d
        BY <1>3, <1>6, <3>1
      <4>2. s[Len(s) - d] = E[e - d]
        BY <1>5, <4>1
      <4>3. QED BY <1>2, <1>3, <1>4, <4>1, <4>2
    <3>2. QED BY <3>1
  <2>2. ~(e < d)
    <3>1. ASSUME e < d PROVE FALSE
      <4>1. d - e \in 1..d /\ (Len(s) - d) + (d - e) = Len(s) - e
        BY <1>3, <1>6, <3>1
      <4>2. s[Len(s) - e] = D[d - e]
        BY <1>4, <4>1
      <4>3. QED BY <1>2, <1>3, <1>5, <4>1, <4>2
    <3>2. QED BY <3>1
  <2>3. QED BY <1>3, <2>1, <2>2
<1>10. D = E
  <2>1. Len(D) = Len(E) /\ \A j \in 1..Len(D) : D[j] = E[j]
    BY <1>4, <1>5, <1>9 DEF d, e
  <2>2. QED BY <1>3, <2>1, SeqEqual
<1>11. i = k
  BY <1>10, DecimalsTell DEF D, E
<1>12. QED BY <1>8, <1>11

\* Kubernetes accepts the names of jobs without Latin-1 letters.
LEMMA PodNameIsLabel ==
  ASSUME NEW id \in Seq(Digits), id # <<>>, Len(id) + 5 <= MaxLen, NEW i \in 0..99,
         NEW name \in Seq(Rune), \A j \in 1..Len(name) : name[j] \notin Latin
  PROVE  IsLabel(podName(id, name, i))
<1> DEFINE s == podName(id, name, i)
           A == Letter \cup Digits \cup {"-"}
           D == Decimal(i)
           d == Len(D)
           m == MaxLen - (Len(id) + 1) - (d + 1)
<1>1. \A j \in 1..Len(name) : ToLower(name[j]) \in Letter \cup Latin \cup Digits => ToLower(name[j]) \in A
  <2>1. "a" \in Letter
    BY DEF Letter
  <2>2. QED BY <2>1 DEF ToLower
<1>2. "-" \in A /\ Digits \subseteq A /\ "-" \notin Digits
  BY DEF Digits, Digit
<1>3. D \in Seq(Digits) /\ d \in 1..2
  BY Decimals
<1>4. /\ s \in Seq(A) /\ Len(s) >= Len(id) + 2 + d
      /\ (m > 0 => Len(s) <= MaxLen)
      /\ \A j \in 1..Len(id) : s[j] = id[j]
      /\ \A j \in 1..d : s[(Len(s) - d) + j] = D[j]
  <2> HIDE DEF A
  <2>1. QED BY <1>1, <1>2, Parts
<1> HIDE DEF s, A, D, d
<1>5. Len(id) \in Nat \ {0} /\ Len(s) \in Nat /\ m > 0
  BY <1>3, <1>4, MaxLenAssumption
<1>6. Len(s) \in 1..MaxLen
  BY <1>3, <1>4, <1>5, MaxLenAssumption
<1>7. Head(s) \in Digits
  <2>1. 1 \in 1..Len(id) /\ Head(s) = s[1]
    BY <1>4, <1>5
  <2>2. QED BY <1>4, <2>1
<1>8. Last(s) \in Digits
  <2>1. d \in 1..d /\ (Len(s) - d) + d = Len(s)
    BY <1>3, <1>5
  <2>2. Last(s) = D[d]
    BY <1>4, <2>1 DEF Last
  <2>3. QED BY <1>3, <2>1, <2>2 DEF d
<1>9. \A j \in DOMAIN s : s[j] \in A
  BY <1>4
<1>10. QED BY <1>2, <1>6, <1>7, <1>8, <1>9 DEF IsLabel, s, A

\* The name of every Pod in the cluster tells of which job and node it is,
\* whatever the users have called the jobs and wherever the names were cut.
THEOREM NamesAreApart ==
  ASSUME 0..(MaxWidth - 1) \subseteq Index
  PROVE  Spec => []NamesApart
<1>1. Confusable = {}
  <2>1. SUFFICES ASSUME NEW i \in Index, NEW id \in Identifier, NEW other \in Identifier, NEW k \in Index,
                        <<id, i>> # <<other, k>>, NEW s \in NamesFor(id, i), s \in NamesFor(other, k)
                 PROVE  FALSE
    BY DEF Confusable
  <2>2. PICK name \in JobName : s = podName(id, name, i)
    BY DEF NamesFor
  <2>3. PICK called \in JobName : s = podName(other, called, k)
    BY <2>1 DEF NamesFor
  <2>4. /\ id \in Seq(Digits) /\ other \in Seq(Digits) /\ name \in Seq(Rune) /\ called \in Seq(Rune)
        /\ i \in 0..99 /\ k \in 0..99
    BY NamesAssumption
  <2>5. id = other /\ i = k
    <3>1. podName(id, name, i) = podName(other, called, k)
      BY <2>2, <2>3
    <3>2. \A x, y \in Seq(Digits), u, v \in Seq(Rune), p, q \in 0..99 :
             podName(x, u, p) = podName(y, v, q) => x = y /\ p = q
      BY PodNameTells
    <3>3. \A y \in Seq(Digits), u, v \in Seq(Rune), p, q \in 0..99 :
             podName(id, u, p) = podName(y, v, q) => id = y /\ p = q
      BY <2>4, <3>2
    <3>4. \A u, v \in Seq(Rune), p, q \in 0..99 :
             podName(id, u, p) = podName(other, v, q) => id = other /\ p = q
      BY <2>4, <3>3
    <3>5. \A v \in Seq(Rune), p, q \in 0..99 :
             podName(id, name, p) = podName(other, v, q) => id = other /\ p = q
      BY <2>4, <3>4
    <3>6. \A p, q \in 0..99 :
             podName(id, name, p) = podName(other, called, q) => id = other /\ p = q
      BY <2>4, <3>5
    <3>7. QED BY <2>4, <3>1, <3>6
  <2>6. QED BY <2>1, <2>5
<1>2. TypeOK => NamesApart
  BY <1>1 DEF NamesApart, Present, Name
<1>3. QED BY <1>2, TypeCorrect, PTL

\* Kubernetes accepts the name of every Pod of a job without letters of Latin-1
\* in its name, when an identifier leaves room for one letter of the job's name.
THEOREM NamesAreAccepted ==
  ASSUME 0..(MaxWidth - 1) \subseteq Index, \A id \in Identifier : Len(id) + 5 <= MaxLen
  PROVE  Spec => []NamesAccepted
<1>1. Refused = {}
  <2>1. SUFFICES ASSUME NEW i \in Index, NEW id \in Identifier, NEW name \in Plain
                 PROVE  IsLabel(podName(id, name, i))
    BY DEF Refused
  <2>2. id \in Seq(Digits) /\ id # <<>> /\ name \in Seq(Rune) /\ i \in 0..99
    BY NamesAssumption DEF Plain
  <2>3. \A j \in 1..Len(name) : name[j] \notin Latin
    BY <2>2 DEF Plain
  <2>4. QED BY <2>2, <2>3, PodNameIsLabel
<1>2. TypeOK => NamesAccepted
  BY <1>1 DEF NamesAccepted, Present, Name
<1>3. QED BY <1>2, TypeCorrect, PTL
=============================================================================
