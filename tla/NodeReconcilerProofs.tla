------------------------ MODULE NodeReconcilerProofs ------------------------
(***************************************************************************)
(* For any nodes, starts and failures: a node has at most one live Virtual *)
(* Kubelet, that of its managed instance, and an instance is removed for a *)
(* complete list only, and not before it has been stopped.                 *)
(***************************************************************************)
EXTENDS NodeReconciler, TLAPS

\* A goroutine is of a start that has been made, and it has read a context
\* before it starts controllers.
StartsAreMade ==
  \A s \in Start :
    /\ goroutine[s] # "none" => s[2] <= ctx[s[1]]
    /\ goroutine[s] \notin {"none", "spawned"} => uses[s] # 0
    /\ active[s] # {} => goroutine[s] \notin {"none", "spawned"}

\* The flags of the nodes received are set.
ReceivedAreTracked == round = "receiving" => received \subseteq tracked

IInv == TypeOK /\ StartsAreMade /\ ReceivedAreTracked /\ LiveIsManaged

-----------------------------------------------------------------------------
(* Facts about instances and their starts *)

\* A context that has been made for an instance, and the next one if there is
\* room for it, are starts.
LEMMA ContextsAreStarts ==
  ASSUME TypeOK, NEW i \in Instance
  PROVE  /\ ctx[i] # 0 => <<i, ctx[i]>> \in Start
         /\ ctx[i] < MaxStart => <<i, ctx[i] + 1>> \in Start
BY NodeAssumption DEF TypeOK, Start

\* The instances of the map are instances.
LEMMA CurrentAreInstances ==
  ASSUME TypeOK, NEW S \in SUBSET Node
  PROVE  Current(S) \subseteq Instance
BY NodeAssumption DEF TypeOK, Instance, Current

\* Live is about the last context: whatever is not cancelled is the last one.
LEMMA NotLive ==
  ASSUME TypeOK, LiveIsManaged, NEW i \in Instance, ~Live(i), NEW k \in 1..ctx[i]
  PROVE  <<i, k>> \in canceled
BY NodeAssumption DEF TypeOK, LiveIsManaged, Live

\* When nothing is started, cancelling keeps LiveIsManaged.
LEMMA CancellingKeeps ==
  ASSUME LiveIsManaged, canceled \subseteq canceled', UNCHANGED <<ctx, instances, up>>
  PROVE  LiveIsManaged'
BY DEF LiveIsManaged

LEMMA InitIInv == Init => IInv
BY NodeAssumption
   DEF Init, IInv, TypeOK, StartsAreMade, ReceivedAreTracked, LiveIsManaged, Stage, Instance, Start

-----------------------------------------------------------------------------
(* Slurm and the loop *)

LEMMA ChangeNodeStep ==
  ASSUME IInv, NEW n \in Node, ChangeNode(n)
  PROVE  IInv'
BY NodeAssumption
   DEF IInv, TypeOK, StartsAreMade, ReceivedAreTracked, LiveIsManaged, ChangeNode, Trouble,
       roundVars, instanceVars

LEMMA StopLoopStep ==
  ASSUME IInv, StopLoop
  PROVE  IInv'
<1>1. Latest(Begun) \subseteq Start
  BY ContextsAreStarts DEF IInv, Latest, Begun
<1>2. TypeOK'
  <2>1. canceled' \subseteq Start
    BY <1>1 DEF IInv, TypeOK, StopLoop
  <2>2. troubles' \in 0..MaxTrouble
    BY NodeAssumption DEF IInv, TypeOK, StopLoop, Trouble
  <2> QED BY <2>1, <2>2 DEF IInv, TypeOK, StopLoop, roundVars
<1>3. LiveIsManaged'
  <2> SUFFICES ASSUME NEW i \in Instance, NEW k \in 1..ctx[i]
               PROVE  <<i, k>> \in canceled'
    BY DEF LiveIsManaged, StopLoop
  <2>1. CASE k = ctx[i]
    BY <2>1, NodeAssumption DEF IInv, TypeOK, StopLoop, Latest, Begun
  <2>2. CASE k # ctx[i]
    BY <2>2 DEF IInv, LiveIsManaged, StopLoop
  <2> QED BY <2>1, <2>2
<1>4. StartsAreMade' /\ ReceivedAreTracked'
  BY DEF IInv, StartsAreMade, ReceivedAreTracked, StopLoop, roundVars
<1> QED BY <1>2, <1>3, <1>4 DEF IInv

LEMMA StartLoopStep ==
  ASSUME IInv, StartLoop
  PROVE  IInv'
BY DEF IInv, TypeOK, StartsAreMade, ReceivedAreTracked, LiveIsManaged, StartLoop, roundVars, instanceVars

-----------------------------------------------------------------------------
(* Rounds *)

LEMMA BeginStep ==
  ASSUME IInv, Begin
  PROVE  IInv'
BY DEF IInv, TypeOK, StartsAreMade, ReceivedAreTracked, LiveIsManaged, Begin, instanceVars

LEMMA ReceiveStep ==
  ASSUME IInv, NEW n \in Node, Receive(n)
  PROVE  IInv'
<1>1. TypeOK'
  BY NodeAssumption DEF IInv, TypeOK, Receive, instanceVars
<1>2. StartsAreMade' /\ ReceivedAreTracked'
  BY DEF IInv, StartsAreMade, ReceivedAreTracked, Receive, instanceVars
<1>3. LiveIsManaged'
  <2> SUFFICES ASSUME NEW i \in Instance, NEW k \in 1..ctx[i], <<i, k>> \notin canceled
               PROVE  up /\ k = ctx[i] /\ instances'[i[1]] = i[2]
    BY DEF LiveIsManaged, Receive, instanceVars
  <2>1. up /\ k = ctx[i] /\ instances[i[1]] = i[2]
    BY DEF IInv, LiveIsManaged
  <2>2. i[1] \in Node /\ i[2] # 0
    BY DEF Instance
  <2>3. instances'[i[1]] = instances[i[1]]
    BY <2>1, <2>2 DEF IInv, TypeOK, Receive
  <2> QED BY <2>1, <2>3
<1> QED BY <1>1, <1>2, <1>3 DEF IInv

LEMMA StreamBreaksStep ==
  ASSUME IInv, StreamBreaks
  PROVE  IInv'
BY NodeAssumption
   DEF IInv, TypeOK, StartsAreMade, ReceivedAreTracked, LiveIsManaged, StreamBreaks, Trouble, instanceVars

\* What Finish leaves of the map, and the contexts it makes and cancels.
LEMMA FinishStep ==
  ASSUME IInv, Finish
  PROVE  IInv'
<1> DEFINE S == Current(tracked)
           T == Current(Node \ tracked)
           new == {i \in S : ~Live(i)}
<1>0. TypeOK /\ LiveIsManaged /\ StartsAreMade
  BY DEF IInv
<1>1. S \subseteq Instance /\ T \subseteq Instance
  BY <1>0, CurrentAreInstances DEF TypeOK
<1>2. /\ \A i \in new : ctx[i] < MaxStart
      /\ ctx' = [i \in Instance |-> IF i \in new THEN ctx[i] + 1 ELSE ctx[i]]
      /\ goroutine' = [s \in Start |->
           IF s[1] \in new /\ s[2] = ctx[s[1]] + 1 THEN "spawned" ELSE goroutine[s]]
      /\ canceled' = canceled \cup Latest(T \cap Begun)
           \cup {<<i, ctx[i] + 1>> : i \in IF up THEN {} ELSE new}
      /\ UNCHANGED <<uses, active, provider>>
  BY DEF Finish, StartsAndStops
<1>3. TypeOK'
  <2>1. canceled' \subseteq Start
    <3>1. Latest(T \cap Begun) \subseteq Start
      BY <1>0, <1>1, ContextsAreStarts DEF Latest, Begun
    <3>2. {<<i, ctx[i] + 1>> : i \in IF up THEN {} ELSE new} \subseteq Start
      BY <1>0, <1>1, <1>2, ContextsAreStarts
    <3> QED BY <1>0, <1>2, <3>1, <3>2 DEF TypeOK
  <2>2. ctx' \in [Instance -> 0..MaxStart]
    BY <1>0, <1>1, <1>2, NodeAssumption DEF TypeOK
  <2>3. goroutine' \in [Start -> Stage]
    BY <1>0, <1>2 DEF TypeOK, Stage
  <2>4. instances' \in [Node -> 0..MaxInstance]
    BY <1>0, NodeAssumption DEF TypeOK, Finish
  <2> QED BY <1>0, <1>2, <2>1, <2>2, <2>3, <2>4 DEF TypeOK, Finish
<1>4. StartsAreMade'
  <2> SUFFICES ASSUME NEW s \in Start
               PROVE  /\ goroutine'[s] # "none" => s[2] <= ctx'[s[1]]
                      /\ goroutine'[s] \notin {"none", "spawned"} => uses'[s] # 0
                      /\ active'[s] # {} => goroutine'[s] \notin {"none", "spawned"}
    BY DEF StartsAreMade
  <2>1. s[1] \in Instance /\ s[2] \in 1..MaxStart /\ ctx[s[1]] \in 0..MaxStart
    BY <1>0 DEF Start, TypeOK
  <2>2. CASE s[1] \in new /\ s[2] = ctx[s[1]] + 1
    <3>1. goroutine[s] = "none"
      BY <2>1, <2>2, <1>0, NodeAssumption DEF StartsAreMade
    <3>2. active[s] = {}
      BY <3>1, <1>0 DEF StartsAreMade
    <3> QED BY <2>1, <2>2, <3>2, <1>2
  <2>3. CASE ~(s[1] \in new /\ s[2] = ctx[s[1]] + 1)
    <3>1. goroutine'[s] = goroutine[s]
      BY <2>3, <1>2
    <3>2. ctx[s[1]] <= ctx'[s[1]]
      BY <2>1, <1>2
    <3>3. ctx'[s[1]] \in 0..MaxStart
      BY <1>3, <2>1 DEF TypeOK
    <3> QED BY <3>1, <3>2, <3>3, <2>1, <1>0, <1>2, NodeAssumption DEF StartsAreMade
  <2> QED BY <2>2, <2>3
<1>5. LiveIsManaged'
  <2> SUFFICES ASSUME NEW i \in Instance, NEW k \in 1..ctx'[i], <<i, k>> \notin canceled'
               PROVE  up' /\ k = ctx'[i] /\ instances'[i[1]] = i[2]
    BY DEF LiveIsManaged
  <2>1. i[1] \in Node /\ i[2] \in 1..MaxInstance /\ i = <<i[1], i[2]>>
    BY DEF Instance
  <2>2. ctx[i] \in 0..MaxStart
    BY <1>0 DEF TypeOK
  <2>3. <<i, k>> \notin canceled
    BY <1>2
  <2>4. CASE i \in new
    <3>1. ctx'[i] = ctx[i] + 1
      BY <1>2, <2>4
    <3>2. k = ctx[i] + 1
      <4> SUFFICES ASSUME k # ctx[i] + 1 PROVE FALSE
        OBVIOUS
      <4>1. k \in 1..ctx[i]
        BY <3>1, <2>2, NodeAssumption
      <4> QED BY <4>1, <2>3, <2>4, <1>0, NotLive
    <3>3. up
      BY <3>2, <2>4, <1>2
    <3>4. i[1] \in tracked /\ instances[i[1]] = i[2]
      BY <2>4, <1>0 DEF Current, TypeOK
    <3> QED BY <3>1, <3>2, <3>3, <3>4, <2>1 DEF Finish
  <2>5. CASE i \notin new
    <3>1. ctx'[i] = ctx[i]
      BY <1>2, <2>5
    <3>2. up /\ k = ctx[i] /\ instances[i[1]] = i[2]
      BY <3>1, <2>3, <1>0 DEF LiveIsManaged
    <3>3. i[1] \in tracked
      <4> SUFFICES ASSUME i[1] \notin tracked PROVE FALSE
        OBVIOUS
      <4>1. i \in T
        BY <2>1, <3>2, NodeAssumption DEF Current
      <4>2. i \in Begun
        BY <2>2, <3>2 DEF Begun
      <4>3. <<i, k>> \in Latest(T \cap Begun)
        BY <4>1, <4>2, <3>2 DEF Latest
      <4> QED BY <4>3, <1>2
    <3> QED BY <3>1, <3>2, <3>3, <2>1 DEF Finish
  <2> QED BY <2>4, <2>5
<1>6. ReceivedAreTracked'
  BY DEF ReceivedAreTracked, Finish
<1> QED BY <1>3, <1>4, <1>5, <1>6 DEF IInv

-----------------------------------------------------------------------------
(* Run and the controllers *)

LEMMA RunStepStep ==
  ASSUME IInv, NEW s \in Start, RunStep(s)
  PROVE  IInv'
<1>0. /\ s[1] \in Instance /\ s[2] \in 1..MaxStart /\ ctx[s[1]] \in 0..MaxStart
      /\ TypeOK /\ StartsAreMade /\ LiveIsManaged /\ ReceivedAreTracked
  BY DEF IInv, TypeOK, Start
<1>1. UNCHANGED <<listed, up, roundVars, ctx, canceled, troubles>>
  BY DEF RunStep, Run, MakeProvider, Ready, GivesUp, RunOnly
<1>2. LiveIsManaged' /\ ReceivedAreTracked'
  BY <1>0, <1>1, CancellingKeeps DEF ReceivedAreTracked, roundVars
<1>3. CASE Run(s)
  <2>1. s[2] <= ctx[s[1]] /\ ctx[s[1]] # 0
    BY <1>0, <1>3, NodeAssumption DEF StartsAreMade, Run, Goes
  <2>2. TypeOK'
    BY <1>0, <1>1, <1>3, NodeAssumption DEF TypeOK, Run, Goes, Stage, roundVars
  <2>3. StartsAreMade'
    BY <1>0, <1>1, <1>3, <2>1 DEF TypeOK, StartsAreMade, Run, Goes
  <2> QED BY <1>2, <2>2, <2>3 DEF IInv
<1>4. CASE MakeProvider(s)
  <2>1. TypeOK'
    BY <1>0, <1>1, <1>4, NodeAssumption DEF TypeOK, MakeProvider, Goes, Stage, Controllers, roundVars
  <2>2. StartsAreMade'
    BY <1>0, <1>1, <1>4 DEF TypeOK, StartsAreMade, MakeProvider, Goes
  <2> QED BY <1>2, <2>1, <2>2 DEF IInv
<1>5. CASE Ready(s)
  <2> PICK c \in active[s] :
        /\ Goes(s, c, After(c))
        /\ active' = [active EXCEPT ![s] = @ \cup ({After(c)} \cap Controllers)]
        /\ UNCHANGED <<canceled, uses, provider>> /\ RunOnly
    BY <1>5 DEF Ready
  <2>1. c \in Controllers
    BY <1>0 DEF TypeOK
  <2>2. After(c) \in Stage \ {"none", "spawned"} /\ c \notin {"none", "spawned"}
    BY <2>1, NodeAssumption DEF After, Stage, Controllers
  <2>3. TypeOK'
    BY <1>0, <1>1, <2>2 DEF TypeOK, Goes, roundVars
  <2>4. StartsAreMade'
    BY <1>0, <1>1, <2>2 DEF TypeOK, StartsAreMade, Goes
  <2> QED BY <1>2, <2>3, <2>4 DEF IInv
<1>6. CASE GivesUp(s)
  <2> PICK c \in Controllers :
        /\ Goes(s, c, "returned")
        /\ UNCHANGED <<canceled, uses, active, provider>>
    BY <1>6 DEF GivesUp
  <2>1. c \notin {"none", "spawned"}
    BY DEF Controllers
  <2>2. TypeOK'
    BY <1>0, <1>1 DEF TypeOK, Goes, Stage, roundVars
  <2>3. StartsAreMade'
    BY <1>0, <1>1, <2>1 DEF TypeOK, StartsAreMade, Goes
  <2> QED BY <1>2, <2>2, <2>3 DEF IInv
<1> QED BY <1>3, <1>4, <1>5, <1>6 DEF RunStep

LEMMA SetupFailsStep ==
  ASSUME IInv, NEW s \in Start, SetupFails(s)
  PROVE  IInv'
<1>0. s[1] \in Instance /\ s[2] \in 1..MaxStart
  BY DEF Start
<1>1. LiveIsManaged' /\ ReceivedAreTracked'
  BY CancellingKeeps DEF IInv, ReceivedAreTracked, SetupFails, roundVars
<1>2. TypeOK'
  BY <1>0, NodeAssumption DEF IInv, TypeOK, SetupFails, Goes, Stage, Trouble, roundVars
<1>3. StartsAreMade'
  BY DEF IInv, TypeOK, StartsAreMade, SetupFails, Goes
<1> QED BY <1>1, <1>2, <1>3 DEF IInv

\* ControllerStops and ControllerFails.
LEMMA EndsStep ==
  ASSUME IInv, NEW s \in Start, NEW c \in Controllers, Ends(s, c), troubles' \in 0..MaxTrouble
  PROVE  IInv'
<1>1. uses[s] # 0
  BY DEF IInv, StartsAreMade, Ends
<1>2. <<s[1], uses[s]>> \in Start
  BY <1>1, NodeAssumption DEF IInv, TypeOK, Start
<1>3. TypeOK'
  BY <1>2 DEF IInv, TypeOK, Ends, roundVars
<1>4. StartsAreMade' /\ ReceivedAreTracked'
  BY DEF IInv, TypeOK, StartsAreMade, ReceivedAreTracked, Ends, roundVars
<1>5. LiveIsManaged'
  BY CancellingKeeps DEF IInv, Ends, roundVars
<1> QED BY <1>3, <1>4, <1>5 DEF IInv

-----------------------------------------------------------------------------
LEMMA NextIInv ==
  ASSUME IInv, Next
  PROVE  IInv'
<1>1. CASE \E n \in Node : ChangeNode(n)
  BY <1>1, ChangeNodeStep
<1>2. CASE StopLoop \/ StartLoop
  BY <1>2, StopLoopStep, StartLoopStep
<1>3. CASE Round \/ StreamBreaks
  BY <1>3, BeginStep, ReceiveStep, FinishStep, StreamBreaksStep DEF Round
<1>4. ASSUME NEW s \in Start, RunStep(s) \/ SetupFails(s)
      PROVE  IInv'
  BY <1>4, RunStepStep, SetupFailsStep
<1>5. ASSUME NEW s \in Start, NEW c \in Controllers, ControllerStops(s, c) \/ ControllerFails(s, c)
      PROVE  IInv'
  <2>1. Ends(s, c) /\ troubles' \in 0..MaxTrouble
    BY <1>5, NodeAssumption DEF IInv, TypeOK, ControllerStops, ControllerFails, Trouble
  <2> QED BY <2>1, EndsStep
<1> QED BY <1>1, <1>2, <1>3, <1>4, <1>5 DEF Next

LEMMA StutterIInv ==
  ASSUME IInv, UNCHANGED vars
  PROVE  IInv'
BY DEF IInv, TypeOK, StartsAreMade, ReceivedAreTracked, LiveIsManaged, vars, roundVars, instanceVars

THEOREM Invariance == Spec => []IInv
<1>1. IInv /\ [Next]_vars => IInv'
  BY NextIInv, StutterIInv
<1> QED BY <1>1, InitIInv, PTL DEF Spec

\* TypeOK holds in every behaviour.
THEOREM TypeCorrect == Spec => []TypeOK
<1>1. IInv => TypeOK
  BY DEF IInv
<1> QED BY <1>1, Invariance, PTL

\* A node has at most one context that is not cancelled, the last one of the
\* instance in the map, and none while the loop is stopped.
THEOREM OneLiveInstance == Spec => []LiveIsManaged
<1>1. IInv => LiveIsManaged
  BY DEF IInv
<1> QED BY <1>1, Invariance, PTL

\* An instance is removed only at the end of a complete list without its node,
\* and with its last context cancelled.
THEOREM RemovalIsSafe == Spec => RemovesOnlyUnlisted
<1> DEFINE Safe(n) ==
      LET i == <<n, instances[n]>>
      IN n \notin listing /\ (ctx'[i] = 0 \/ <<i, ctx'[i]>> \in canceled')
<1>1. ASSUME IInv, Next, NEW n \in Node, instances[n] # 0, instances'[n] # instances[n]
      PROVE  Safe(n)
  <2>1. Finish
    <3>1. ASSUME NEW m \in Node, Receive(m) PROVE FALSE
      BY <1>1, <3>1 DEF IInv, TypeOK, Receive
    <3> QED
      BY <1>1, <3>1
         DEF Next, ChangeNode, StopLoop, StartLoop, Round, Begin, StreamBreaks, RunStep, Run, MakeProvider,
             Ready, GivesUp, RunOnly, SetupFails, ControllerStops, ControllerFails, Ends, roundVars
  <2>2. n \notin tracked /\ n \notin listing
    BY <1>1, <2>1 DEF IInv, TypeOK, ReceivedAreTracked, Finish
  <2> DEFINE i == <<n, instances[n]>>
  <2>3. i \in Current(Node \ tracked) /\ i \notin Current(tracked) /\ i \in Instance
    BY <1>1, <2>2, NodeAssumption DEF IInv, TypeOK, Current, Instance
  <2>4. ctx'[i] = ctx[i]
    BY <2>1, <2>3 DEF Finish, StartsAndStops
  <2>5. ctx[i] # 0 => <<i, ctx[i]>> \in canceled'
    <3> SUFFICES ASSUME ctx[i] # 0 PROVE <<i, ctx[i]>> \in canceled'
      OBVIOUS
    <3>1. i \in Current(Node \ tracked) \cap Begun
      BY <2>3 DEF Begun
    <3> HIDE DEF i
    <3>2. <<i, ctx[i]>> \in Latest(Current(Node \ tracked) \cap Begun)
      BY <3>1 DEF Latest
    <3> QED BY <2>1, <3>2 DEF Finish, StartsAndStops
  <2> QED BY <2>2, <2>4, <2>5
<1>2. IInv /\ [Next]_vars =>
        [\A n \in Node : instances[n] # 0 /\ instances'[n] # instances[n] => Safe(n)]_vars
  BY <1>1
<1>3. RemovesOnlyUnlisted <=>
        [][\A n \in Node : instances[n] # 0 /\ instances'[n] # instances[n] => Safe(n)]_vars
  BY PTL DEF RemovesOnlyUnlisted
<1> QED BY <1>2, <1>3, Invariance, PTL DEF Spec
=============================================================================
