--------------------------- MODULE MutualTlsProofs ---------------------------
(***************************************************************************)
(* Proofs about MutualTls: for any options, any number of pairs, days and  *)
(* failures.  The CA of a pair is its number, by which both processes know *)
(* the pair that the other one has loaded.                                 *)
(***************************************************************************)
EXTENDS MutualTls, TLAPS

\* Every pair has a CA of its own.
OwnCa == \A i \in 1..Len(pairs) : pairs[i].ca = i

\* A tunnel needs two processes that have loaded the same pair.
TunnelOK ==
  tunnel = "open" => /\ agent.at \in {"serving", "stopping"}
                     /\ controller # None /\ agent.pair = controller

\* The tool at work has not returned and has a pair as soon as it has made one;
\* the file of the controller is written before that of the agent.
ToolOK ==
  /\ tool.at # "idle" => tool.result = "none" /\ Accepted(tool.opts)
  /\ tool.at \notin {"idle", "creating"} => tool.opts.endpoint # "opaque" /\ tool.pair # None
  /\ tool.at \notin {"idle", "creating", "encoding"} => tool.opts.filter # "broken"
  /\ tool.at \in {"agent", "agent opened"} => file["controller"] = tool.pair

\* A process that is up has loaded a pair.
AgentOK == agent.at = "dialing" => agent.pair # None

IInv == TypeOK /\ OwnCa /\ TunnelOK /\ ToolOK /\ AgentOK /\ SuccessIsAPair

\* Appending a pair leaves the others where they are.
LEMMA PairsAppend ==
  ASSUME pairs \in Seq(Pair), NEW p \in Pair
  PROVE  /\ Append(pairs, p) \in Seq(Pair) /\ Len(Append(pairs, p)) = Len(pairs) + 1
         /\ Append(pairs, p)[Len(pairs) + 1] = p
         /\ \A i \in 1..Len(pairs) : Append(pairs, p)[i] = pairs[i]
  OBVIOUS

LEMMA ValidityInt == ASSUME NEW d \in Nat PROVE Validity(d) \in Int
  BY MutualTlsAssumption DEF Validity

LEMMA InitIInv == Init => IInv
<1>1. Init => TypeOK
  <2> SUFFICES ASSUME Init PROVE TypeOK
    OBVIOUS
  <2>1. pairs \in Seq(Pair) /\ file \in [Side -> {Torn, None} \cup (1..Len(pairs))]
    BY DEF Init, Side, None
  <2>2. tool \in [at : Stage, opts : Option, pair : {None} \cup (1..Len(pairs)),
                  result : {"none", "success", "refused", "failed"}]
    BY DEF Init, Stage
  <2>3. /\ agent \in [at : {"down", "dialing", "serving", "stopping"}, pair : {None} \cup (1..Len(pairs))]
        /\ controller \in {None} \cup (1..Len(pairs))
    BY DEF Init
  <2> QED BY <2>1, <2>2, <2>3 DEF Init, TypeOK
<1>2. Init => OwnCa /\ TunnelOK /\ AgentOK
  BY DEF Init, OwnCa, TunnelOK, AgentOK
<1>3. Init => ToolOK /\ SuccessIsAPair
  BY DEF Init, ToolOK, SuccessIsAPair
<1> QED BY <1>1, <1>2, <1>3 DEF IInv

\* The steps that count keep the types.
LEMMA CountingTypes ==
  ASSUME TypeOK, Tick \/ (\E s \in Side : WriteFails(s)) \/ ControllerFails \/ Interrupt
  PROVE  TypeOK'
<1>1. CASE Tick
  BY <1>1 DEF TypeOK, Tick, processVars
<1>2. ASSUME NEW s \in Side, WriteFails(s) PROVE TypeOK'
  <2>1. trouble' \in Nat
    BY <1>2 DEF TypeOK, WriteFails
  <2>2. tool' \in [at : Stage, opts : Option, pair : {None} \cup (1..Len(pairs)),
                  result : {"none", "success", "refused", "failed"}]
    BY <1>2 DEF TypeOK, WriteFails, Returns, Stage
  <2> QED
    BY <1>2, <2>1, <2>2 DEF TypeOK, WriteFails, processVars
<1>3. CASE ControllerFails
  BY <1>3 DEF TypeOK, ControllerFails, ControllerStops
<1>4. CASE Interrupt
  BY <1>4 DEF TypeOK, Interrupt
<1> QED BY <1>1, <1>2, <1>3, <1>4

\* The steps of the tool that make no pair.
LEMMA ToolStep ==
  ASSUME IInv, \/ \E o \in Option : Call(o)
               \/ Encode
               \/ \E s \in Side : OpenFile(s) \/ WriteFile(s) \/ WriteFails(s)
  PROVE  IInv'
<1> USE DEF IInv, TypeOK, OwnCa, TunnelOK, ToolOK, AgentOK, SuccessIsAPair, Stage, Side, None, Torn
<1>1. ASSUME NEW o \in Option, Call(o) PROVE IInv'
  BY <1>1 DEF Call, processVars
<1>2. CASE Encode
  <2>1. CASE tool.opts.filter = "broken"
    BY <1>2, <2>1 DEF Encode, Returns, processVars
  <2>2. CASE tool.opts.filter # "broken"
    BY <1>2, <2>2 DEF Encode, Goes, processVars
  <2> QED BY <2>1, <2>2
<1>3. ASSUME NEW s \in Side, OpenFile(s) PROVE IInv'
  BY <1>3 DEF OpenFile, Goes, Opened, processVars
<1>4. ASSUME NEW s \in Side, WriteFile(s) PROVE IInv'
  BY <1>4 DEF WriteFile, Returns, Opened, processVars
<1>5. ASSUME NEW s \in Side, WriteFails(s) PROVE IInv'
  <2>1. TypeOK'
    BY <1>5, CountingTypes
  <2>2. OwnCa' /\ TunnelOK' /\ AgentOK'
    BY <1>5 DEF WriteFails, processVars
  <2>3. ToolOK' /\ SuccessIsAPair'
    BY <1>5 DEF WriteFails, Returns, processVars
  <2> QED BY <2>1, <2>2, <2>3
<1> QED BY <1>1, <1>2, <1>3, <1>4, <1>5

LEMMA CreateStep == ASSUME IInv, CreatePair PROVE IInv'
<1>1. CASE tool.opts.endpoint = "opaque"
  BY <1>1 DEF CreatePair, Returns, processVars, IInv, TypeOK, OwnCa, TunnelOK, ToolOK, AgentOK,
              SuccessIsAPair, Stage, Side, None, Torn
<1>2. CASE tool.opts.endpoint # "opaque"
  <2> DEFINE p == [ca |-> Len(pairs) + 1, endpoint |-> tool.opts.endpoint,
                   filter |-> tool.opts.filter, from |-> day,
                   until |-> day + Validity(tool.opts.days)]
             n == Len(pairs) + 1
  <2>0. pairs \in Seq(Pair) /\ Len(pairs) \in Nat /\ n \in Nat \ {0} /\ OwnCa
    BY DEF IInv, TypeOK
  <2>1. p \in Pair
    <3>1. tool.opts \in [complete : BOOLEAN, endpoint : Endpoint, filter : Filter, days : Nat]
      BY MutualTlsAssumption DEF IInv, TypeOK
    <3>2. day + Validity(tool.opts.days) \in Int /\ day \in Nat
      BY <3>1, ValidityInt DEF IInv, TypeOK
    <3> QED BY <2>0, <3>1, <3>2 DEF Pair
  <2>2. /\ tool.at = "creating" /\ pairs' = Append(pairs, p)
        /\ tool' = [tool EXCEPT !.at = "encoding", !.pair = n]
        /\ UNCHANGED <<day, file, controller, agent, tunnel, trouble>>
    BY <1>2 DEF CreatePair, processVars
  <2>3. /\ pairs' \in Seq(Pair) /\ Len(pairs') = n /\ pairs'[n] = p /\ p.ca = n
        /\ \A i \in 1..Len(pairs) : pairs'[i] = pairs[i]
    BY <2>0, <2>1, <2>2, PairsAppend
  <2> HIDE DEF p
  <2>4. OwnCa'
    <3> SUFFICES ASSUME NEW i \in 1..n PROVE pairs'[i].ca = i
      BY <2>3 DEF OwnCa
    <3>1. i = n \/ i \in 1..Len(pairs)
      BY <2>0, <2>3
    <3> QED BY <2>0, <2>3, <3>1 DEF OwnCa
  <2>5. TypeOK'
    <3>1. n \in 1..n /\ 1..Len(pairs) \subseteq 1..n
      BY <2>0
    <3> HIDE DEF n
    <3>2. file' \in [Side -> {Torn, None} \cup (1..n)]
      BY <2>2, <3>1 DEF IInv, TypeOK
    <3>3. tool' \in [at : Stage, opts : Option, pair : {None} \cup (1..n),
                     result : {"none", "success", "refused", "failed"}]
      BY <2>2, <3>1 DEF IInv, TypeOK, Stage
    <3>4. /\ controller' \in {None} \cup (1..n)
          /\ agent' \in [at : {"down", "dialing", "serving", "stopping"}, pair : {None} \cup (1..n)]
      BY <2>2, <3>1 DEF IInv, TypeOK
    <3> QED BY <2>2, <2>3, <3>2, <3>3, <3>4 DEF IInv, TypeOK
  <2>6. TunnelOK' /\ AgentOK'
    BY <2>2 DEF IInv, TunnelOK, AgentOK
  <2>7. ToolOK' /\ SuccessIsAPair'
    BY <1>2, <2>0, <2>2 DEF IInv, TypeOK, ToolOK, SuccessIsAPair, None
  <2> QED
    BY <2>4, <2>5, <2>6, <2>7 DEF IInv
<1> QED BY <1>1, <1>2

\* The steps of the clock and of the two processes.
LEMMA ProcessStep ==
  ASSUME IInv, \/ Tick \/ ControllerStarts \/ Rollout \/ ControllerFails
               \/ AgentStarts \/ Run \/ Interrupt
  PROVE  IInv'
<1> USE DEF IInv, TypeOK, OwnCa, TunnelOK, ToolOK, AgentOK, SuccessIsAPair, Stage, Side, None, Torn
<1>1. CASE Tick
  <2>1. TypeOK'
    BY <1>1, CountingTypes
  <2>2. OwnCa' /\ TunnelOK' /\ AgentOK'
    BY <1>1 DEF Tick, processVars
  <2>3. ToolOK' /\ SuccessIsAPair'
    BY <1>1 DEF Tick, processVars
  <2> QED BY <2>1, <2>2, <2>3
<1>2. CASE ControllerStarts
  BY <1>2 DEF ControllerStarts
<1>3. CASE Rollout
  BY <1>3 DEF Rollout, ControllerStops
<1>4. CASE ControllerFails
  <2>1. TypeOK'
    BY <1>4, CountingTypes
  <2>2. OwnCa' /\ TunnelOK' /\ AgentOK'
    BY <1>4 DEF ControllerFails, ControllerStops
  <2>3. ToolOK' /\ SuccessIsAPair'
    BY <1>4 DEF ControllerFails, ControllerStops
  <2> QED BY <2>1, <2>2, <2>3
<1>5. CASE AgentStarts
  BY <1>5 DEF AgentStarts
<1>6. CASE Run
  <2>1. CASE Connect
    <3>1. controller # None /\ pairs[agent.pair].ca = pairs[controller].ca /\ agent.pair # None
      BY <2>1 DEF Connect, AgentMoves, Accepts, Trusts
    <3>2. agent.pair = controller
      BY <3>1
    <3> QED BY <2>1, <3>1, <3>2 DEF Connect, AgentMoves
  <2>2. CASE ConnectFails
    BY <2>2 DEF ConnectFails, AgentMoves
  <2>3. CASE TunnelEnds
    BY <2>3 DEF TunnelEnds, AgentMoves
  <2>4. CASE AgentExits
    BY <2>4 DEF AgentExits, AgentMoves
  <2> QED BY <1>6, <2>1, <2>2, <2>3, <2>4 DEF Run
<1>7. CASE Interrupt
  <2>1. TypeOK'
    BY <1>7, CountingTypes
  <2>2. OwnCa' /\ TunnelOK' /\ AgentOK'
    BY <1>7 DEF Interrupt
  <2>3. ToolOK' /\ SuccessIsAPair'
    BY <1>7 DEF Interrupt
  <2> QED BY <2>1, <2>2, <2>3
<1> QED BY <1>1, <1>2, <1>3, <1>4, <1>5, <1>6, <1>7

LEMMA Inductive == IInv /\ [Next]_vars => IInv'
<1> SUFFICES ASSUME IInv, [Next]_vars PROVE IInv'
  OBVIOUS
<1>1. CASE UNCHANGED vars
  BY <1>1 DEF vars, processVars, IInv, TypeOK, OwnCa, TunnelOK, ToolOK, AgentOK, SuccessIsAPair
<1> QED
  BY <1>1, ToolStep, CreateStep, ProcessStep DEF Next, Generate

LEMMA Invariance == Spec => []IInv
  BY InitIInv, Inductive, PTL DEF Spec

\* The variables have their types in every behaviour.
THEOREM TypeCorrect == Spec => []TypeOK
  BY Invariance, PTL DEF IInv

\* However calls of the tool, starts and stops interleave, a tunnel has the
\* credentials of one pair at its ends: TunnelIsBonded.
THEOREM TunnelsAreBonded == Spec => []TunnelIsBonded
<1>1. IInv => TunnelIsBonded
  BY DEF IInv, TunnelOK, TunnelIsBonded
<1> QED BY <1>1, Invariance, PTL

\* A call that says success has left one pair in the files: SuccessIsAPair.
THEOREM SuccessLeavesAPair == Spec => []SuccessIsAPair
  BY Invariance, PTL DEF IInv

\* Nothing is written for options that cannot be honoured: RefusedBeforeWriting.
THEOREM RefusalsWriteNothing == Spec => RefusedBeforeWriting
<1>1. ASSUME IInv, [Next]_vars PROVE [file' # file => Usable(tool.opts)]_vars
  <2>1. ASSUME NEW s \in Side, OpenFile(s) \/ WriteFile(s) PROVE Usable(tool.opts)
    BY <1>1, <2>1 DEF IInv, ToolOK, OpenFile, WriteFile, Goes, Opened, Usable, Side
  <2>2. file' # file => \E s \in Side : OpenFile(s) \/ WriteFile(s)
    BY <1>1 DEF Next, vars, processVars, Tick, Call, Generate, CreatePair, Encode, WriteFails,
                ControllerStarts, Rollout, ControllerFails, AgentStarts, Run, Connect,
                ConnectFails, TunnelEnds, AgentExits, Interrupt, Goes
  <2> QED BY <2>1, <2>2
<1> QED BY <1>1, Invariance, PTL DEF Spec, RefusedBeforeWriting
=============================================================================
