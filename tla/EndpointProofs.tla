---------------------------- MODULE EndpointProofs ----------------------------
(***************************************************************************)
(* The reconciliation loops and the endpoint that starts and stops them,   *)
(* for any number of reconcilers, callers and tunnels.  First the loops:   *)
(* one goroutine per reconciler, and none once Stop has returned.  Then    *)
(* the endpoint: its callbacks are uses of the reconcilers that            *)
(* ReconcilerLoop allows, and an endpoint that has gone idle has stopped   *)
(* them.                                                                   *)
(***************************************************************************)
EXTENDS Endpoint, TLAPS

-----------------------------------------------------------------------------
(* The reconciliation loops *)

\* The goroutine that cancel belongs to is the only one there is; the mutex is
\* held across a Stop only, and a loop that is being stopped is not running.
OwnGoroutine(l) ==
  /\ Alive(l) \subseteq {current[l]}
  /\ running[l] => current[l] \in Alive(l) \ canceled[l]
  /\ ~running[l] /\ holder[l] = NoCaller => Alive(l) = {}
  /\ holder[l] # NoCaller => ~running[l] /\ Calling(holder[l], "stop", l)

LoopIInv == LoopTypeOK /\ \A l \in Loop : OwnGoroutine(l)

-----------------------------------------------------------------------------
LEMMA LoopInitIInv == LoopInit => LoopIInv
  BY DEF LoopInit, LoopIInv, LoopTypeOK, OwnGoroutine, Alive

\* What a call does to its caller: nobody holds a mutex through it.
LEMMA ReturnStep ==
  ASSUME LoopIInv, NEW c \in Caller, NEW op \in {"start", "stop"}, NEW l \in Loop,
         Calling(c, op, l), Return(c)
  PROVE  /\ calls' \in [Caller -> Seq(CallType)]
         /\ \A m \in Loop, d \in Caller : d # c /\ Calling(d, "stop", m) => Calling(d, "stop", m)'
         /\ \A m \in Loop : holder[m] = c => op = "stop" /\ m = l
<1>1. calls[c] \in Seq(CallType) /\ calls[c] # <<>>
  BY DEF LoopIInv, LoopTypeOK, Calling
<1>2. Tail(calls[c]) \in Seq(CallType)
  BY <1>1
<1>3. calls' \in [Caller -> Seq(CallType)]
  BY <1>2 DEF Return, LoopIInv, LoopTypeOK
<1>4. \A m \in Loop, d \in Caller : d # c /\ Calling(d, "stop", m) => Calling(d, "stop", m)'
  BY DEF Return, Calling, LoopIInv, LoopTypeOK
<1>5. \A m \in Loop : holder[m] = c => op = "stop" /\ m = l
  <2>1. SUFFICES ASSUME NEW m \in Loop, holder[m] = c
                 PROVE  op = "stop" /\ m = l
    OBVIOUS
  <2>2. OwnGoroutine(m) /\ holder[m] # NoCaller
    BY <2>1, LoopAssumption DEF LoopIInv
  <2>3. Head(calls[c]) = [op |-> "stop", loop |-> m]
    BY <2>1, <2>2 DEF OwnGoroutine, Calling
  <2>4. Head(calls[c]) = [op |-> op, loop |-> l]
    BY DEF Calling
  <2>5. Head(calls[c]).op = "stop" /\ Head(calls[c]).loop = m
    BY <2>3
  <2>6. Head(calls[c]).op = op /\ Head(calls[c]).loop = l
    BY <2>4
  <2>7. QED BY <2>5, <2>6
<1>6. QED BY <1>3, <1>4, <1>5

LEMMA StartStep ==
  ASSUME LoopIInv, NEW c \in Caller, NEW l \in Loop, Start(c, l)
  PROVE  LoopIInv'
<1>1. /\ calls' \in [Caller -> Seq(CallType)]
      /\ \A m \in Loop, d \in Caller : d # c /\ Calling(d, "stop", m) => Calling(d, "stop", m)'
      /\ \A m \in Loop : holder[m] # c
  BY ReturnStep DEF Start
<1>2. holder' = holder /\ holder[l] = NoCaller
  BY DEF Start
<1>3. \A m \in Loop : holder'[m] # NoCaller => Calling(holder[m], "stop", m)'
  <2>1. SUFFICES ASSUME NEW m \in Loop, holder[m] # NoCaller
                 PROVE  Calling(holder[m], "stop", m)'
    BY <1>2
  <2>2. holder[m] \in Caller /\ holder[m] # c
    BY <1>1, <2>1 DEF LoopIInv, LoopTypeOK
  <2>3. Calling(holder[m], "stop", m)
    BY <2>1 DEF LoopIInv, OwnGoroutine
  <2>4. QED BY <1>1, <1>2, <2>2, <2>3 DEF Calling
<1>4. CASE running[l]
  <2>1. UNCHANGED <<running, current, stage, canceled>>
    BY <1>4 DEF Start
  <2>2. \A m \in Loop : Alive(m)' = Alive(m)
    BY <2>1 DEF Alive
  <2>3. QED BY <1>1, <1>2, <1>3, <2>1, <2>2 DEF LoopIInv, LoopTypeOK, OwnGoroutine
<1>5. CASE ~running[l]
  <2>1. PICK s \in Slot : Launch(l, s)
    BY <1>5 DEF Start
  <2>2. LoopTypeOK'
    BY <1>1, <1>2, <2>1 DEF Launch, LoopIInv, LoopTypeOK
  <2>3. Alive(l) = {}
    BY <1>2, <1>5 DEF LoopIInv, OwnGoroutine
  <2>4. Alive(l)' = {s} /\ \A m \in Loop \ {l} : Alive(m)' = Alive(m)
    BY <2>1, <2>3 DEF Launch, Alive, LoopIInv, LoopTypeOK
  <2>5. /\ current'[l] = s /\ running'[l] /\ s \notin canceled'[l]
        /\ \A m \in Loop \ {l} : /\ current'[m] = current[m] /\ running'[m] = running[m]
                                 /\ canceled'[m] = canceled[m]
    BY <2>1 DEF Launch, LoopIInv, LoopTypeOK
  <2>6. \A m \in Loop : OwnGoroutine(m)'
    <3>1. OwnGoroutine(l)'
      BY <1>2, <1>3, <2>4, <2>5 DEF OwnGoroutine
    <3>2. ASSUME NEW m \in Loop \ {l} PROVE OwnGoroutine(m)'
      BY <1>2, <1>3, <2>4, <2>5 DEF LoopIInv, OwnGoroutine
    <3>3. QED BY <3>1, <3>2
  <2>7. QED BY <2>2, <2>6 DEF LoopIInv
<1>6. QED BY <1>4, <1>5

LEMMA StopStep ==
  ASSUME LoopIInv, NEW c \in Caller, NEW l \in Loop, Stop(c, l)
  PROVE  LoopIInv'
<1>1. LoopTypeOK'
  BY DEF Stop, LoopIInv, LoopTypeOK
<1>2. \A m \in Loop : Alive(m)' = Alive(m) /\ current'[m] = current[m]
  BY DEF Stop, Alive
<1>3. /\ ~running'[l] /\ holder'[l] = c /\ Calling(c, "stop", l)'
      /\ \A m \in Loop \ {l} : /\ running'[m] = running[m] /\ holder'[m] = holder[m]
                               /\ canceled'[m] = canceled[m]
  BY DEF Stop, Calling, LoopIInv, LoopTypeOK
<1>4. \A m \in Loop : \A d : Calling(d, "stop", m) => Calling(d, "stop", m)'
  BY DEF Stop, Calling
<1>5. \A m \in Loop : OwnGoroutine(m)'
  BY <1>2, <1>3, <1>4, LoopAssumption DEF LoopIInv, OwnGoroutine
<1>6. QED BY <1>1, <1>5 DEF LoopIInv

LEMMA StopEndStep ==
  ASSUME LoopIInv, NEW c \in Caller, NEW l \in Loop, StopEnd(c, l)
  PROVE  LoopIInv'
<1>1. Calling(c, "stop", l) /\ ~running[l] /\ Alive(l) = {}
  BY LoopAssumption DEF StopEnd, LoopIInv, OwnGoroutine
<1>2. /\ calls' \in [Caller -> Seq(CallType)]
      /\ \A m \in Loop, d \in Caller : d # c /\ Calling(d, "stop", m) => Calling(d, "stop", m)'
      /\ \A m \in Loop : holder[m] = c => m = l
  BY <1>1, ReturnStep DEF StopEnd
<1>3. LoopTypeOK'
  BY <1>2 DEF StopEnd, LoopIInv, LoopTypeOK
<1>4. /\ UNCHANGED <<running, current, stage, canceled>>
      /\ holder'[l] = NoCaller /\ \A m \in Loop \ {l} : holder'[m] = holder[m]
  BY DEF StopEnd, LoopIInv, LoopTypeOK
<1>5. \A m \in Loop : Alive(m)' = Alive(m)
  BY <1>4 DEF Alive
<1>6. \A m \in Loop \ {l} : holder[m] \in (Caller \cup {NoCaller}) \ {c}
  BY <1>2 DEF LoopIInv, LoopTypeOK
<1>7. \A m \in Loop : OwnGoroutine(m)'
  BY <1>1, <1>2, <1>4, <1>5, <1>6 DEF LoopIInv, OwnGoroutine
<1>8. QED BY <1>3, <1>7 DEF LoopIInv

\* A goroutine that ends has been cancelled, so that its loop is not running.
LEMMA GoroutineStep ==
  ASSUME LoopIInv, NEW l \in Loop, NEW s \in Slot,
         Reconciled(l, s) \/ Tick(l, s) \/ Exit(l, s)
  PROVE  LoopIInv'
<1>1. /\ UNCHANGED <<running, holder, current, canceled, calls>>
      /\ stage[l][s] # "none"
      /\ \E to \in {"none", "reconciling", "waiting"} :
           /\ stage' = [stage EXCEPT ![l][s] = to]
           /\ to = "none" => s \in canceled[l]
  BY DEF Reconciled, Tick, Exit, Becomes
<1>2. PICK to \in {"none", "reconciling", "waiting"} :
        stage' = [stage EXCEPT ![l][s] = to] /\ (to = "none" => s \in canceled[l])
  BY <1>1
<1>3. LoopTypeOK'
  BY <1>1, <1>2 DEF LoopIInv, LoopTypeOK
<1>4. /\ \A m \in Loop \ {l} : Alive(m)' = Alive(m)
      /\ Alive(l)' = IF to = "none" THEN Alive(l) \ {s} ELSE Alive(l)
  BY <1>1, <1>2 DEF Alive, LoopIInv, LoopTypeOK
<1>5. \A m \in Loop : \A d : Calling(d, "stop", m) => Calling(d, "stop", m)'
  BY <1>1 DEF Calling
<1>6. \A m \in Loop : OwnGoroutine(m)'
  BY <1>1, <1>2, <1>4, <1>5 DEF LoopIInv, OwnGoroutine
<1>7. QED BY <1>3, <1>6 DEF LoopIInv

LEMMA LoopStepIInv ==
  ASSUME LoopIInv, LoopStep
  PROVE  LoopIInv'
<1>1. CASE \E c \in Caller : CallStep(c)
  BY <1>1, StartStep, StopStep, StopEndStep DEF CallStep
<1>2. CASE \E l \in Loop, s \in Slot : Reconciled(l, s) \/ Tick(l, s) \/ Exit(l, s)
  BY <1>2, GoroutineStep
<1>3. QED BY <1>1, <1>2 DEF LoopStep

\* A goroutine that is not in a call takes up new ones.
LEMMA NewCalls ==
  ASSUME LoopIInv, NEW c \in Caller, calls[c] = <<>>, NEW new \in Seq(CallType),
         calls' = [calls EXCEPT ![c] = new],
         UNCHANGED <<running, holder, current, stage, canceled>>
  PROVE  LoopIInv'
<1>1. LoopTypeOK'
  BY DEF LoopIInv, LoopTypeOK
<1>2. \A m \in Loop : Alive(m)' = Alive(m)
  BY DEF Alive
<1>3. \A m \in Loop, d \in Caller : Calling(d, "stop", m) => Calling(d, "stop", m)'
  BY DEF Calling, LoopIInv, LoopTypeOK
<1>4. \A m \in Loop : OwnGoroutine(m)'
  BY <1>2, <1>3 DEF LoopIInv, LoopTypeOK, OwnGoroutine
<1>5. QED BY <1>1, <1>4 DEF LoopIInv

LEMMA LoopNextIInv == LoopIInv /\ [LoopNext]_loopVars => LoopIInv'
<1> SUFFICES ASSUME LoopIInv, [LoopNext]_loopVars PROVE LoopIInv'
  OBVIOUS
<1>1. CASE LoopStep
  BY <1>1, LoopStepIInv
<1>2. CASE \E c \in Caller : Invoke(c)
  <2>1. PICK c \in Caller : Invoke(c)
    BY <1>2
  <2>2. QED BY <2>1, NewCalls DEF Invoke
<1>3. CASE UNCHANGED loopVars
  BY <1>3 DEF loopVars, LoopIInv, LoopTypeOK, OwnGoroutine, Alive, Calling
<1>4. QED BY <1>1, <1>2, <1>3 DEF LoopNext

\* A reconciler never runs two loop goroutines at once.
THEOREM OneLoop == LoopSpec => []AtMostOneLoop
<1>1. LoopIInv => AtMostOneLoop
  BY DEF LoopIInv, OwnGoroutine, AtMostOneLoop
<1>2. QED BY <1>1, LoopInitIInv, LoopNextIInv, PTL DEF LoopSpec

\* Once Stop has returned nothing reconciles; what runs has not been cancelled.
THEOREM StoppedIsStopped == LoopSpec => []RunningIsAlive
<1>1. LoopIInv => RunningIsAlive
  BY DEF LoopIInv, OwnGoroutine, RunningIsAlive
<1>2. QED BY <1>1, LoopInitIInv, LoopNextIInv, PTL DEF LoopSpec

-----------------------------------------------------------------------------
(* The endpoint *)

\* A call that goroutine c still has to make.
Pending(c, op, l) == \E i \in 1..Len(calls[c]) : calls[c][i] = [op |-> op, loop |-> l]

\* No callback is under way in these places.
QuietOK == /\ \A t \in Tunnel : tunnel[t] \in {"absent", "registered", "open"} => calls[t] = <<>>
           /\ main = "serving" => calls[Main] = <<>>

\* A registered channel belongs to a goroutine that has yet to find it closed;
\* reconcilers are started by open callbacks only.
Serving(t) == tunnel[t] \in {"registered", "connecting", "open"}
ReadyOK    == \A t \in ready : Serving(t)
StartsOK   == \A c \in Caller, l \in Loop :
                Pending(c, "start", l) => c \in Tunnel /\ tunnel[c] = "connecting"

\* Whatever runs is still used by a tunnel or going to be stopped.
Wanted(l) == \E t \in Tunnel : Serving(t) \/ Pending(t, "stop", l)
WantedOK  == \A l \in Loop : running[l] => Wanted(l)

IInv == EndpointTypeOK /\ LoopIInv /\ QuietOK /\ ReadyOK /\ StartsOK /\ WantedOK

-----------------------------------------------------------------------------
LEMMA InitIInv == Init => IInv
<1> SUFFICES ASSUME Init PROVE IInv
  OBVIOUS
<1>1. LoopIInv
  BY LoopInitIInv DEF Init
<1>2. EndpointTypeOK
  BY <1>1 DEF Init, EndpointTypeOK, LoopIInv
<1>3. \A c \in Caller : calls[c] = <<>>
  BY DEF Init, LoopInit
<1>4. QuietOK /\ ReadyOK /\ StartsOK
  BY <1>3, EndpointAssumption DEF Init, QuietOK, ReadyOK, StartsOK, Pending
<1>5. WantedOK
  BY DEF Init, LoopInit, WantedOK
<1>6. QED BY <1>1, <1>2, <1>4, <1>5 DEF IInv

\* A call returns: no other call of any goroutine is added or lost.
LEMMA PopStep ==
  ASSUME LoopTypeOK, NEW c \in Caller, calls[c] # <<>>, Return(c)
  PROVE  /\ \A d \in Caller : calls[d] = <<>> => calls'[d] = <<>>
         /\ \A d \in Caller : \A op, l : Pending(d, op, l)' => Pending(d, op, l)
         /\ \A d \in Caller : \A op, l :
              Pending(d, op, l) => Pending(d, op, l)' \/ (d = c /\ Calling(c, op, l))
<1>1. /\ calls'[c] = Tail(calls[c])
      /\ \A d \in Caller : d # c => calls'[d] = calls[d]
      /\ calls[c] \in Seq(CallType)
  BY DEF Return, LoopTypeOK
<1>2. /\ Len(calls[c]) \in Nat \ {0}
      /\ Len(calls'[c]) = Len(calls[c]) - 1
      /\ \A i \in 1..Len(calls'[c]) : calls'[c][i] = calls[c][i + 1]
      /\ Head(calls[c]) = calls[c][1]
  BY <1>1
<1>3. \A d \in Caller : calls[d] = <<>> => calls'[d] = <<>>
  BY <1>1
<1>4. ASSUME NEW d \in Caller, NEW op, NEW l
      PROVE  /\ Pending(d, op, l)' => Pending(d, op, l)
             /\ Pending(d, op, l) => Pending(d, op, l)' \/ (d = c /\ Calling(c, op, l))
  <2>1. CASE d # c
    BY <1>1, <2>1 DEF Pending
  <2>2. CASE d = c
    <3>1. ASSUME NEW i \in 1..Len(calls'[c]), calls'[c][i] = [op |-> op, loop |-> l]
          PROVE  Pending(c, op, l)
      <4>1. i + 1 \in 1..Len(calls[c]) /\ calls[c][i + 1] = [op |-> op, loop |-> l]
        BY <1>2, <3>1
      <4>2. QED BY <4>1 DEF Pending
    <3>2. ASSUME NEW i \in 1..Len(calls[c]), calls[c][i] = [op |-> op, loop |-> l], i # 1
          PROVE  Pending(c, op, l)'
      <4>1. i - 1 \in 1..Len(calls'[c]) /\ calls'[c][i - 1] = calls[c][(i - 1) + 1]
            /\ (i - 1) + 1 = i
        BY <1>2, <3>2
      <4>2. QED BY <3>2, <4>1 DEF Pending
    <3>3. ASSUME calls[c][1] = [op |-> op, loop |-> l]
          PROVE  Calling(c, op, l)
      BY <1>2, <3>3 DEF Calling
    <3>4. QED BY <2>2, <3>1, <3>2, <3>3 DEF Pending
  <2>3. QED BY <2>1, <2>2
<1>5. QED BY <1>3, <1>4

\* The call that a goroutine is making is one it had to make.
LEMMA CallingPending ==
  ASSUME LoopTypeOK, NEW c \in Caller, NEW op, NEW l, Calling(c, op, l)
  PROVE  Pending(c, op, l)
<1>1. calls[c] \in Seq(CallType) /\ calls[c] # <<>> /\ Head(calls[c]) = [op |-> op, loop |-> l]
  BY DEF LoopTypeOK, Calling
<1>2. 1 \in 1..Len(calls[c]) /\ calls[c][1] = [op |-> op, loop |-> l]
  BY <1>1
<1>3. QED BY <1>2 DEF Pending

\* What a step of the reconcilers leaves of the calls, and what runs after it.
LEMMA LoopEffects ==
  ASSUME LoopIInv, LoopStep
  PROVE  /\ \A d \in Caller : calls[d] = <<>> => calls'[d] = <<>>
         /\ \A d \in Caller, l \in Loop : Pending(d, "start", l)' => Pending(d, "start", l)
         /\ \A l \in Loop : running'[l] =>
              \/ running[l] /\ \A d \in Caller : Pending(d, "stop", l) => Pending(d, "stop", l)'
              \/ \E c \in Caller : Pending(c, "start", l)
<1>1. ASSUME NEW c \in Caller, NEW l \in Loop, Start(c, l)
      PROVE  /\ \A d \in Caller : calls[d] = <<>> => calls'[d] = <<>>
             /\ \A d \in Caller, m \in Loop : Pending(d, "start", m)' => Pending(d, "start", m)
             /\ \A m \in Loop : running'[m] =>
                  \/ running[m] /\ \A d \in Caller : Pending(d, "stop", m) => Pending(d, "stop", m)'
                  \/ \E d \in Caller : Pending(d, "start", m)
  <2>1. calls[c] # <<>> /\ Return(c) /\ Calling(c, "start", l) /\ LoopTypeOK
    BY <1>1 DEF Start, Calling, LoopIInv
  <2>2. Pending(c, "start", l)
    BY <2>1, CallingPending
  <2>3. \A m : ~Calling(c, "stop", m)
    <3>1. SUFFICES ASSUME NEW m, Calling(c, "stop", m) PROVE FALSE
      OBVIOUS
    <3>2. Head(calls[c]).op = "start" /\ Head(calls[c]).op = "stop"
      BY <2>1, <3>1 DEF Calling
    <3>3. QED BY <3>2
  <2>4. \A m \in Loop : running'[m] => running[m] \/ m = l
    BY <1>1 DEF Start, Launch, LoopIInv, LoopTypeOK
  <2>5. QED BY <2>1, <2>2, <2>3, <2>4, PopStep
<1>2. ASSUME NEW c \in Caller, NEW l \in Loop, Stop(c, l)
      PROVE  calls' = calls /\ \A m \in Loop : running'[m] => running[m]
  BY <1>2 DEF Stop, LoopIInv, LoopTypeOK
<1>3. ASSUME NEW c \in Caller, NEW l \in Loop, StopEnd(c, l)
      PROVE  /\ \A d \in Caller : calls[d] = <<>> => calls'[d] = <<>>
             /\ \A d \in Caller, m \in Loop : Pending(d, "start", m)' => Pending(d, "start", m)
             /\ \A m \in Loop : running'[m] =>
                  running[m] /\ \A d \in Caller : Pending(d, "stop", m) => Pending(d, "stop", m)'
  <2>1. Calling(c, "stop", l) /\ ~running[l] /\ running' = running /\ Return(c) /\ LoopTypeOK
    BY <1>3, LoopAssumption DEF StopEnd, LoopIInv, OwnGoroutine
  <2>2. calls[c] # <<>>
    BY <2>1 DEF Calling
  <2>3. \A m : Calling(c, "stop", m) => m = l
    <3>1. SUFFICES ASSUME NEW m, Calling(c, "stop", m) PROVE m = l
      OBVIOUS
    <3>2. Head(calls[c]).loop = l /\ Head(calls[c]).loop = m
      BY <2>1, <3>1 DEF Calling
    <3>3. QED BY <3>2
  <2>4. QED BY <2>1, <2>2, <2>3, PopStep
<1>4. ASSUME NEW l \in Loop, NEW s \in Slot, Reconciled(l, s) \/ Tick(l, s) \/ Exit(l, s)
      PROVE  calls' = calls /\ running' = running
  BY <1>4 DEF Reconciled, Tick, Exit, Becomes
<1>5. CASE calls' = calls /\ \A m \in Loop : running'[m] => running[m]
  BY <1>5 DEF Pending
<1>6. QED BY <1>1, <1>2, <1>3, <1>4, <1>5 DEF LoopStep, CallStep

LEMMA ReconcilerStep ==
  ASSUME IInv, LoopStep, UNCHANGED endpointVars
  PROVE  IInv'
<1>1. LoopIInv'
  BY LoopStepIInv DEF IInv
<1>2. EndpointTypeOK'
  BY <1>1 DEF IInv, EndpointTypeOK, LoopIInv, endpointVars
<1>3. /\ \A d \in Caller : calls[d] = <<>> => calls'[d] = <<>>
      /\ \A d \in Caller, l \in Loop : Pending(d, "start", l)' => Pending(d, "start", l)
      /\ \A l \in Loop : running'[l] =>
           \/ running[l] /\ \A d \in Caller : Pending(d, "stop", l) => Pending(d, "stop", l)'
           \/ \E c \in Caller : Pending(c, "start", l)
  BY LoopEffects DEF IInv
<1>4. Tunnel \subseteq Caller /\ Main \in Caller
  BY EndpointAssumption
<1>5. QuietOK' /\ ReadyOK' /\ StartsOK'
  BY <1>3, <1>4 DEF IInv, QuietOK, ReadyOK, StartsOK, Serving, endpointVars
<1>6. WantedOK'
  <2> SUFFICES ASSUME NEW l \in Loop, running'[l] PROVE Wanted(l)'
    BY DEF WantedOK
  <2>1. \A t \in Tunnel : Serving(t)' <=> Serving(t)
    BY DEF Serving, endpointVars
  <2>2. CASE \E c \in Caller : Pending(c, "start", l)
    BY <2>1, <2>2 DEF IInv, StartsOK, Serving, Wanted
  <2>3. CASE running[l] /\ \A d \in Caller : Pending(d, "stop", l) => Pending(d, "stop", l)'
    BY <1>4, <2>1, <2>3 DEF IInv, WantedOK, Wanted
  <2>4. QED BY <1>3, <2>2, <2>3
<1>7. QED BY <1>1, <1>2, <1>5, <1>6 DEF IInv

-----------------------------------------------------------------------------
\* The callbacks are sequences of calls; OnIdle stops every reconciler.
LEMMA Callbacks ==
  /\ OnConnected \in Seq(CallType) /\ OnIdle \in Seq(CallType) /\ <<>> \in Seq(CallType)
  /\ CallsTo("stop", WorkloadLoop, NodeLoop) \in Seq(CallType)
  /\ \A i \in 1..Len(CallsTo("stop", WorkloadLoop, NodeLoop)) :
       CallsTo("stop", WorkloadLoop, NodeLoop)[i].op = "stop"
  /\ \A i \in 1..Len(OnIdle) : OnIdle[i].op = "stop"
  /\ \A l \in Loop : \E i \in 1..Len(OnIdle) : OnIdle[i] = [op |-> "stop", loop |-> l]
<1>1. /\ [op |-> "start", loop |-> NodeLoop] \in CallType
      /\ [op |-> "start", loop |-> WorkloadLoop] \in CallType
      /\ [op |-> "stop", loop |-> NodeLoop] \in CallType
      /\ [op |-> "stop", loop |-> WorkloadLoop] \in CallType
  BY EndpointAssumption DEF CallType
<1>2. OnConnected \in Seq(CallType) /\ OnIdle \in Seq(CallType)
      /\ CallsTo("stop", WorkloadLoop, NodeLoop) \in Seq(CallType)
  BY <1>1 DEF OnConnected, OnIdle, CallsTo
<1>3. /\ Len(OnIdle) = 2 /\ OnIdle[1] = [op |-> "stop", loop |-> NodeLoop]
      /\ OnIdle[2] = [op |-> "stop", loop |-> WorkloadLoop]
      /\ Len(CallsTo("stop", WorkloadLoop, NodeLoop)) = 2
      /\ CallsTo("stop", WorkloadLoop, NodeLoop)[1] = [op |-> "stop", loop |-> WorkloadLoop]
      /\ CallsTo("stop", WorkloadLoop, NodeLoop)[2] = [op |-> "stop", loop |-> NodeLoop]
  BY DEF OnIdle, CallsTo
<1>4. 1..2 = {1, 2}
  OBVIOUS
<1>5. QED BY <1>2, <1>3, <1>4, EndpointAssumption

\* A goroutine that has no call to make goes on to a callback.
LEMMA RunsStep ==
  ASSUME LoopIInv, NEW c \in Caller, calls[c] = <<>>,
         NEW callback \in Seq(CallType), Runs(c, callback)
  PROVE  /\ LoopIInv' /\ Invoke(c) /\ running' = running
         /\ calls'[c] = callback /\ \A d \in Caller \ {c} : calls'[d] = calls[d]
         /\ \A d \in Caller \ {c} : \A op, l : Pending(d, op, l)' <=> Pending(d, op, l)
<1>1. calls'[c] = callback /\ \A d \in Caller \ {c} : calls'[d] = calls[d]
  BY DEF Runs, LoopIInv, LoopTypeOK
<1>2. LoopIInv'
  BY NewCalls DEF Runs
<1>3. Invoke(c)
  BY <1>1 DEF Runs, Invoke
<1>4. \A d \in Caller \ {c} : \A op, l : Pending(d, op, l)' <=> Pending(d, op, l)
  BY <1>1 DEF Pending
<1>5. QED BY <1>1, <1>2, <1>3, <1>4 DEF Runs

\* Steps that make no call: nothing serving becomes absent.
LEMMA SilentStep ==
  ASSUME IInv, UNCHANGED loopVars, EndpointTypeOK',
         \A t \in Tunnel : Serving(t) => Serving(t)',
         \A t \in ready' : Serving(t)',
         \A t \in Tunnel : tunnel'[t] \in {"absent", "registered", "open"} => calls[t] = <<>>,
         \A t \in Tunnel : tunnel[t] = "connecting" => 
                             tunnel'[t] = "connecting" \/ calls[t] = <<>>,
         main' = "serving" => main = "serving"
  PROVE  IInv'
<1>1. UNCHANGED <<running, holder, current, stage, canceled, calls>>
  BY DEF loopVars
<1>2. LoopIInv'
  BY <1>1 DEF IInv, LoopIInv, LoopTypeOK, OwnGoroutine, Alive, Calling
<1>3. \A d, op, l : Pending(d, op, l)' <=> Pending(d, op, l)
  BY <1>1 DEF Pending
<1>4. QuietOK' /\ ReadyOK'
  BY <1>1 DEF IInv, QuietOK, ReadyOK
<1>5. StartsOK'
  <2>1. \A c, l : calls[c] = <<>> => ~Pending(c, "start", l)
    BY DEF Pending
  <2>2. QED BY <1>3, <2>1 DEF IInv, StartsOK
<1>6. WantedOK'
  BY <1>1, <1>3 DEF IInv, WantedOK, Wanted
<1>7. QED BY <1>2, <1>4, <1>5, <1>6 DEF IInv

LEMMA TunnelStep ==
  ASSUME IInv, NEW t \in Tunnel, Connect(t) \/ Disconnect(t) \/ OpenReturns(t) \/ CloseReturns(t)
  PROVE  IInv' /\ UNCHANGED loopVars
<1>1. UNCHANGED loopVars /\ UNCHANGED <<closing, victims, main>>
  BY DEF Connect, Disconnect, OpenReturns, CloseReturns
<1>2. EndpointTypeOK'
  BY <1>1 DEF Connect, Disconnect, OpenReturns, CloseReturns, Moves, IInv, EndpointTypeOK,
              LoopTypeOK, loopVars
<1>3. \A u \in Tunnel \ {t} : tunnel'[u] = tunnel[u]
  BY DEF Connect, Disconnect, OpenReturns, CloseReturns, Moves, IInv, EndpointTypeOK
<1>4. /\ Serving(t) => Serving(t)'
      /\ t \in ready' => Serving(t)'
      /\ ready' \subseteq ready \cup {t}
      /\ tunnel'[t] \in {"absent", "registered", "open"} => calls[t] = <<>>
      /\ tunnel[t] = "connecting" => tunnel'[t] = "connecting" \/ calls[t] = <<>>
  BY DEF Connect, Disconnect, OpenReturns, CloseReturns, Moves, Serving, IInv, EndpointTypeOK,
         QuietOK, ReadyOK
<1>5. \A u \in Tunnel \ {t} : Serving(u)' <=> Serving(u)
  BY <1>3 DEF Serving
<1>6. \A u \in ready' : Serving(u)'
  BY <1>2, <1>4, <1>5 DEF IInv, ReadyOK, EndpointTypeOK
<1>7. \A u \in Tunnel : tunnel'[u] \in {"absent", "registered", "open"} => calls[u] = <<>>
  BY <1>3, <1>4 DEF IInv, QuietOK
<1>8. QED BY <1>1, <1>2, <1>3, <1>4, <1>5, <1>6, <1>7, SilentStep

LEMMA MainSilentStep ==
  ASSUME IInv, MainStep
  PROVE  IInv' /\ UNCHANGED loopVars
<1>1. /\ UNCHANGED <<loopVars, tunnel>>
      /\ ready' \subseteq ready /\ main' # "serving"
  BY DEF MainStep, Close, CloseLists, CloseTunnel, GracefulStop, Exited, MainMoves
<1>2. EndpointTypeOK'
  BY DEF MainStep, Close, CloseLists, CloseTunnel, GracefulStop, Exited, MainMoves, IInv,
         EndpointTypeOK, LoopTypeOK, loopVars
<1>3. \A t \in Tunnel : Serving(t)' <=> Serving(t)
  BY <1>1 DEF Serving
<1>4. \A t \in ready' : Serving(t)'
  BY <1>1, <1>3 DEF IInv, ReadyOK, EndpointTypeOK
<1>5. \A t \in Tunnel : tunnel'[t] \in {"absent", "registered", "open"} => calls[t] = <<>>
  BY <1>1 DEF IInv, QuietOK
<1>6. QED BY <1>1, <1>2, <1>3, <1>4, <1>5, SilentStep

LEMMA OpenStep ==
  ASSUME IInv, NEW t \in Tunnel, OnReverseTunnelOpen(t)
  PROVE  IInv' /\ Invoke(t)
<1>1. /\ tunnel[t] = "registered" /\ tunnel' = [tunnel EXCEPT ![t] = "connecting"]
      /\ ready' \subseteq ready /\ Runs(t, OnConnected)
      /\ UNCHANGED <<closing, victims, main>>
  BY DEF OnReverseTunnelOpen, Moves
<1>2. calls[t] = <<>> /\ t \in Caller /\ Main \in Caller \ {t}
  BY <1>1, EndpointAssumption DEF IInv, QuietOK
<1>3. /\ LoopIInv' /\ Invoke(t) /\ running' = running
      /\ \A d \in Caller \ {t} : calls'[d] = calls[d]
      /\ \A d \in Caller \ {t} : \A op, l : Pending(d, op, l)' <=> Pending(d, op, l)
  BY <1>1, <1>2, Callbacks, RunsStep DEF IInv
<1>4. EndpointTypeOK'
  BY <1>1, <1>3 DEF IInv, EndpointTypeOK, LoopIInv
<1>5. tunnel'[t] = "connecting" /\ \A u \in Tunnel \ {t} : tunnel'[u] = tunnel[u]
  BY <1>1 DEF IInv, EndpointTypeOK
<1>6. Serving(t)' /\ \A u \in Tunnel \ {t} : Serving(u)' <=> Serving(u)
  BY <1>5 DEF Serving
<1>7. QuietOK' /\ StartsOK'
  BY <1>1, <1>2, <1>3, <1>5, EndpointAssumption DEF IInv, QuietOK, StartsOK
<1>8. ReadyOK'
  BY <1>1, <1>6 DEF IInv, ReadyOK, EndpointTypeOK
<1>9. WantedOK'
  BY <1>6 DEF WantedOK, Wanted
<1>10. QED BY <1>3, <1>4, <1>7, <1>8, <1>9 DEF IInv

\* The last tunnel to close leaves calls that stop what runs; any other one
\* leaves it to a tunnel that is still ready.
LEMMA CloseStep ==
  ASSUME IInv, NEW t \in Tunnel, OnReverseTunnelClose(t)
  PROVE  IInv' /\ Invoke(t)
<1> DEFINE callback == IF ready = {} THEN OnIdle ELSE <<>>
<1>1. /\ tunnel[t] = "open" /\ tunnel' = [tunnel EXCEPT ![t] = "disconnecting"]
      /\ t \notin ready /\ Runs(t, callback)
      /\ UNCHANGED <<ready, closing, victims, main>>
  BY DEF OnReverseTunnelClose, Moves
<1>2. calls[t] = <<>> /\ t \in Caller /\ Main \in Caller \ {t} /\ callback \in Seq(CallType)
  BY <1>1, Callbacks, EndpointAssumption DEF IInv, QuietOK
<1>3. /\ LoopIInv' /\ Invoke(t) /\ running' = running
      /\ calls'[t] = callback /\ \A d \in Caller \ {t} : calls'[d] = calls[d]
      /\ \A d \in Caller \ {t} : \A op, l : Pending(d, op, l)' <=> Pending(d, op, l)
  BY <1>1, <1>2, RunsStep DEF IInv
<1>4. EndpointTypeOK'
  BY <1>1, <1>3 DEF IInv, EndpointTypeOK, LoopIInv
<1>5. tunnel'[t] = "disconnecting" /\ \A u \in Tunnel \ {t} : tunnel'[u] = tunnel[u]
  BY <1>1 DEF IInv, EndpointTypeOK
<1>6. \A u \in Tunnel \ {t} : Serving(u)' <=> Serving(u)
  BY <1>5 DEF Serving
<1>7. QuietOK'
  BY <1>1, <1>2, <1>3, <1>5, EndpointAssumption DEF IInv, QuietOK
<1>8. \A l : ~Pending(t, "start", l)'
  <2>1. ASSUME NEW i \in 1..Len(callback) PROVE callback[i].op = "stop"
    BY Callbacks
  <2>2. QED BY <1>3, <2>1 DEF Pending
<1>9. StartsOK'
  BY <1>3, <1>5, <1>8 DEF IInv, StartsOK
<1>10. ReadyOK'
  BY <1>1, <1>6 DEF IInv, ReadyOK, EndpointTypeOK
<1>11. WantedOK'
  <2> SUFFICES ASSUME NEW l \in Loop PROVE Wanted(l)'
    BY DEF WantedOK
  <2>1. CASE ready = {}
    <3>1. Pending(t, "stop", l)'
      BY <1>3, <2>1, Callbacks DEF Pending
    <3>2. QED BY <3>1 DEF Wanted
  <2>2. CASE ready # {}
    <3>1. PICK u \in ready : u \in Tunnel \ {t} /\ Serving(u)
      BY <1>1, <2>2 DEF IInv, ReadyOK, EndpointTypeOK
    <3>2. QED BY <1>6, <3>1 DEF Wanted
  <2>3. QED BY <2>1, <2>2
<1>12. QED BY <1>3, <1>4, <1>7, <1>9, <1>10, <1>11 DEF IInv

LEMMA SignalStep ==
  ASSUME IInv, Signal
  PROVE  IInv' /\ Invoke(Main)
<1> DEFINE callback == CallsTo("stop", WorkloadLoop, NodeLoop)
<1>1. /\ main = "serving" /\ main' = "stopping" /\ Runs(Main, callback)
      /\ UNCHANGED <<tunnel, ready, closing, victims>>
  BY DEF Signal, MainMoves
<1>2. calls[Main] = <<>> /\ Main \in Caller /\ Tunnel = Caller \ {Main}
      /\ callback \in Seq(CallType)
  BY <1>1, Callbacks, EndpointAssumption DEF IInv, QuietOK
<1>3. /\ LoopIInv' /\ Invoke(Main) /\ running' = running /\ calls'[Main] = callback
      /\ \A d \in Tunnel : calls'[d] = calls[d]
      /\ \A d \in Tunnel : \A op, l : Pending(d, op, l)' <=> Pending(d, op, l)
  BY <1>1, <1>2, RunsStep DEF IInv
<1>4. EndpointTypeOK'
  BY <1>1, <1>3 DEF IInv, EndpointTypeOK, LoopIInv
<1>5. QuietOK' /\ ReadyOK'
  BY <1>1, <1>3 DEF IInv, QuietOK, ReadyOK, Serving
<1>6. \A l : ~Pending(Main, "start", l)'
  <2>1. ASSUME NEW i \in 1..Len(callback) PROVE callback[i].op = "stop"
    BY Callbacks
  <2>2. QED BY <1>3, <2>1 DEF Pending
<1>7. StartsOK'
  BY <1>1, <1>2, <1>3, <1>6 DEF IInv, StartsOK
<1>8. WantedOK'
  BY <1>1, <1>3 DEF IInv, WantedOK, Wanted, Serving
<1>9. QED BY <1>3, <1>4, <1>5, <1>7, <1>8 DEF IInv

-----------------------------------------------------------------------------
\* Every step keeps the invariant and is one that ReconcilerLoop allows.
LEMMA NextIInv ==
  ASSUME IInv, [Next]_vars
  PROVE  IInv' /\ [LoopNext]_loopVars
<1>1. CASE LoopStep /\ UNCHANGED endpointVars
  BY <1>1, ReconcilerStep DEF LoopNext
<1>2. ASSUME NEW t \in Tunnel, Connect(t) \/ Disconnect(t) \/ Serve(t)
      PROVE  IInv' /\ [LoopNext]_loopVars
  <2>1. t \in Caller
    BY EndpointAssumption
  <2>2. QED BY <1>2, <2>1, TunnelStep, OpenStep, CloseStep DEF Serve, LoopNext
<1>3. CASE Signal
  <2>1. Main \in Caller
    BY EndpointAssumption
  <2>2. QED BY <1>3, <2>1, SignalStep DEF LoopNext
<1>4. CASE MainStep
  BY <1>4, MainSilentStep
<1>5. CASE UNCHANGED vars
  <2>1. UNCHANGED <<loopVars, tunnel, ready, closing, victims, main>>
    BY <1>5 DEF vars, endpointVars
  <2>2. \A t \in Tunnel : Serving(t)' <=> Serving(t)
    BY <2>1 DEF Serving
  <2>3. EndpointTypeOK'
    BY <2>1 DEF IInv, EndpointTypeOK, LoopTypeOK, loopVars
  <2>4. \A t \in ready' : Serving(t)'
    BY <2>1, <2>2 DEF IInv, ReadyOK, EndpointTypeOK
  <2>5. \A t \in Tunnel : tunnel'[t] \in {"absent", "registered", "open"} => calls[t] = <<>>
    BY <2>1 DEF IInv, QuietOK
  <2>6. QED BY <2>1, <2>2, <2>3, <2>4, <2>5, SilentStep
<1>6. QED BY <1>1, <1>2, <1>3, <1>4, <1>5 DEF Next

\* Endpoint implements ReconcilerLoop: its callbacks start and stop the
\* reconcilers in sequences of calls that no goroutine begins before its last
\* one has ended.
THEOREM ImplementsLoop == Spec => LoopSpec
<1>1. Init => LoopInit
  BY DEF Init
<1>2. IInv /\ [Next]_vars => IInv' /\ [LoopNext]_loopVars
  BY NextIInv
<1>3. QED BY <1>1, <1>2, InitIInv, PTL DEF Spec, LoopSpec

\* The variables of Endpoint keep their types.
THEOREM EndpointTypeCorrect == Spec => []EndpointTypeOK
<1>1. IInv => EndpointTypeOK
  BY DEF IInv
<1>2. IInv /\ [Next]_vars => IInv'
  BY NextIInv
<1>3. QED BY <1>1, <1>2, InitIInv, PTL DEF Spec

\* However connections, disconnections and the shutdown interleave, an endpoint
\* without agents has stopped its reconcilers once the callbacks have run.
THEOREM IdleIsStopped == Spec => []IdleMeansStopped
<1>1. ASSUME IInv PROVE IdleMeansStopped
  <2> SUFFICES ASSUME Settled, ready = {}, NEW l \in Loop
               PROVE  ~running[l] /\ Alive(l) = {}
    BY DEF IdleMeansStopped
  <2>1. \A c \in Caller : \A op, m : ~Pending(c, op, m) /\ ~Calling(c, op, m)
    BY DEF Settled, Pending, Calling
  <2>2. \A t \in Tunnel : ~Serving(t)
    BY DEF Settled, Serving
  <2>3. ~running[l]
    BY <1>1, <2>1, <2>2, EndpointAssumption DEF IInv, WantedOK, Wanted
  <2>4. holder[l] = NoCaller
    BY <1>1, <2>1 DEF IInv, LoopIInv, LoopTypeOK, OwnGoroutine
  <2>5. QED BY <1>1, <2>3, <2>4 DEF IInv, LoopIInv, OwnGoroutine
<1>2. IInv /\ [Next]_vars => IInv'
  BY NextIInv
<1>3. QED BY <1>1, <1>2, InitIInv, PTL DEF Spec

\* In the endpoint no reconciler ever runs two loop goroutines.
THEOREM OneLoopEach == Spec => []AtMostOneLoop
  BY ImplementsLoop, OneLoop, PTL
=============================================================================
