--------------------------- MODULE ReconcilerLoop ---------------------------
(***************************************************************************)
(* The reconciliation loops of the controller                              *)
(* (controller/pkg/reconciler/reconciler.go): any number of goroutines     *)
(* call Start and Stop; Start launches one goroutine that reconciles, then *)
(* waits for its ticker or for its context to be cancelled; Stop cancels   *)
(* and waits for that goroutine while it holds the mutex.                  *)
(***************************************************************************)
EXTENDS Naturals, Sequences, FiniteSets

CONSTANTS
  Loop,      \* the reconcilers
  Caller,    \* goroutines that call Start and Stop
  Slot,      \* names for loop goroutines that exist at the same time
  NoCaller, NoSlot

ASSUME LoopAssumption == NoCaller \notin Caller /\ NoSlot \notin Slot

VARIABLES
  running,   \* reconciler.running
  holder,    \* reconciler.mutex: the caller inside Stop's wait, or NoCaller
  current,   \* reconciler.cancel: the goroutine whose context it cancels
  stage,     \* [Loop -> [Slot -> what that goroutine is doing]]
  canceled,  \* [Loop -> goroutines whose context is cancelled]
  calls      \* [Caller -> the calls it still has to make, in order]

loopVars == <<running, holder, current, stage, canceled, calls>>

CallType == [op : {"start", "stop"}, loop : Loop]

LoopTypeOK ==
  /\ running \in [Loop -> BOOLEAN]
  /\ holder \in [Loop -> Caller \cup {NoCaller}]
  /\ current \in [Loop -> Slot \cup {NoSlot}]
  /\ stage \in [Loop -> [Slot -> {"none", "reconciling", "waiting"}]]
  /\ canceled \in [Loop -> SUBSET Slot]
  /\ calls \in [Caller -> Seq(CallType)]

LoopInit ==
  /\ running = [l \in Loop |-> FALSE]
  /\ holder = [l \in Loop |-> NoCaller]
  /\ current = [l \in Loop |-> NoSlot]
  /\ stage = [l \in Loop |-> [s \in Slot |-> "none"]]
  /\ canceled = [l \in Loop |-> {}]
  /\ calls = [c \in Caller |-> <<>>]

Alive(l) == {s \in Slot : stage[l][s] # "none"}

\* The next call of c is op on l.
Calling(c, op, l) == calls[c] # <<>> /\ Head(calls[c]) = [op |-> op, loop |-> l]
Return(c) == calls' = [calls EXCEPT ![c] = Tail(@)]

-----------------------------------------------------------------------------
\* Slots only tell goroutines apart: the first one takes any, and the next ones
\* take the slot of the one before, unless that one still lives.
Launch(l, s) ==
  /\ stage[l][s] = "none"
  /\ current[l] = NoSlot => s = CHOOSE first \in Slot : TRUE
  /\ current[l] \in Slot \ Alive(l) => s = current[l]
  /\ running' = [running EXCEPT ![l] = TRUE]
  /\ current' = [current EXCEPT ![l] = s]
  /\ stage' = [stage EXCEPT ![l][s] = "reconciling"]
  /\ canceled' = [canceled EXCEPT ![l] = @ \ {s}]

\* Mutant: Start does not ask whether the loop is running already.
StartAlways(c, l) ==
  /\ Calling(c, "start", l)
  /\ holder[l] = NoCaller
  /\ \E s \in Slot : Launch(l, s)
  /\ Return(c)
  /\ UNCHANGED holder

Start(c, l) ==
  /\ Calling(c, "start", l)
  /\ holder[l] = NoCaller
  /\ IF running[l] THEN UNCHANGED <<running, current, stage, canceled>>
                   ELSE \E s \in Slot : Launch(l, s)
  /\ Return(c)
  /\ UNCHANGED holder

\* Mutant: Stop does not cancel the context of the goroutine.
StopNoCancel(c, l) ==
  /\ Calling(c, "stop", l)
  /\ holder[l] = NoCaller
  /\ holder' = [holder EXCEPT ![l] = c]
  /\ running' = [running EXCEPT ![l] = FALSE]
  /\ UNCHANGED <<current, stage, canceled, calls>>

\* Stop up to wg.Wait, which it enters with the mutex held.
Stop(c, l) ==
  /\ Calling(c, "stop", l)
  /\ holder[l] = NoCaller
  /\ holder' = [holder EXCEPT ![l] = c]
  /\ canceled' = [canceled EXCEPT ![l] = @ \cup ({current[l]} \ {NoSlot})]
  /\ running' = [running EXCEPT ![l] = FALSE]
  /\ UNCHANGED <<current, stage, calls>>

\* Mutant: Stop returns without waiting for the goroutine.
StopEndAtOnce(c, l) ==
  /\ holder[l] = c
  /\ holder' = [holder EXCEPT ![l] = NoCaller]
  /\ Return(c)
  /\ UNCHANGED <<running, current, stage, canceled>>

StopEnd(c, l) ==
  /\ holder[l] = c
  /\ Alive(l) = {}
  /\ holder' = [holder EXCEPT ![l] = NoCaller]
  /\ Return(c)
  /\ UNCHANGED <<running, current, stage, canceled>>

-----------------------------------------------------------------------------
Becomes(l, s, from, to) ==
  /\ stage[l][s] = from
  /\ stage' = [stage EXCEPT ![l][s] = to]
  /\ UNCHANGED <<running, holder, current, canceled, calls>>

Reconciled(l, s) == Becomes(l, s, "reconciling", "waiting")

\* The select may prefer the ticker to a context that is already cancelled.
Tick(l, s) == Becomes(l, s, "waiting", "reconciling")

Exit(l, s) == s \in canceled[l] /\ Becomes(l, s, "waiting", "none")

CallStep(c) == \E l \in Loop : Start(c, l) \/ Stop(c, l) \/ StopEnd(c, l)

LoopStep ==
  \/ \E c \in Caller : CallStep(c)
  \/ \E l \in Loop, s \in Slot : Reconciled(l, s) \/ Tick(l, s) \/ Exit(l, s)

\* A caller waiting for the mutex gets it in turn, a Reconcile ends, and a
\* select that finds its context cancelled again and again does not prefer the
\* ticker for ever.
LoopFairness ==
  /\ \A c \in Caller : SF_loopVars(CallStep(c))
  /\ \A l \in Loop : /\ WF_loopVars(\E s \in Slot : Reconciled(l, s))
                     /\ SF_loopVars(\E s \in Slot : Exit(l, s))

\* On its own: callers that make any calls in any order, one callback at a time.
Invoke(c) ==
  /\ calls[c] = <<>>
  /\ calls'[c] \in Seq(CallType)
  /\ calls' = [calls EXCEPT ![c] = calls'[c]]
  /\ UNCHANGED <<running, holder, current, stage, canceled>>

LoopNext == LoopStep \/ \E c \in Caller : Invoke(c)

\* What every use of the reconcilers promises: a property of Endpoint, where the
\* callbacks of the tunnels and main are the callers.
LoopSpec == LoopInit /\ [][LoopNext]_loopVars

-----------------------------------------------------------------------------
(* Properties *)

\* A reconciler never runs two loop goroutines at once, whatever the order in
\* which callers start and stop it.
AtMostOneLoop == \A l \in Loop : \A s, t \in Alive(l) : s = t

\* A reconciler whose mutex is free and that is not running has no goroutine
\* left: when Stop has returned nothing reconciles any more.  While it is
\* running it has one, and its context is not cancelled.
RunningIsAlive ==
  \A l \in Loop : holder[l] = NoCaller =>
    /\ running[l] => current[l] \in Alive(l) \ canceled[l]
    /\ ~running[l] => Alive(l) = {}

\* Every Start and every Stop returns.
LoopCallsReturn == \A c \in Caller : calls[c] # <<>> ~> calls[c] = <<>>
=============================================================================
