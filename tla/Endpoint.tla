------------------------------ MODULE Endpoint ------------------------------
(***************************************************************************)
(* The controller's endpoint for agents and what it drives                 *)
(* (controller/pkg/endpoint/endpoint.go, controller/main.go): each reverse *)
(* tunnel is served by a goroutine that registers the channel, runs the    *)
(* open callback, waits for the channel to close and runs the close        *)
(* callback.  The callbacks start and stop the node and the workload       *)
(* reconciler; on a signal, main stops both and closes the endpoint.       *)
(***************************************************************************)
EXTENDS ReconcilerLoop

CONSTANTS
  Tunnel,      \* tunnel goroutines, reused by later connections
  Main,        \* the main goroutine
  NodeLoop, WorkloadLoop

ASSUME EndpointAssumption ==
  /\ Caller = Tunnel \cup {Main} /\ Main \notin Tunnel
  /\ Loop = {NodeLoop, WorkloadLoop} /\ NodeLoop # WorkloadLoop

VARIABLES
  tunnel,   \* [Tunnel -> where its goroutine is]
  ready,    \* channels registered with the tunnel handler and not closed
  closing,  \* endpoint.closing
  victims,  \* channels Close has listed and not closed yet
  main      \* where main is

endpointVars == <<tunnel, ready, closing, victims, main>>
vars == <<loopVars, endpointVars>>

EndpointTypeOK ==
  /\ LoopTypeOK
  /\ tunnel \in [Tunnel -> {"absent", "registered", "connecting", "open", "disconnecting"}]
  /\ ready \subseteq Tunnel
  /\ closing \in BOOLEAN
  /\ victims \subseteq Tunnel
  /\ main \in {"serving", "stopping", "closing", "disconnecting", "draining", "exited"}

Init ==
  /\ LoopInit
  /\ tunnel = [t \in Tunnel |-> "absent"]
  /\ ready = {} /\ closing = FALSE /\ victims = {} /\ main = "serving"

CallsTo(op, first, second) == <<[op |-> op, loop |-> first], [op |-> op, loop |-> second]>>

OnConnected == CallsTo("start", NodeLoop, WorkloadLoop)

\* Mutant: the callback forgets the second reconciler.
OnIdleNode == <<[op |-> "stop", loop |-> NodeLoop]>>

OnIdle == CallsTo("stop", NodeLoop, WorkloadLoop)

\* Goroutine c moves on to make the calls of a callback.
Runs(c, callback) ==
  /\ calls' = [calls EXCEPT ![c] = callback]
  /\ UNCHANGED <<running, holder, current, stage, canceled>>

-----------------------------------------------------------------------------
(* Tunnels *)

Moves(t, from, to) == tunnel[t] = from /\ tunnel' = [tunnel EXCEPT ![t] = to]

\* The gRPC server accepts connections until GracefulStop begins.
Connect(t) ==
  /\ main \notin {"draining", "exited"}
  /\ Moves(t, "absent", "registered")
  /\ ready' = ready \cup {t}
  /\ UNCHANGED <<loopVars, closing, victims, main>>

\* A channel may close at any time: the agent stops, or the network fails.
Disconnect(t) ==
  /\ t \in ready
  /\ ready' = ready \ {t}
  /\ UNCHANGED <<loopVars, tunnel, closing, victims, main>>

\* Mutant: a connection to a closing endpoint is kept.
OnReverseTunnelOpenAlways(t) ==
  /\ Moves(t, "registered", "connecting")
  /\ Runs(t, OnConnected)
  /\ UNCHANGED <<ready, closing, victims, main>>

\* A closing endpoint closes the channel, and runs the callback all the same.
OnReverseTunnelOpen(t) ==
  /\ Moves(t, "registered", "connecting")
  /\ ready' = IF closing THEN ready \ {t} ELSE ready
  /\ Runs(t, OnConnected)
  /\ UNCHANGED <<closing, victims, main>>

\* Mutant: the open callback is run in the background.
OpenReturnsAtOnce(t) ==
  /\ Moves(t, "connecting", "open")
  /\ UNCHANGED <<loopVars, ready, closing, victims, main>>

OpenReturns(t) ==
  /\ Moves(t, "connecting", "open")
  /\ calls[t] = <<>>
  /\ UNCHANGED <<loopVars, ready, closing, victims, main>>

\* The goroutine finds its channel closed and unregistered; whether another
\* one is ready decides, before the callback runs, that the endpoint is idle.
OnReverseTunnelClose(t) ==
  /\ Moves(t, "open", "disconnecting")
  /\ t \notin ready
  /\ LET last == ready = {} IN Runs(t, IF last THEN OnIdle ELSE <<>>)
  /\ UNCHANGED <<ready, closing, victims, main>>

CloseReturns(t) ==
  /\ Moves(t, "disconnecting", "absent")
  /\ calls[t] = <<>>
  /\ UNCHANGED <<loopVars, ready, closing, victims, main>>

-----------------------------------------------------------------------------
(* main: deferred calls in reverse order, then endpoint.Close. *)

MainMoves(from, to) == main = from /\ main' = to

Signal ==
  /\ MainMoves("serving", "stopping")
  /\ Runs(Main, CallsTo("stop", WorkloadLoop, NodeLoop))
  /\ UNCHANGED <<tunnel, ready, closing, victims>>

Close ==
  /\ MainMoves("stopping", "closing")
  /\ calls[Main] = <<>>
  /\ closing' = TRUE
  /\ UNCHANGED <<loopVars, tunnel, ready, victims>>

CloseLists ==
  /\ MainMoves("closing", "disconnecting")
  /\ victims' = ready
  /\ UNCHANGED <<loopVars, tunnel, ready, closing>>

CloseTunnel(t) ==
  /\ main = "disconnecting" /\ t \in victims
  /\ victims' = victims \ {t}
  /\ ready' = ready \ {t}
  /\ UNCHANGED <<loopVars, tunnel, closing, main>>

GracefulStop ==
  /\ victims = {}
  /\ MainMoves("disconnecting", "draining")
  /\ UNCHANGED <<loopVars, tunnel, ready, closing, victims>>

Exited ==
  /\ \A t \in Tunnel : tunnel[t] = "absent"
  /\ MainMoves("draining", "exited")
  /\ UNCHANGED <<loopVars, tunnel, ready, closing, victims>>

-----------------------------------------------------------------------------
Serve(t) == \/ OnReverseTunnelOpen(t) \/ OpenReturns(t)
            \/ OnReverseTunnelClose(t) \/ CloseReturns(t)

MainStep == Close \/ CloseLists \/ (\E t \in Tunnel : CloseTunnel(t)) \/ GracefulStop \/ Exited

Next ==
  \/ LoopStep /\ UNCHANGED endpointVars
  \/ \E t \in Tunnel : Connect(t) \/ Disconnect(t) \/ Serve(t)
  \/ Signal \/ MainStep

Spec == Init /\ [][Next]_vars

\* Goroutines proceed; agents and signals come when they come.
FairSpec ==
  /\ Spec
  /\ LoopFairness
  /\ \A t \in Tunnel : WF_vars(Serve(t))
  /\ WF_vars(MainStep)

-----------------------------------------------------------------------------
(* Properties *)

\* No callback is under way or due.
Settled ==
  /\ \A c \in Caller : calls[c] = <<>>
  /\ \A t \in Tunnel : \/ tunnel[t] = "absent"
                       \/ tunnel[t] = "open" /\ t \in ready

\* Once the last agent is gone and the callbacks have run, no reconciler is
\* running, however connections, disconnections and the shutdown interleaved.
IdleMeansStopped == Settled /\ ready = {} => \A l \in Loop : ~running[l] /\ Alive(l) = {}

\* While an agent is connected and the callbacks have run, both reconcilers run.
ConnectedMeansRunning ==
  Settled /\ ready # {} /\ main = "serving" => \A l \in Loop : running[l]

\* Closing the endpoint ends: whoever registers a tunnel meanwhile either finds
\* the endpoint closing or is among the tunnels that Close disconnects.
CloseCompletes == main = "stopping" ~> main = "exited"
=============================================================================
