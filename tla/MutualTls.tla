------------------------------ MODULE MutualTls ------------------------------
(***************************************************************************)
(* How the agent and the controller come to trust each other.  The         *)
(* configuration tool (config/) makes a pair of credentials and writes     *)
(* them to two files, which the two processes read when they start; the    *)
(* agent (agent/pkg/agent/agent.go) connects, serves until its tunnel      *)
(* breaks, and exits.  The tool may fail or be killed anywhere, and both   *)
(* processes may read while it writes.                                     *)
(***************************************************************************)
EXTENDS Integers, Sequences

CONSTANTS
  Option,      \* calls of the tool: [complete, endpoint, filter, days]
  DayRange,    \* days that a time.Duration can count (106751 in the code)
  MaxPairs,    \* bound: pairs that the tool makes
  MaxDay,      \* bound: the last day
  MaxTrouble   \* bound: failed writes, kills of processes, and signals

Endpoint == {"name", "address", "opaque"}          \* opaque: without a host
Filter == {"none", "fits", "misses", "broken"}     \* does it let the agent's own partition through?

ASSUME MutualTlsAssumption ==
  /\ Option \subseteq [complete : BOOLEAN, endpoint : Endpoint, filter : Filter, days : Nat]
  /\ DayRange \in Nat \ {0} /\ MaxPairs \in Nat /\ MaxDay \in Nat /\ MaxTrouble \in Nat

VARIABLES
  day,         \* the clock
  pairs,       \* the pairs made so far: [ca, endpoint, filter, from, until]
  file,        \* [Side -> the pair whose half the file holds, or None, or Torn]
  tool,        \* the tool: [at, opts, pair, result]
  controller,  \* the pair that the running controller has loaded, or None
  agent,       \* the agent: [at, pair]
  tunnel,      \* the tunnel between them: "open" or "closed"
  trouble      \* how much has gone wrong

processVars == <<controller, agent, tunnel>>
vars == <<day, pairs, file, tool, processVars, trouble>>

Side == {"controller", "agent"}
None == 0
Torn == -1   \* a file that has been emptied and not been written yet

Pair == [ca : Nat \ {0}, endpoint : Endpoint, filter : Filter, from : Nat, until : Int]
Stage == {"idle", "creating", "encoding", "controller", "controller opened", "agent", "agent opened"}

TypeOK ==
  /\ day \in Nat /\ pairs \in Seq(Pair) /\ trouble \in Nat
  /\ file \in [Side -> {Torn, None} \cup (1..Len(pairs))]
  /\ tool \in [at : Stage, opts : Option, pair : {None} \cup (1..Len(pairs)),
               result : {"none", "success", "refused", "failed"}]
  /\ controller \in {None} \cup (1..Len(pairs))
  /\ agent \in [at : {"down", "dialing", "serving", "stopping"}, pair : {None} \cup (1..Len(pairs))]
  /\ tunnel \in {"open", "closed"}

Init ==
  /\ day = 0 /\ pairs = <<>> /\ file = [s \in Side |-> None]
  /\ tool \in [at : {"idle"}, opts : Option, pair : {None}, result : {"none"}]
  /\ controller = None /\ agent = [at |-> "down", pair |-> None]
  /\ tunnel = "closed" /\ trouble = 0

Tick == day < MaxDay /\ day' = day + 1 /\ UNCHANGED <<pairs, file, tool, processVars, trouble>>

-----------------------------------------------------------------------------
(* The configuration tool *)

Goes(from, to) == tool.at = from /\ tool' = [tool EXCEPT !.at = to]
Returns(result) == tool' = [tool EXCEPT !.at = "idle", !.result = result]

\* NewGenerateOptions: nothing may be missing, and there must be a day.
Accepted(o) == o.complete /\ o.days > 0

Call(o) ==
  /\ tool.at = "idle" /\ Len(pairs) < MaxPairs
  /\ tool' = [at |-> IF Accepted(o) THEN "creating" ELSE "idle", opts |-> o, pair |-> None,
              result |-> IF Accepted(o) THEN "none" ELSE "refused"]
  /\ UNCHANGED <<day, pairs, file, processVars, trouble>>

\* The product of a time.Duration: beyond its range it comes back from below.
Validity(days) == ((days + DayRange) % (2 * DayRange)) - DayRange

\* Mutant: one CA for all pairs.
CreatePairOneCa ==
  /\ tool.at = "creating"
  /\ pairs' = Append(pairs, [ca |-> 1, endpoint |-> tool.opts.endpoint, filter |-> tool.opts.filter,
                             from |-> day, until |-> day + Validity(tool.opts.days)])
  /\ tool' = [tool EXCEPT !.at = "encoding", !.pair = Len(pairs) + 1]
  /\ UNCHANGED <<day, file, processVars, trouble>>

\* A new CA signs the certificate of the controller, which is for the host in
\* the endpoint, and that of the agent.
CreatePair ==
  /\ tool.at = "creating"
  /\ IF tool.opts.endpoint = "opaque" THEN Returns("refused") /\ UNCHANGED pairs
     ELSE LET n == Len(pairs) + 1
          IN /\ pairs' = Append(pairs, [ca |-> n, endpoint |-> tool.opts.endpoint, filter |-> tool.opts.filter,
                                        from |-> day, until |-> day + Validity(tool.opts.days)])
             /\ tool' = [tool EXCEPT !.at = "encoding", !.pair = n]
  /\ UNCHANGED <<day, file, processVars, trouble>>

\* Mutant: the filter is compiled later.
EncodeAnyFilter == Goes("encoding", "controller") /\ UNCHANGED <<day, pairs, file, processVars, trouble>>

\* Both configurations are encoded, with compiled filters, before any is written.
Encode ==
  /\ IF tool.opts.filter = "broken" THEN tool.at = "encoding" /\ Returns("refused")
     ELSE Goes("encoding", "controller")
  /\ UNCHANGED <<day, pairs, file, processVars, trouble>>

Opened(s) == IF s = "controller" THEN "controller opened" ELSE "agent opened"

\* writeConfig: os.WriteFile empties the file first.
OpenFile(s) ==
  /\ Goes(s, Opened(s))
  /\ file' = [file EXCEPT ![s] = Torn]
  /\ UNCHANGED <<day, pairs, processVars, trouble>>

WriteFile(s) ==
  /\ tool.at = Opened(s)
  /\ file' = [file EXCEPT ![s] = tool.pair]
  /\ IF s = "controller" THEN tool' = [tool EXCEPT !.at = "agent"] ELSE Returns("success")
  /\ UNCHANGED <<day, pairs, processVars, trouble>>

\* Mutant: an error of a write is forgotten.
WriteFailsSilently(s) ==
  /\ tool.at \in {s, Opened(s)} /\ trouble < MaxTrouble /\ trouble' = trouble + 1
  /\ Returns("success")
  /\ UNCHANGED <<day, pairs, file, processVars>>

\* Chmod, opening or writing fails, or the tool is killed there.
WriteFails(s) ==
  /\ tool.at \in {s, Opened(s)} /\ trouble < MaxTrouble /\ trouble' = trouble + 1
  /\ Returns("failed")
  /\ UNCHANGED <<day, pairs, file, processVars>>

Generate == CreatePair \/ Encode \/ \E s \in Side : OpenFile(s) \/ WriteFile(s)

-----------------------------------------------------------------------------
(* The controller *)

\* main and Serve: a file without usable credentials ends the process at once.
ControllerStarts ==
  /\ controller = None /\ file["controller"] \notin {None, Torn}
  /\ controller' = file["controller"]
  /\ UNCHANGED <<day, pairs, file, tool, agent, tunnel, trouble>>

ControllerStops == controller # None /\ controller' = None /\ tunnel' = "closed"

\* Whoever applies a new configuration restarts the controller, which reads it once.
Rollout ==
  /\ tool.at = "idle" /\ controller # file["controller"] /\ ControllerStops
  /\ UNCHANGED <<day, pairs, file, tool, agent, trouble>>

ControllerFails ==
  /\ trouble < MaxTrouble /\ trouble' = trouble + 1 /\ ControllerStops
  /\ UNCHANGED <<day, pairs, file, tool, agent>>

-----------------------------------------------------------------------------
(* The agent *)

AgentMoves(from, to) == agent.at = from /\ agent' = [agent EXCEPT !.at = to]

\* Its own partition must pass the filter, or it does not start.
AgentStarts ==
  /\ agent.at = "down" /\ file["agent"] \notin {None, Torn}
  /\ pairs[file["agent"]].filter # "misses"
  /\ agent' = [at |-> "dialing", pair |-> file["agent"]]
  /\ UNCHANGED <<day, pairs, file, tool, controller, tunnel, trouble>>

Valid(p) == p.from <= day /\ day <= p.until

\* The chain that one side verifies: the certificate of the other pair, under
\* the CA of its own.
Trusts(own, other) == own.ca = other.ca /\ Valid(own) /\ Valid(other)

\* Both sides verify a chain.  The agent also compares the host it dials with the
\* names in the certificate, which never match an address.
Accepts(a, c) ==
  c # None /\ Trusts(pairs[a], pairs[c]) /\ Trusts(pairs[c], pairs[a]) /\ pairs[a].endpoint = "name"

Connect ==
  /\ AgentMoves("dialing", "serving") /\ Accepts(agent.pair, controller)
  /\ tunnel' = "open"
  /\ UNCHANGED <<day, pairs, file, tool, controller, trouble>>

\* Mutant: the agent dials again, with the credentials that it has.
ConnectAgain == AgentMoves("dialing", "dialing") /\ UNCHANGED <<day, pairs, file, tool, controller, tunnel, trouble>>

\* "unable to start listening": the process ends.
ConnectFails ==
  /\ AgentMoves("dialing", "down") /\ ~Accepts(agent.pair, controller)
  /\ UNCHANGED <<day, pairs, file, tool, controller, tunnel, trouble>>

\* Serve returns, with an error or because the controller has closed: the
\* process ends either way.
TunnelEnds ==
  /\ tunnel = "closed" /\ AgentMoves("serving", "down")
  /\ UNCHANGED <<day, pairs, file, tool, controller, tunnel, trouble>>

Interrupt ==
  /\ trouble < MaxTrouble /\ trouble' = trouble + 1
  /\ agent.at \in {"dialing", "serving"} /\ agent' = [agent EXCEPT !.at = "stopping"]
  /\ UNCHANGED <<day, pairs, file, tool, controller, tunnel>>

AgentExits ==
  /\ AgentMoves("stopping", "down") /\ tunnel' = "closed"
  /\ UNCHANGED <<day, pairs, file, tool, controller, trouble>>

Run == Connect \/ ConnectFails \/ TunnelEnds \/ AgentExits

-----------------------------------------------------------------------------
Next == \/ Tick \/ (\E o \in Option : Call(o)) \/ Generate \/ (\E s \in Side : WriteFails(s))
        \/ ControllerStarts \/ Rollout \/ ControllerFails
        \/ AgentStarts \/ Run \/ Interrupt

Spec == Init /\ [][Next]_vars

\* A process that has ended is started again, and a replaced configuration is
\* rolled out.  Nothing is asked of the tool or the clock.
FairSpec ==
  Spec /\ WF_vars(ControllerStarts) /\ WF_vars(Rollout) /\ WF_vars(AgentStarts) /\ WF_vars(Run)

-----------------------------------------------------------------------------
(* Properties *)

\* A tunnel is only ever open between the two halves of one pair, whatever
\* mixture of old, new and unfinished files the processes have met.
TunnelIsBonded == tunnel = "open" => agent.pair = controller

\* When the tool says that it has succeeded, the two files are one pair.
SuccessIsAPair ==
  tool.result = "success" => file["controller"] = tool.pair /\ file["agent"] = tool.pair

Usable(o) == Accepted(o) /\ o.endpoint # "opaque" /\ o.filter # "broken"

\* A call that cannot succeed for its options leaves the files as they were:
\* whatever can be wrong with them is found before the first write.
RefusedBeforeWriting == [][file' # file => Usable(tool.opts)]_vars

\* The files are one pair, in force, and nobody is about to change them.
Served ==
  /\ tool.at = "idle" /\ file["controller"] \notin {None, Torn} /\ file["agent"] = file["controller"]
  /\ LET p == pairs[file["agent"]] IN p.endpoint = "name" /\ p.filter # "misses" /\ Valid(p)

\* Once there is a pair, agent and controller end up connected with it, even if
\* one or both had started with something else: no process keeps what it has read.
Connects == <>[]Served => <>[](tunnel = "open" /\ agent.pair = file["agent"])
=============================================================================
