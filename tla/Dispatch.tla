------------------------------ MODULE Dispatch ------------------------------
(***************************************************************************)
(* What a job executes (agent/pkg/dispatch/dispatch.go): one process for   *)
(* each container, a goroutine for each of its pipes that copies lines to  *)
(* the output of the job, a goroutine that waits for the process, and the  *)
(* main goroutine, which collects the exit codes and exits.                *)
(***************************************************************************)
EXTENDS Integers, Sequences, FiniteSets

CONSTANTS
  Container,
  Stream,     \* the pipes of a container: stdout and stderr
  Lines,      \* bound: lines that a container writes to each pipe
  PipeSize,   \* bound: lines that a pipe holds
  Code        \* exit codes of containers that end by themselves

ASSUME DispatchAssumption ==
  Lines \in Nat /\ PipeSize \in Nat \ {0} /\ Code \subseteq Nat

Pipe == Container \X Stream
PipesOf(c) == {c} \X Stream

Generic == 1     \* the code of a container that could not be started
Signaled == -1   \* ExitCode() of a process that a signal has killed
Running == -2    \* no code yet: the process runs
Unborn == -3     \* no code yet: the process has not been started
Unstarted == -4  \* it could not be started

VARIABLES
  process,   \* [Container -> Unborn, Unstarted, Running, or the code it ended with]
  written,   \* [Pipe -> lines written to it]
  buffered,  \* [Pipe -> how many of these, the latest, are still in it]
  closed,    \* pipes whose reading end has been closed
  stopped,   \* pipes whose scanner has given up on a line
  hand,      \* [Pipe -> the line that the scanner holds, or 0]
  output,    \* [Pipe -> its lines in the output of the job]
  ended,     \* containers whose cmd.Run has returned
  collected, \* those whose exit code main has received
  code,      \* the highest code so far
  exited     \* os.Exit has been called

pipeVars == <<written, buffered, closed, stopped, hand, output>>
mainVars == <<ended, collected, code, exited>>
vars == <<process, pipeVars, mainVars>>

Codes == Code \cup {0, Generic}

TypeOK ==
  /\ process \in [Container -> Codes \cup {Signaled, Running, Unborn, Unstarted}]
  /\ written \in [Pipe -> 0..Lines] /\ buffered \in [Pipe -> 0..PipeSize]
  /\ closed \subseteq Pipe /\ stopped \subseteq Pipe
  /\ hand \in [Pipe -> 0..Lines] /\ output \in [Pipe -> Seq(1..Lines)]
  /\ collected \subseteq ended /\ ended \subseteq Container
  /\ code \in Codes /\ exited \in BOOLEAN

\* Run has called dispatchContainer for all containers.
Init ==
  /\ process = [c \in Container |-> Unborn]
  /\ written = [p \in Pipe |-> 0] /\ buffered = [p \in Pipe |-> 0]
  /\ closed = {} /\ stopped = {}
  /\ hand = [p \in Pipe |-> 0] /\ output = [p \in Pipe |-> <<>>]
  /\ ended = {} /\ collected = {} /\ code = 0 /\ exited = FALSE

Becomes(c, from, to) == process[c] = from /\ process' = [process EXCEPT ![c] = to]

-----------------------------------------------------------------------------
(* Containers *)

\* A process writes a line when the pipe has room for it.
Write(p) ==
  /\ ~exited /\ process[p[1]] = Running
  /\ written[p] < Lines /\ buffered[p] < PipeSize
  /\ written' = [written EXCEPT ![p] = @ + 1]
  /\ buffered' = [buffered EXCEPT ![p] = @ + 1]
  /\ UNCHANGED <<process, closed, stopped, hand, output, mainVars>>

\* It ends by itself, early or late, unless it waits for room in a pipe.
End(c) ==
  /\ ~exited /\ \A p \in PipesOf(c) : written[p] = Lines \/ buffered[p] < PipeSize
  /\ \E k \in Code : Becomes(c, Running, k)
  /\ UNCHANGED <<pipeVars, mainVars>>

Kill(c) == ~exited /\ Becomes(c, Running, Signaled) /\ UNCHANGED <<pipeVars, mainVars>>

-----------------------------------------------------------------------------
(* dispatchContainer *)

StartProcess(c) == ~exited /\ Becomes(c, Unborn, Running) /\ UNCHANGED <<pipeVars, mainVars>>

\* Mutant: no exit code is submitted for a container that cannot be started.
StartFailsSilently(c) ==
  /\ ~exited /\ Becomes(c, Unborn, Unstarted)
  /\ closed' = closed \cup PipesOf(c)
  /\ UNCHANGED <<written, buffered, stopped, hand, output, mainVars>>

\* cmd.Run cannot start the process: it closes the pipes and returns.
StartFails(c) ==
  /\ ~exited /\ Becomes(c, Unborn, Unstarted)
  /\ closed' = closed \cup PipesOf(c)
  /\ ended' = ended \cup {c}
  /\ UNCHANGED <<written, buffered, stopped, hand, output, collected, code, exited>>

\* The process has ended: cmd.Run closes the pipes, whatever is in them, and
\* returns.
RunReturns(c) ==
  /\ ~exited /\ process[c] \notin {Unborn, Unstarted, Running} /\ c \notin ended
  /\ closed' = closed \cup PipesOf(c)
  /\ buffered' = [p \in Pipe |-> IF p \in PipesOf(c) THEN 0 ELSE buffered[p]]
  /\ ended' = ended \cup {c}
  /\ UNCHANGED <<process, written, stopped, hand, output, collected, code, exited>>

Readable(p) == ~exited /\ p \notin closed \cup stopped /\ hand[p] = 0 /\ buffered[p] > 0

Scan(p) ==
  /\ Readable(p)
  /\ hand' = [hand EXCEPT ![p] = written[p] - buffered[p] + 1]
  /\ buffered' = [buffered EXCEPT ![p] = @ - 1]
  /\ UNCHANGED <<process, written, closed, stopped, output, mainVars>>

\* A line is longer than a scanner takes: the goroutine ends and the pipe is
\* read no more.
ScanStops(p) ==
  /\ Readable(p)
  /\ stopped' = stopped \cup {p}
  /\ UNCHANGED <<process, written, buffered, closed, hand, output, mainVars>>

\* Mutant: the line that has been written is kept.
WriteLineAgain(p) ==
  /\ ~exited /\ hand[p] # 0 /\ Len(output[p]) < Lines
  /\ output' = [output EXCEPT ![p] = Append(@, hand[p])]
  /\ UNCHANGED <<process, written, buffered, closed, stopped, hand, mainVars>>

\* One call, under the mutex of all scanners.
WriteLine(p) ==
  /\ ~exited /\ hand[p] # 0
  /\ output' = [output EXCEPT ![p] = Append(@, hand[p])]
  /\ hand' = [hand EXCEPT ![p] = 0]
  /\ UNCHANGED <<process, written, buffered, closed, stopped, mainVars>>

-----------------------------------------------------------------------------
(* Run *)

\* What the goroutine of c submits.
ExitCode(c) == IF process[c] = Unstarted THEN Generic ELSE process[c]

\* Mutant: the last code counts.
CollectLast(c) ==
  /\ ~exited /\ c \in ended \ collected
  /\ code' = ExitCode(c)
  /\ collected' = collected \cup {c}
  /\ UNCHANGED <<process, pipeVars, ended, exited>>

\* The highest code counts, and a code below 0 does not.
Collect(c) ==
  /\ ~exited /\ c \in ended \ collected
  /\ code' = IF ExitCode(c) > code THEN ExitCode(c) ELSE code
  /\ collected' = collected \cup {c}
  /\ UNCHANGED <<process, pipeVars, ended, exited>>

\* Scanners that still hold lines are not waited for.
Exit ==
  /\ ~exited /\ collected = Container /\ exited' = TRUE
  /\ UNCHANGED <<process, pipeVars, ended, collected, code>>

-----------------------------------------------------------------------------
Process(c) == (\E p \in PipesOf(c) : Write(p)) \/ End(c)

Goroutine(c) ==
  \/ StartProcess(c) \/ StartFails(c) \/ RunReturns(c) \/ Collect(c)
  \/ \E p \in PipesOf(c) : Scan(p) \/ ScanStops(p) \/ WriteLine(p)

Next == Exit \/ \E c \in Container : Process(c) \/ Kill(c) \/ Goroutine(c)

Spec == Init /\ [][Next]_vars

\* Goroutines proceed and containers come to an end when they can write.
FairSpec ==
  Spec /\ WF_vars(Exit) /\ \A c \in Container : WF_vars(Process(c)) /\ WF_vars(Goroutine(c))

-----------------------------------------------------------------------------
(* Properties *)

\* The lines of a pipe are in the output in order and none is left out or
\* repeated; as long as the container runs, the others are still on their way.
OutputInOrder ==
  \A p \in Pipe :
    /\ output[p] = [i \in 1..Len(output[p]) |-> i]
    /\ process[p[1]] = Running =>
         Len(output[p]) + (IF hand[p] = 0 THEN 0 ELSE 1) + buffered[p] = written[p]

\* The job does not end before all its containers have, and one that ends with
\* 0 has no failed container, except one that a signal has killed: its code,
\* -1, does not count.
ExitTruthful ==
  exited => \A c \in Container :
    process[c] \notin {Running, Unborn} /\ (code = 0 => process[c] \in {0, Signaled})

\* The job ends, provided that no scanner has given up on a line, which lets its
\* container wait for room in the pipe for ever.
Exits == [](stopped = {}) => <>exited
=============================================================================
