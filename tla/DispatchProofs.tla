--------------------------- MODULE DispatchProofs ---------------------------
(***************************************************************************)
(* Proofs about Dispatch: for any containers, pipes, lines and codes.      *)
(***************************************************************************)
EXTENDS Dispatch, TLAPS

\* What a container has come to when cmd.Run has returned stays.
EndedOK ==
  /\ \A c \in ended : process[c] \notin {Unborn, Running}
  /\ \A p \in closed : p[1] \in ended
  /\ exited => collected = Container

\* Main knows no higher code than the one it keeps.
CodeOK == \A c \in collected : ExitCode(c) <= code

Held(p) == IF hand[p] = 0 THEN 0 ELSE 1

\* A line is in the output, in the hands of its scanner or in the pipe, in
\* this order, until the pipe is closed.
LinesOK ==
  \A p \in Pipe :
    /\ \A i \in 1..Len(output[p]) : output[p][i] = i
    /\ hand[p] \in {0, Len(output[p]) + 1}
    /\ p \notin closed => Len(output[p]) + Held(p) + buffered[p] = written[p]

IInv == TypeOK /\ EndedOK /\ CodeOK /\ LinesOK

\* A pipe belongs to one container.
LEMMA PipeOf ==
  /\ \A c \in Container : PipesOf(c) \subseteq Pipe /\ \A p \in PipesOf(c) : p[1] = c
  /\ \A p \in Pipe : p[1] \in Container /\ p \in PipesOf(p[1])
  BY DEF Pipe, PipesOf

LEMMA CodeTypes ==
  /\ Codes \subseteq Nat /\ Signaled \in Int /\ 0 \in Codes /\ Generic \in Codes
  /\ Unborn \notin Codes /\ Unstarted \notin Codes /\ Running \notin Codes /\ Signaled \notin Codes
  BY DispatchAssumption DEF Codes, Generic, Unborn, Unstarted, Running, Signaled

LEMMA InitIInv == Init => IInv
<1> SUFFICES ASSUME Init PROVE IInv
  OBVIOUS
<1>1. TypeOK
  <2>1. process \in [Container -> Codes \cup {Signaled, Running, Unborn, Unstarted}]
    BY DEF Init
  <2>2. output \in [Pipe -> Seq(1..Lines)]
    BY DEF Init
  <2>3. /\ written \in [Pipe -> 0..Lines] /\ buffered \in [Pipe -> 0..PipeSize]
        /\ hand \in [Pipe -> 0..Lines]
    BY DispatchAssumption DEF Init
  <2> QED BY <2>1, <2>2, <2>3, CodeTypes DEF Init, TypeOK
<1>2. EndedOK /\ CodeOK
  BY DEF Init, EndedOK, CodeOK
<1>3. LinesOK
  <2> SUFFICES ASSUME NEW p \in Pipe
               PROVE  /\ \A i \in 1..Len(output[p]) : output[p][i] = i
                      /\ hand[p] \in {0, Len(output[p]) + 1}
                      /\ Len(output[p]) + Held(p) + buffered[p] = written[p]
    BY DEF LinesOK
  <2>1. output[p] = <<>> /\ hand[p] = 0 /\ buffered[p] = 0 /\ written[p] = 0
    BY DEF Init
  <2> QED BY <2>1 DEF Held
<1> QED BY <1>1, <1>2, <1>3 DEF IInv

\* A process that changes while its container has not ended.
LEMMA ProcessChanges ==
  ASSUME IInv, NEW c \in Container \ ended, NEW to \in Codes \cup {Signaled, Running, Unborn, Unstarted},
         process' = [process EXCEPT ![c] = to], UNCHANGED <<pipeVars, mainVars>>
  PROVE  IInv'
<1>1. TypeOK'
  BY DEF IInv, TypeOK, pipeVars, mainVars
<1>2. EndedOK'
  BY DEF IInv, TypeOK, EndedOK, pipeVars, mainVars
<1>3. CodeOK'
  BY DEF IInv, TypeOK, CodeOK, ExitCode, pipeVars, mainVars
<1>4. LinesOK'
  BY DEF IInv, LinesOK, Held, pipeVars, mainVars
<1> QED BY <1>1, <1>2, <1>3, <1>4 DEF IInv

\* The steps of containers and of cmd.Run that touch no line.
LEMMA ProcessStep ==
  ASSUME IInv, NEW c \in Container, End(c) \/ Kill(c) \/ StartProcess(c)
  PROVE  IInv'
<1>1. c \notin ended /\ UNCHANGED <<pipeVars, mainVars>>
  BY DEF IInv, EndedOK, End, Kill, StartProcess, Becomes
<1>2. \E to \in Codes \cup {Signaled, Running, Unborn, Unstarted} :
        process' = [process EXCEPT ![c] = to]
  BY DEF End, Kill, StartProcess, Becomes, Codes
<1> QED BY <1>1, <1>2, ProcessChanges

\* A step at one pipe leaves the lines of the others where they are.
LEMMA LinesAtOne ==
  ASSUME LinesOK, NEW p \in Pipe, UNCHANGED closed,
         \A q \in Pipe \ {p} : /\ output'[q] = output[q] /\ hand'[q] = hand[q]
                               /\ written'[q] = written[q] /\ buffered'[q] = buffered[q],
         \A i \in 1..Len(output'[p]) : output'[p][i] = i,
         hand'[p] \in {0, Len(output'[p]) + 1},
         p \notin closed =>
           Len(output'[p]) + (IF hand'[p] = 0 THEN 0 ELSE 1) + buffered'[p] = written'[p]
  PROVE  LinesOK'
<1> SUFFICES ASSUME NEW q \in Pipe
             PROVE  /\ \A i \in 1..Len(output'[q]) : output'[q][i] = i
                    /\ hand'[q] \in {0, Len(output'[q]) + 1}
                    /\ q \notin closed =>
                         Len(output'[q]) + (IF hand'[q] = 0 THEN 0 ELSE 1) + buffered'[q] = written'[q]
  BY DEF LinesOK, Held
<1>1. CASE q = p
  BY <1>1
<1>2. CASE q # p
  BY <1>2 DEF LinesOK, Held
<1> QED BY <1>1, <1>2

LEMMA WriteStep == ASSUME IInv, NEW p \in Pipe, Write(p) PROVE IInv'
<1>1. /\ written' = [written EXCEPT ![p] = @ + 1] /\ buffered' = [buffered EXCEPT ![p] = @ + 1]
      /\ UNCHANGED <<process, closed, stopped, hand, output, mainVars>>
  BY DEF Write
<1>2. /\ written[p] + 1 \in 0..Lines /\ buffered[p] + 1 \in 0..PipeSize
      /\ written[p] \in Nat /\ buffered[p] \in Nat /\ Len(output[p]) \in Nat
  BY DispatchAssumption DEF Write, IInv, TypeOK
<1>3. TypeOK'
  BY <1>1, <1>2 DEF IInv, TypeOK, mainVars
<1>4. EndedOK' /\ CodeOK'
  BY <1>1 DEF IInv, EndedOK, CodeOK, ExitCode, mainVars
<1>5. /\ written'[p] = written[p] + 1 /\ buffered'[p] = buffered[p] + 1
      /\ \A q \in Pipe \ {p} : written'[q] = written[q] /\ buffered'[q] = buffered[q]
  BY <1>1 DEF IInv, TypeOK
<1>6. /\ \A i \in 1..Len(output'[p]) : output'[p][i] = i
      /\ hand'[p] \in {0, Len(output'[p]) + 1}
  BY <1>1 DEF IInv, LinesOK
<1>7. p \notin closed =>
        Len(output'[p]) + (IF hand'[p] = 0 THEN 0 ELSE 1) + buffered'[p] = written'[p]
  <2> DEFINE h == IF hand'[p] = 0 THEN 0 ELSE 1
  <2>1. h = Held(p) /\ h \in Nat
    BY <1>1 DEF Held
  <2>2. p \notin closed => Len(output[p]) + Held(p) + buffered[p] = written[p]
    BY DEF IInv, LinesOK
  <2> HIDE DEF h
  <2>3. p \notin closed => Len(output'[p]) + h + buffered'[p] = written'[p]
    BY <1>1, <1>2, <1>5, <2>1, <2>2
  <2> QED BY <2>3 DEF h
<1>8. LinesOK'
  BY <1>1, <1>5, <1>6, <1>7, LinesAtOne DEF IInv
<1> QED BY <1>3, <1>4, <1>8 DEF IInv

LEMMA ScanStep == ASSUME IInv, NEW p \in Pipe, Scan(p) \/ ScanStops(p) PROVE IInv'
<1>1. CASE Scan(p)
  <2>1. /\ hand' = [hand EXCEPT ![p] = written[p] - buffered[p] + 1]
        /\ buffered' = [buffered EXCEPT ![p] = @ - 1]
        /\ UNCHANGED <<process, written, closed, stopped, output, mainVars>>
        /\ p \notin closed /\ hand[p] = 0 /\ buffered[p] > 0
    BY <1>1 DEF Scan, Readable
  <2>2. /\ written[p] \in 0..Lines /\ buffered[p] \in 0..PipeSize /\ output[p] \in Seq(1..Lines)
        /\ Len(output[p]) + buffered[p] = written[p] /\ Len(output[p]) \in Nat
    BY <2>1 DEF IInv, TypeOK, LinesOK, Held
  <2>3. /\ written[p] - buffered[p] + 1 = Len(output[p]) + 1
        /\ Len(output[p]) + 1 \in 0..Lines /\ buffered[p] - 1 \in 0..PipeSize
    BY <2>1, <2>2, DispatchAssumption
  <2>4. TypeOK'
    BY <2>1, <2>3 DEF IInv, TypeOK, mainVars
  <2>5. EndedOK' /\ CodeOK'
    BY <2>1 DEF IInv, EndedOK, CodeOK, ExitCode, mainVars
  <2>6. /\ hand'[p] = Len(output[p]) + 1 /\ buffered'[p] = buffered[p] - 1
        /\ \A q \in Pipe \ {p} : hand'[q] = hand[q] /\ buffered'[q] = buffered[q]
    BY <2>1, <2>3 DEF IInv, TypeOK
  <2>7. \A i \in 1..Len(output'[p]) : output'[p][i] = i
    BY <2>1 DEF IInv, LinesOK
  <2>8. Len(output'[p]) + (IF hand'[p] = 0 THEN 0 ELSE 1) + buffered'[p] = written'[p]
    <3>1. (IF hand'[p] = 0 THEN 0 ELSE 1) = 1
      BY <2>2, <2>6
    <3>2. Len(output'[p]) + 1 + buffered'[p] = written'[p]
      BY <2>1, <2>2, <2>6
    <3> QED BY <3>1, <3>2
  <2>9. LinesOK'
    BY <2>1, <2>6, <2>7, <2>8, LinesAtOne DEF IInv
  <2> QED BY <2>4, <2>5, <2>9 DEF IInv
<1>2. CASE ScanStops(p)
  BY <1>2 DEF ScanStops, IInv, TypeOK, EndedOK, CodeOK, ExitCode, LinesOK, Held, mainVars
<1> QED BY <1>1, <1>2

LEMMA WriteLineStep == ASSUME IInv, NEW p \in Pipe, WriteLine(p) PROVE IInv'
<1>1. /\ output' = [output EXCEPT ![p] = Append(@, hand[p])] /\ hand' = [hand EXCEPT ![p] = 0]
      /\ UNCHANGED <<process, written, buffered, closed, stopped, mainVars>>
      /\ hand[p] # 0
  BY DEF WriteLine
<1>2. /\ output[p] \in Seq(1..Lines) /\ hand[p] \in 1..Lines /\ Len(output[p]) \in Nat
      /\ hand[p] = Len(output[p]) + 1 /\ \A i \in 1..Len(output[p]) : output[p][i] = i
      /\ written[p] \in Nat /\ buffered[p] \in Nat
  BY <1>1, DispatchAssumption DEF IInv, TypeOK, LinesOK
<1>3. /\ Append(output[p], hand[p]) \in Seq(1..Lines)
      /\ Len(Append(output[p], hand[p])) = Len(output[p]) + 1
      /\ \A i \in 1..(Len(output[p]) + 1) : Append(output[p], hand[p])[i] = i
  BY <1>2
<1>4. TypeOK'
  BY <1>1, <1>3, DispatchAssumption DEF IInv, TypeOK, mainVars
<1>5. EndedOK' /\ CodeOK'
  BY <1>1 DEF IInv, EndedOK, CodeOK, ExitCode, mainVars
<1>6. /\ hand'[p] = 0 /\ output'[p] = Append(output[p], hand[p])
      /\ \A q \in Pipe \ {p} : hand'[q] = hand[q] /\ output'[q] = output[q]
  BY <1>1 DEF IInv, TypeOK
<1>7. p \notin closed => Len(output[p]) + 1 + buffered[p] = written[p]
  BY <1>1 DEF IInv, LinesOK, Held
<1>8. /\ \A i \in 1..Len(output'[p]) : output'[p][i] = i
      /\ hand'[p] \in {0, Len(output'[p]) + 1}
  BY <1>2, <1>3, <1>6
<1>9. p \notin closed =>
        Len(output'[p]) + (IF hand'[p] = 0 THEN 0 ELSE 1) + buffered'[p] = written'[p]
  BY <1>1, <1>2, <1>3, <1>6, <1>7
<1>10. LinesOK'
  BY <1>1, <1>6, <1>8, <1>9, LinesAtOne DEF IInv
<1> QED BY <1>4, <1>5, <1>10 DEF IInv

\* cmd.Run returns: the pipes are closed, with what was in them.
LEMMA ReturnStep == ASSUME IInv, NEW c \in Container, StartFails(c) \/ RunReturns(c) PROVE IInv'
<1>1. CASE StartFails(c)
  <2>1. TypeOK'
    BY <1>1, PipeOf DEF StartFails, Becomes, IInv, TypeOK
  <2>2. EndedOK'
    BY <1>1, PipeOf DEF StartFails, Becomes, IInv, TypeOK, EndedOK, Unborn, Unstarted, Running
  <2>3. c \notin ended
    BY <1>1 DEF StartFails, Becomes, IInv, EndedOK
  <2>4. CodeOK'
    BY <1>1, <2>3 DEF StartFails, Becomes, IInv, TypeOK, CodeOK, ExitCode
  <2>5. LinesOK'
    BY <1>1 DEF StartFails, IInv, LinesOK, Held
  <2> QED BY <2>1, <2>2, <2>4, <2>5 DEF IInv
<1>2. CASE RunReturns(c)
  <2>1. TypeOK'
    BY <1>2, PipeOf, DispatchAssumption DEF RunReturns, IInv, TypeOK
  <2>2. EndedOK'
    BY <1>2, PipeOf DEF RunReturns, IInv, TypeOK, EndedOK
  <2>3. CodeOK'
    BY <1>2 DEF RunReturns, IInv, CodeOK, ExitCode
  <2>4. LinesOK'
    BY <1>2 DEF RunReturns, IInv, LinesOK, Held
  <2> QED BY <2>1, <2>2, <2>3, <2>4 DEF IInv
<1> QED BY <1>1, <1>2

LEMMA MainStep == ASSUME IInv, Exit \/ \E c \in Container : Collect(c) PROVE IInv'
<1>1. CASE Exit
  BY <1>1 DEF Exit, pipeVars, IInv, TypeOK, EndedOK, CodeOK, ExitCode, LinesOK, Held
<1>2. ASSUME NEW c \in Container, Collect(c) PROVE IInv'
  <2>1. /\ ~exited /\ c \in ended /\ collected' = collected \cup {c}
        /\ code' = IF ExitCode(c) > code THEN ExitCode(c) ELSE code
        /\ UNCHANGED <<process, pipeVars, ended, exited>>
    BY <1>2 DEF Collect
  <2>2. \A d \in ended : ExitCode(d) \in Codes \cup {Signaled} /\ ExitCode(d) \in Int
    <3> SUFFICES ASSUME NEW d \in ended
                 PROVE  ExitCode(d) \in Codes \cup {Signaled} /\ ExitCode(d) \in Int
      OBVIOUS
    <3>1. process[d] \in Codes \cup {Signaled, Unstarted}
      BY DEF IInv, TypeOK, EndedOK
    <3>2. ExitCode(d) \in Codes \cup {Signaled}
      BY <3>1, CodeTypes, Zenon DEF ExitCode
    <3>3. Codes \cup {Signaled} \subseteq Int
      BY CodeTypes
    <3> QED BY <3>2, <3>3, Zenon
  <2>3. code' \in Codes /\ code' \in Nat /\ code' >= code /\ code' >= ExitCode(c) /\ code \in Nat
    <3>1. c \in ended /\ code \in Codes /\ code \in Nat
      BY <2>1, CodeTypes DEF IInv, TypeOK
    <3>2. CASE ExitCode(c) > code
      <4>1. ExitCode(c) # Signaled
        BY <3>1, <3>2 DEF Signaled
      <4> QED BY <2>1, <2>2, <3>1, <3>2, <4>1, CodeTypes
    <3>3. CASE ~(ExitCode(c) > code)
      BY <2>1, <2>2, <3>1, <3>3
    <3> QED BY <3>2, <3>3
  <2>4. TypeOK'
    BY <2>1, <2>3 DEF IInv, TypeOK, pipeVars
  <2>5. EndedOK'
    BY <2>1 DEF IInv, EndedOK, pipeVars
  <2>6. CodeOK'
    <3> SUFFICES ASSUME NEW d \in collected \cup {c} PROVE ExitCode(d) <= code'
      BY <2>1 DEF CodeOK, ExitCode
    <3>1. CASE d = c
      BY <3>1, <2>1, <2>2, <2>3
    <3>2. CASE d \in collected
      <4>1. d \in ended /\ ExitCode(d) <= code
        BY <3>2 DEF IInv, TypeOK, CodeOK
      <4> QED BY <4>1, <2>2, <2>3
    <3> QED BY <3>1, <3>2
  <2>7. LinesOK'
    BY <2>1 DEF IInv, LinesOK, Held, pipeVars
  <2> QED BY <2>4, <2>5, <2>6, <2>7 DEF IInv
<1> QED BY <1>1, <1>2

LEMMA Inductive == IInv /\ [Next]_vars => IInv'
<1> SUFFICES ASSUME IInv, [Next]_vars PROVE IInv'
  OBVIOUS
<1>1. CASE UNCHANGED vars
  BY <1>1 DEF vars, pipeVars, mainVars, IInv, TypeOK, EndedOK, CodeOK, ExitCode, LinesOK, Held
<1>2. ASSUME NEW c \in Container, Process(c) \/ Kill(c) \/ Goroutine(c) PROVE IInv'
  <2>1. \A p \in PipesOf(c) : p \in Pipe
    BY PipeOf
  <2> QED
    BY <1>2, <2>1, ProcessStep, WriteStep, ScanStep, WriteLineStep, ReturnStep, MainStep
       DEF Process, Goroutine
<1> QED BY <1>1, <1>2, MainStep DEF Next

LEMMA Invariance == Spec => []IInv
  BY InitIInv, Inductive, PTL DEF Spec

\* The variables have their types in every behaviour.
THEOREM TypeCorrect == Spec => []TypeOK
  BY Invariance, PTL DEF IInv

\* Whatever the scanners of the pipes interleave, the output has the lines of
\* each pipe in order, without gaps: OutputInOrder.
THEOREM LinesKeepTheirOrder == Spec => []OutputInOrder
<1>1. IInv => OutputInOrder
  <2> SUFFICES ASSUME IInv, NEW p \in Pipe
               PROVE  /\ output[p] = [i \in 1..Len(output[p]) |-> i]
                      /\ process[p[1]] = Running =>
                           Len(output[p]) + (IF hand[p] = 0 THEN 0 ELSE 1) + buffered[p] = written[p]
    BY DEF OutputInOrder
  <2>1. output[p] \in Seq(1..Lines) /\ \A i \in 1..Len(output[p]) : output[p][i] = i
    BY DEF IInv, TypeOK, LinesOK
  <2>2. output[p] = [i \in 1..Len(output[p]) |-> i]
    BY <2>1
  <2>3. process[p[1]] = Running => p \notin closed
    BY DEF IInv, EndedOK
  <2> QED BY <2>2, <2>3 DEF IInv, LinesOK, Held
<1> QED BY <1>1, Invariance, PTL

\* Run exits with its containers ended, and with 0 only when none of them has
\* failed by itself: ExitTruthful.
THEOREM ExitsAreTruthful == Spec => []ExitTruthful
<1>1. IInv => ExitTruthful
  <2> SUFFICES ASSUME IInv, exited, NEW c \in Container
               PROVE  process[c] \notin {Running, Unborn} /\ (code = 0 => process[c] \in {0, Signaled})
    BY DEF ExitTruthful
  <2>1. c \in collected /\ c \in ended /\ process[c] \notin {Running, Unborn}
    BY DEF IInv, TypeOK, EndedOK
  <2>2. ExitCode(c) <= code /\ process[c] \in Codes \cup {Signaled, Unstarted}
    BY <2>1 DEF IInv, TypeOK, CodeOK
  <2>3. ASSUME code = 0 PROVE process[c] \in {0, Signaled}
    <3>1. CASE process[c] = Unstarted
      BY <2>2, <2>3, <3>1 DEF ExitCode, Generic
    <3>2. CASE process[c] \in Codes
      <4>1. process[c] \in Nat /\ ExitCode(c) = process[c]
        BY <3>2, CodeTypes DEF ExitCode
      <4> QED BY <4>1, <2>2, <2>3
    <3> QED BY <2>2, <3>1, <3>2
  <2> QED BY <2>1, <2>3
<1> QED BY <1>1, Invariance, PTL
=============================================================================
