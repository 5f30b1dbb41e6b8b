----------------------------- MODULE LogStream ------------------------------
(***************************************************************************)
(* The logs of one container on their way from the output file of the job  *)
(* to the caller of `kubectl logs`.  On the agent (Logs and tailF in       *)
(* agent/pkg/server/workload.go), a goroutine tails the file, another one  *)
(* waits for the controller to close, and the handler passes lines on.  In *)
(* the controller (logReader in controller/pkg/provider/handler.go), a     *)
(* receiver fills a channel that Read empties into the caller's buffer.    *)
(* A byte of output is a pair: the number of a line and a place in it.     *)
(***************************************************************************)
EXTENDS Naturals, Sequences, SequencesExt

CONSTANTS
  LineKind,  \* lines: [mine, old : BOOLEAN, size : Nat], as the reader asks for them
  Option,    \* requests: [follow, since : BOOLEAN, tail, limit : Nat]
  MaxLines,  \* bound: lines that the job writes
  Window,    \* bound: chunks under way in the tunnel
  Capacity,  \* capacity of logReader.chunks (1024 in the code)
  Buffer     \* len(p), the buffer that Read is given (32 KiB with io.Copy)

ASSUME LogAssumption ==
  /\ \A l \in LineKind : l.mine \in BOOLEAN /\ l.old \in BOOLEAN /\ l.size \in Nat \ {0}
  /\ \A o \in Option :
       o.follow \in BOOLEAN /\ o.since \in BOOLEAN /\ o.tail \in Nat /\ o.limit \in Nat
  /\ MaxLines \in Nat /\ {Window, Capacity, Buffer} \subseteq Nat \ {0}

VARIABLES
  opts,      \* what the caller asked for
  exists,    \* the output file of the job exists
  file,      \* its lines
  tail,      \* tailF: [at, pos, latest, ring, hand]
  stop,      \* the channel that stops the handler (one element)
  handler,   \* the handler: [at, chunk]
  up,        \* the controller's half of the stream
  down,      \* chunks under way to the controller
  receiver,  \* the goroutine of startReader: [at, chunk]
  chunks,    \* logReader.chunks
  cache,     \* logReader.cache
  count,     \* logReader.count
  out,       \* the bytes that the caller has received
  caller     \* the HTTP handler that copies from the reader

agentVars == <<tail, stop, handler>>
readerVars == <<cache, count, out, caller>>
vars == <<opts, exists, file, agentVars, up, down, receiver, chunks, readerVars>>

Line == 0..MaxLines                   \* 0: none
Byte == (1..MaxLines) \X Nat

TailState ==
  [at : {"waiting", "scanning", "sending", "flushing", "done", "canceled"},
   pos : Nat, latest : BOOLEAN, ring : Seq(Line \ {0}), hand : Line]
HandlerState  == [at : {"selecting", "sending", "returned"}, chunk : Line]
ReceiverState == [at : {"receiving", "queueing", "done"}, chunk : Line]

TypeOK ==
  /\ opts \in Option /\ exists \in BOOLEAN
  /\ file \in Seq(LineKind) /\ Len(file) <= MaxLines
  /\ tail \in TailState /\ tail.pos <= Len(file) /\ Len(tail.ring) <= opts.tail
  /\ stop \in {"empty", "tailed", "closed"}
  /\ handler \in HandlerState /\ receiver \in ReceiverState
  /\ up \in {"open", "closed", "canceled"}
  /\ down \in Seq(Line \ {0}) /\ Len(down) <= Window
  /\ chunks \in Seq(Line \ {0}) /\ Len(chunks) <= Capacity
  /\ cache \in Seq(Byte) /\ count \in Nat /\ out \in Seq(Byte)
  /\ caller \in {"reading", "ended", "gone"}

\* GetContainerLogs has opened the stream and sent the request.
Init ==
  /\ opts \in Option /\ exists = FALSE /\ file = <<>>
  /\ tail = [at |-> "waiting", pos |-> 0, latest |-> opts.tail > 0, ring |-> <<>>, hand |-> 0]
  /\ stop = "empty" /\ handler = [at |-> "selecting", chunk |-> 0]
  /\ up = "open" /\ down = <<>>
  /\ receiver = [at |-> "receiving", chunk |-> 0] /\ chunks = <<>>
  /\ cache = <<>> /\ count = 0 /\ out = <<>> /\ caller = "reading"

\* A request that does not follow has found the end of the file.
AtEnd == tail.at \in {"flushing", "done"} \/ (tail.at = "sending" /\ tail.latest)

\* What all this is for: the goroutines and buffers of both sides are hidden.
Delivery == INSTANCE LogDelivery
              WITH end <- IF AtEnd /\ ~opts.follow THEN <<tail.pos>> ELSE <<>>

-----------------------------------------------------------------------------
(* The job *)

CreateFile ==
  /\ ~exists /\ exists' = TRUE
  /\ UNCHANGED <<opts, file, agentVars, up, down, receiver, chunks, readerVars>>

\* dispatch writes each line with one call.
WriteLine ==
  /\ exists /\ Len(file) < MaxLines
  /\ \E l \in LineKind : file' = Append(file, l)
  /\ UNCHANGED <<opts, exists, agentVars, up, down, receiver, chunks, readerVars>>

-----------------------------------------------------------------------------
(* The agent *)

TailOnly == UNCHANGED <<opts, exists, file, stop, handler, up, down, receiver, chunks, readerVars>>

\* The ticker, or the first time: nothing happens while there is no file.
TailTick ==
  /\ tail.at = "waiting" /\ exists
  /\ tail' = [tail EXCEPT !.at = "scanning"]
  /\ TailOnly

\* The lines that a ring of n elements keeps.
Latest(s, n) == SubSeq(s, Len(s) - (IF n < Len(s) THEN n ELSE Len(s)) + 1, Len(s))

TailScan ==
  /\ tail.at = "scanning" /\ tail.pos < Len(file)
  /\ LET l == tail.pos + 1
     IN tail' = CASE ~file[l].mine -> [tail EXCEPT !.pos = l]
                  [] file[l].mine /\ tail.latest ->
                       [tail EXCEPT !.pos = l, !.ring = Latest(Append(@, l), opts.tail)]
                  [] OTHER -> [tail EXCEPT !.pos = l, !.hand = l, !.at = "sending"]
  /\ TailOnly

\* The end of the file as it was: what the ring has kept is sent, and then
\* there is no more scanning in this turn.
TailFlush ==
  /\ \/ tail.at = "scanning" /\ tail.pos = Len(file)
     \/ tail.at = "flushing"
  /\ tail.ring # <<>>
  /\ tail' = [tail EXCEPT !.at = "sending", !.hand = Head(tail.ring), !.ring = Tail(@)]
  /\ TailOnly

\* The select for stop keeps the first reason.
Stops(reason) == stop' = IF stop = "empty" THEN reason ELSE stop

TailFinished ==
  /\ tail.ring = <<>>
  /\ \/ tail.at = "scanning" /\ tail.pos = Len(file)
     \/ tail.at = "flushing"

\* Mutant: the scanner, which has stopped for good at the end, is kept.
TailNotAgain ==
  /\ TailFinished /\ opts.follow
  /\ tail' = [tail EXCEPT !.at = "done", !.latest = FALSE]
  /\ TailOnly

\* A follower scans again at the next tick, and from then on everything.
TailAgain ==
  /\ TailFinished /\ opts.follow
  /\ tail' = [tail EXCEPT !.at = "waiting", !.latest = FALSE]
  /\ TailOnly

TailEnds ==
  /\ TailFinished /\ ~opts.follow
  /\ tail' = [tail EXCEPT !.at = "done"]
  /\ Stops("tailed")
  /\ UNCHANGED <<opts, exists, file, handler, up, down, receiver, chunks, readerVars>>

\* The context of tailF is cancelled when the handler returns; only the select
\* for the next tick looks at it.
TailCanceled ==
  /\ tail.at = "waiting" /\ handler.at = "returned"
  /\ tail' = [tail EXCEPT !.at = "canceled"]
  /\ Stops("tailed")
  /\ UNCHANGED <<opts, exists, file, handler, up, down, receiver, chunks, readerVars>>

\* Mutant: only the end of the stream is a reason to stop.
HearsEndOnly ==
  /\ up = "closed" /\ stop = "empty"
  /\ Stops("closed")
  /\ UNCHANGED <<opts, exists, file, tail, handler, up, down, receiver, chunks, readerVars>>

\* The other goroutine: Recv fails once the controller has closed or cancelled.
HearsClose ==
  /\ up # "open" /\ stop = "empty"
  /\ Stops("closed")
  /\ UNCHANGED <<opts, exists, file, tail, handler, up, down, receiver, chunks, readerVars>>

\* The unbuffered channel for lines: tailF hands over what it holds.
TakeLine ==
  /\ handler.at = "selecting" /\ tail.at = "sending"
  /\ handler' = [at |-> "sending", chunk |-> tail.hand]
  /\ tail' = [tail EXCEPT !.hand = 0, !.at = IF tail.latest THEN "flushing" ELSE "scanning"]
  /\ UNCHANGED <<opts, exists, file, stop, up, down, receiver, chunks, readerVars>>

SendChunk ==
  /\ handler.at = "sending" /\ up # "canceled" /\ Len(down) < Window
  /\ down' = Append(down, handler.chunk)
  /\ handler' = [at |-> "selecting", chunk |-> 0]
  /\ UNCHANGED <<opts, exists, file, tail, stop, up, receiver, chunks, readerVars>>

HandlerReturns ==
  /\ \/ handler.at = "selecting" /\ stop # "empty"
     \/ handler.at = "sending" /\ up = "canceled"
  /\ handler' = [at |-> "returned", chunk |-> 0]
  /\ UNCHANGED <<opts, exists, file, tail, stop, up, down, receiver, chunks, readerVars>>

-----------------------------------------------------------------------------
(* The controller *)

Close == up' = IF up = "open" THEN "closed" ELSE up

ReceiverRecv ==
  /\ receiver.at = "receiving" /\ down # <<>> /\ up # "canceled"
  /\ receiver' = [at |-> "queueing", chunk |-> Head(down)]
  /\ down' = Tail(down)
  /\ UNCHANGED <<opts, exists, file, agentVars, up, chunks, readerVars>>

ReceiverQueues ==
  /\ receiver.at = "queueing" /\ Len(chunks) < Capacity
  /\ chunks' = Append(chunks, receiver.chunk)
  /\ receiver' = [at |-> "receiving", chunk |-> 0]
  /\ UNCHANGED <<opts, exists, file, agentVars, up, down, readerVars>>

\* Recv fails; the error is stored, the channel and then the reader are closed.
ReceiverEnds ==
  /\ receiver.at = "receiving"
  /\ \/ up = "canceled"
     \/ down = <<>> /\ handler.at = "returned"
  /\ receiver' = [at |-> "done", chunk |-> 0]
  /\ Close
  /\ UNCHANGED <<opts, exists, file, agentVars, down, chunks, readerVars>>

\* Mutant: Read does not close the reader at the limit.
ReturnsOpen(bytes) ==
  /\ count' = count + Len(bytes)
  /\ out' = out \o bytes
  /\ UNCHANGED <<caller, up>>

\* More bytes than p has room for, or an excess that p cannot be shortened by:
\* the deferred function or the caller slices out of range.
Panics(bytes) ==
  \/ Len(bytes) > Buffer
  \/ opts.limit > 0 /\ count + Len(bytes) > opts.limit + Buffer

\* Read returns these bytes.  The deferred function counts them, and closes the
\* stream when they exceed the limit; what it does to p and n is not returned.
Returns(bytes) ==
  /\ count' = count + Len(bytes)
  /\ IF Panics(bytes) THEN caller' = "gone" /\ up' = "canceled" /\ UNCHANGED out
     ELSE /\ out' = out \o bytes
          /\ UNCHANGED caller
          /\ IF opts.limit > 0 /\ count' > opts.limit THEN Close ELSE UNCHANGED up

\* The cache fills p: an early return.
ReadCache ==
  /\ caller = "reading" /\ Len(cache) >= Buffer
  /\ Returns(SubSeq(cache, 1, Buffer))
  /\ cache' = SubSeq(cache, Buffer + 1, Len(cache))
  /\ UNCHANGED <<opts, exists, file, agentVars, down, receiver, chunks>>

Waiting == caller = "reading" /\ Len(cache) < Buffer

\* A line that is too old: Read goes on to the next one.
ReadSkips ==
  /\ Waiting /\ chunks # <<>> /\ Delivery!Skipped(Head(chunks))
  /\ chunks' = Tail(chunks)
  /\ UNCHANGED <<opts, exists, file, agentVars, up, down, receiver, readerVars>>

Stale == <<1, 0>>     \* a byte that p held before

\* The line is copied to the start of p, over what came from the cache, but the
\* two lengths are added.
ReadLine ==
  /\ Waiting /\ chunks # <<>> /\ ~Delivery!Skipped(Head(chunks))
  /\ LET b == Delivery!Text(Head(chunks))
         n2 == Min({Buffer, Len(b)})
     IN /\ Returns([i \in 1..(Len(cache) + n2) |->
                     IF i <= n2 THEN b[i] ELSE IF i <= Len(cache) THEN cache[i] ELSE Stale])
        /\ cache' = SubSeq(b, n2 + 1, Len(b))
  /\ chunks' = Tail(chunks)
  /\ UNCHANGED <<opts, exists, file, agentVars, down, receiver>>

\* Mutant: Read looks at the stored error before it looks at the channel.
ReadEndsEarly ==
  /\ Waiting /\ receiver.at = "done"
  /\ out' = out \o cache /\ count' = count + Len(cache) /\ cache' = <<>>
  /\ caller' = "ended" /\ up' = "canceled"
  /\ UNCHANGED <<opts, exists, file, agentVars, down, receiver, chunks>>

\* The channel is closed and empty: the caller gets what the cache had, and the
\* error that ends the copying.
ReadEnds ==
  /\ Waiting /\ chunks = <<>> /\ receiver.at = "done"
  /\ IF Panics(cache) THEN caller' = "gone" /\ UNCHANGED out
     ELSE caller' = "ended" /\ out' = out \o cache
  /\ count' = count + Len(cache) /\ cache' = <<>> /\ up' = "canceled"
  /\ UNCHANGED <<opts, exists, file, agentVars, down, receiver, chunks>>

\* The user stops `kubectl logs`: the HTTP handler closes the reader and the
\* context of the request is cancelled.
Leave ==
  /\ caller = "reading" /\ caller' = "gone" /\ up' = "canceled"
  /\ UNCHANGED <<opts, exists, file, agentVars, down, receiver, chunks, cache, count, out>>

-----------------------------------------------------------------------------
TailF == TailTick \/ TailScan \/ TailFlush \/ TailAgain \/ TailEnds \/ TailCanceled

Logs == TakeLine \/ SendChunk \/ HandlerReturns

Receiver == ReceiverRecv \/ ReceiverQueues \/ ReceiverEnds

Read == ReadCache \/ ReadSkips \/ ReadLine \/ ReadEnds

Next == \/ CreateFile \/ WriteLine \/ Leave
        \/ TailF \/ HearsClose \/ Logs \/ Receiver \/ Read

Spec == Init /\ [][Next]_vars

\* Goroutines proceed, and a select that finds the same channel ready again and
\* again chooses it at last.  Nothing is asked of the job or the user.
FairSpec ==
  /\ Spec
  /\ WF_vars(TailF) /\ SF_vars(TailCanceled) /\ WF_vars(HearsClose)
  /\ WF_vars(Logs) /\ SF_vars(HandlerReturns)
  /\ WF_vars(Receiver) /\ WF_vars(Read)

-----------------------------------------------------------------------------
(* Properties *)

\* The caller receives lines of its container as they are in the file, none
\* left out in between: from the first one, unless it asked for the latest.
DeliversInOrder == Delivery!InOrder(out)

\* Both sides together implement LogDelivery: every step of theirs writes a
\* line, finds the end, delivers what comes next, ends or leaves, or changes
\* nothing of it.  So nothing is lost, repeated or reordered on the way, and
\* without a limit the end comes after the last line that was in the file when
\* the agent found its end: the notice that tailF is done overtakes no line.
ImplementsDelivery == Delivery!Spec

Delivered == {out[i][1] : i \in DOMAIN out}

\* Whoever follows receives every line.
Follows ==
  \A l \in 1..MaxLines :
    (opts.follow /\ opts.tail = 0 /\ l \in Delivery!Wanted) ~> (l \in Delivered \/ caller # "reading")

\* Reading without following ends once the job has an output file, and so does
\* a reader that has received more than its limit, although the agent would
\* follow the file.
Ends ==
  (exists /\ ~opts.follow) \/ (opts.limit > 0 /\ Len(out) > opts.limit) ~> caller # "reading"

\* When the caller goes away or has what it wanted, so does the agent's handler.
AgentStops == caller # "reading" ~> handler.at = "returned"
=============================================================================
