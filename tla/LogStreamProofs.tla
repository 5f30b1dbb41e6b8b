-------------------------- MODULE LogStreamProofs ---------------------------
(***************************************************************************)
(* The goroutines, channels and buffers of both sides implement            *)
(* LogDelivery, for any number of lines, of any capacity of the channels   *)
(* and for every request, as long as lines fit the buffer of Read.         *)
(***************************************************************************)
EXTENDS LogStream, SequenceTheorems, FiniteSetTheorems, TLAPS

\* The lines on the way from the file to Read, oldest first.
One(c) == IF c = 0 THEN <<>> ELSE <<c>>
InTail     == One(tail.hand) \o tail.ring
InAgent    == One(handler.chunk) \o InTail
InTunnel   == down \o InAgent
InReceiver == One(receiver.chunk) \o InTunnel
Pipe       == chunks \o InReceiver

\* The bytes that have left the channel.
Stream == out \o cache

Mine == {l \in 1..tail.pos : file[l].mine}
Kept == Delivery!LinesOf(Stream) \cup {Pipe[i] : i \in 1..Len(Pipe)}

\* Who holds a line is handing it on.
HoldsOK ==
  /\ tail.hand # 0 <=> tail.at = "sending"
  /\ handler.chunk # 0 <=> handler.at = "sending"
  /\ receiver.chunk # 0 <=> receiver.at = "queueing"

\* The ring is in use until the first end of the file, and nothing is sent before.
TailOK ==
  /\ tail.latest => opts.tail > 0
  /\ opts.tail > 0 /\ ~opts.follow => tail.latest
  /\ tail.at = "flushing" \/ tail.ring # <<>> => tail.latest
  /\ tail.at = "done" => ~opts.follow /\ tail.ring = <<>>
  /\ tail.latest /\ tail.at \in {"waiting", "scanning"} =>
       /\ handler.chunk = 0 /\ down = <<>> /\ receiver.chunk = 0 /\ chunks = <<>>
       /\ cache = <<>> /\ out = <<>>

\* Why things end while the caller reads: without a limit, the end of the file
\* stops the handler, the handler the receiver and the receiver the stream.
EndOK ==
  /\ up = "canceled" => caller # "reading"
  /\ caller = "reading" /\ opts.limit = 0 =>
       /\ up = "closed" => receiver.at = "done"
       /\ receiver.at = "done" => handler.at = "returned" /\ down = <<>>
       /\ handler.at = "returned" => tail.at = "done"
       /\ stop = "tailed" => tail.at = "done"
       /\ stop = "closed" => up # "open"

PipeOK ==
  /\ \A i \in 1..Len(Pipe) : Pipe[i] \in Mine
  /\ \A i, j \in 1..Len(Pipe) : i < j => Pipe[i] < Pipe[j]

\* What has left the channel are whole lines, before those that have not.
StreamOK ==
  /\ Delivery!InOrder(Stream)
  /\ \A i \in 1..Len(Stream) :
       /\ Stream[i][1] <= Stream[Len(Stream)][1] /\ Stream[i][1] <= tail.pos
       /\ \A j \in 1..Len(Pipe) : Stream[i][1] < Pipe[j]
  /\ Stream # <<>> => LET b == Stream[Len(Stream)] IN b[2] = file[b[1]].size

\* Nothing is left out, except before all that is kept.
NoGap == \A l \in Delivery!Wanted :
  l <= tail.pos => l \in Kept \/ (opts.tail > 0 /\ \A k \in Kept : l < k)

CountOK == ~opts.follow /\ opts.tail > 0 => Delivery!AreLatest(Kept, Mine, opts.tail)

FlowOK == PipeOK /\ StreamOK /\ NoGap /\ CountOK

\* Lines leave the cache in whole buffers.
CacheOK == \E k \in Nat : Len(cache) = k * Buffer

\* Lines of no more bytes than p has, or of a multiple of that.
LinesFit == \A l \in LineKind : l.size <= Buffer \/ \E k \in Nat : l.size = k * Buffer

-----------------------------------------------------------------------------
(* Sequences *)

\* The head of a queue goes into the next place.
LEMMA MoveHead ==
  ASSUME NEW S, NEW s \in Seq(S), NEW t \in Seq(S), s # <<>>
  PROVE  s \o t = <<Head(s)>> \o (Tail(s) \o t)
<1>1. Head(s) \in S /\ Tail(s) \in Seq(S) /\ <<Head(s)>> \in Seq(S)
  BY HeadTailProperties
<1>2. s = <<Head(s)>> \o Tail(s)
  OBVIOUS
<1>3. (<<Head(s)>> \o Tail(s)) \o t = <<Head(s)>> \o (Tail(s) \o t)
  BY <1>1, ConcatAssociative
<1>4. QED BY <1>2, <1>3

\* What a place holds goes to the end of the next queue.
LEMMA MoveLast ==
  ASSUME NEW S, NEW s \in Seq(S), NEW x \in S, NEW t \in Seq(S)
  PROVE  s \o (<<x>> \o t) = Append(s, x) \o t
<1>1. Append(s, x) = s \o <<x>> /\ <<x>> \in Seq(S)
  BY AppendIsConcat
<1>2. (s \o <<x>>) \o t = s \o (<<x>> \o t)
  BY <1>1, ConcatAssociative
<1>3. QED BY <1>1, <1>2

\* The first element is taken away.
LEMMA TakeFirst ==
  ASSUME NEW S, NEW s \in Seq(S), NEW t \in Seq(S), s # <<>>
  PROVE  s \o t # <<>> /\ Head(s \o t) = Head(s) /\ Tail(s \o t) = Tail(s) \o t
<1>1. s \o t \in Seq(S) /\ s \o t # <<>> /\ Head(s \o t) = Head(s)
  OBVIOUS
<1>2. Tail(s) \in Seq(S) /\ Tail(s) \o t \in Seq(S) /\ Tail(s \o t) \in Seq(S)
  BY <1>1, HeadTailProperties
<1>3. Len(Tail(s \o t)) = Len(Tail(s) \o t)
  BY <1>1, <1>2, LenProperties
<1>4. \A i \in 1..Len(Tail(s \o t)) : Tail(s \o t)[i] = (Tail(s) \o t)[i]
  BY <1>1, <1>2, LenProperties
<1>5. Tail(s \o t) = Tail(s) \o t
  BY <1>2, <1>3, <1>4, SeqEqual
<1>6. QED BY <1>1, <1>5

LEMMA OneIsSeq == ASSUME NEW c \in Line PROVE One(c) \in Seq(Line \ {0})
<1>1. CASE c = 0
  BY <1>1 DEF One
<1>2. CASE c # 0
  BY <1>2 DEF One
<1>3. QED BY <1>1, <1>2

\* A strictly increasing sequence has as many elements as places.
LEMMA IncreasingCard ==
  ASSUME NEW s \in Seq(Nat), \A i, j \in 1..Len(s) : i < j => s[i] < s[j]
  PROVE  LET S == {s[i] : i \in 1..Len(s)}
         IN  IsFiniteSet(S) /\ Cardinality(S) = Len(s)
<1> DEFINE S == {s[i] : i \in 1..Len(s)}
<1>1. Len(s) \in Nat /\ s \in [1..Len(s) -> S]
  OBVIOUS
<1>2. s \in Surjection(1..Len(s), S)
  BY <1>1 DEF Surjection
<1>3. s \in Injection(1..Len(s), S)
  <2>1. ASSUME NEW i \in 1..Len(s), NEW j \in 1..Len(s), s[i] = s[j]
        PROVE  i = j
    <3>1. i < j \/ j < i \/ i = j
      BY <1>1
    <3>2. s[i] \in Nat /\ s[j] \in Nat
      OBVIOUS
    <3>3. QED BY <2>1, <3>1, <3>2
  <2>2. QED BY <1>1, <2>1 DEF Injection, IsInjective
<1>4. IsFiniteSet(1..Len(s)) /\ Cardinality(1..Len(s)) = Len(s)
  <2>1. 1 \in Int /\ Len(s) \in Int /\ (IF 1 > Len(s) THEN 0 ELSE Len(s) - 1 + 1) = Len(s)
    BY <1>1
  <2>2. QED BY <2>1, FS_Interval
<1>5. QED BY <1>2, <1>3, <1>4, FS_Surjection

-----------------------------------------------------------------------------
(* Types *)

LEMMA Constants ==
  /\ MaxLines \in Nat /\ Window \in Nat \ {0} /\ Capacity \in Nat \ {0} /\ Buffer \in Nat \ {0}
  /\ \A o \in Option : o.follow \in BOOLEAN /\ o.since \in BOOLEAN /\ o.tail \in Nat /\ o.limit \in Nat
  /\ \A l \in LineKind : l.mine \in BOOLEAN /\ l.old \in BOOLEAN /\ l.size \in Nat \ {0}
  BY LogAssumption

LEMMA InitTyped == Init => TypeOK /\ HoldsOK
<1> SUFFICES ASSUME Init PROVE TypeOK /\ HoldsOK
  OBVIOUS
<1>1. opts \in Option /\ opts.tail \in Nat /\ 0 \in Line
  BY Constants DEF Init, Line
<1>2. /\ tail \in TailState /\ tail.pos <= Len(file) /\ Len(tail.ring) <= opts.tail
      /\ handler \in HandlerState /\ receiver \in ReceiverState
  BY <1>1 DEF Init, TailState, HandlerState, ReceiverState
<1>3. HoldsOK
  BY DEF Init, HoldsOK
<1>4. /\ \A S : <<>> \in Seq(S)
      /\ Len(file) = 0 /\ Len(down) = 0 /\ Len(chunks) = 0
  BY DEF Init
<1>5. TypeOK
  <2>1. /\ file \in Seq(LineKind) /\ Len(file) <= MaxLines
        /\ down \in Seq(Line \ {0}) /\ Len(down) <= Window
        /\ chunks \in Seq(Line \ {0}) /\ Len(chunks) <= Capacity
        /\ cache \in Seq(Byte) /\ out \in Seq(Byte)
    BY <1>4, Constants DEF Init
  <2>2. /\ exists \in BOOLEAN /\ count \in Nat /\ stop \in {"empty", "tailed", "closed"}
        /\ up \in {"open", "closed", "canceled"} /\ caller \in {"reading", "ended", "gone"}
    BY DEF Init
  <2>3. QED BY <1>1, <1>2, <2>1, <2>2 DEF TypeOK
<1>6. QED BY <1>3, <1>5

LEMMA JobTyped ==
  ASSUME TypeOK, HoldsOK, CreateFile \/ WriteLine \/ Leave
  PROVE  TypeOK' /\ HoldsOK'
<1>1. HoldsOK'
  BY DEF CreateFile, WriteLine, Leave, HoldsOK, agentVars, readerVars
<1>2. CASE CreateFile
  BY <1>1, <1>2 DEF CreateFile, TypeOK, agentVars, readerVars
<1>3. CASE Leave
  BY <1>1, <1>3 DEF Leave, TypeOK, agentVars
<1>4. CASE WriteLine
  <2>1. PICK l \in LineKind : file' = Append(file, l)
    BY <1>4 DEF WriteLine
  <2>2. file' \in Seq(LineKind) /\ Len(file') <= MaxLines /\ tail.pos <= Len(file')
    BY <1>4, <2>1, Constants DEF WriteLine, TypeOK, TailState
  <2>3. QED BY <1>1, <1>4, <2>2 DEF WriteLine, TypeOK, agentVars, readerVars
<1>5. QED BY <1>1, <1>2, <1>3, <1>4

\* What the ring keeps is of the lines it had and the new one.
LEMMA LatestTyped ==
  ASSUME NEW s \in Seq(Line \ {0}), NEW n \in Nat
  PROVE  Latest(s, n) \in Seq(Line \ {0}) /\ Len(Latest(s, n)) <= n
<1>1. Len(s) \in Nat
  OBVIOUS
<1> DEFINE k == IF n < Len(s) THEN n ELSE Len(s)
<1>2. k \in Nat /\ k <= Len(s) /\ k <= n
  BY <1>1
<1> HIDE DEF k
<1>3. \A i \in (Len(s) - k + 1)..Len(s) : s[i] \in Line \ {0}
  BY <1>1, <1>2
<1>4. /\ SubSeq(s, Len(s) - k + 1, Len(s)) \in Seq(Line \ {0})
      /\ Len(SubSeq(s, Len(s) - k + 1, Len(s))) =
           IF Len(s) - k + 1 <= Len(s) THEN Len(s) - (Len(s) - k + 1) + 1 ELSE 0
  <2>1. Len(s) - k + 1 \in Int /\ Len(s) \in Int
    BY <1>1, <1>2
  <2>2. QED BY <1>3, <2>1, SubSeqProperties
<1>5. Latest(s, n) = SubSeq(s, Len(s) - k + 1, Len(s))
  BY DEF Latest, k
<1>6. QED BY <1>1, <1>2, <1>4, <1>5

LEMMA TailTyped ==
  ASSUME TypeOK, HoldsOK, TailTick \/ TailScan \/ TailFlush \/ TailAgain
  PROVE  TypeOK' /\ HoldsOK'
<1>1. TailOnly
  BY DEF TailTick, TailScan, TailFlush, TailAgain
<1>2. /\ tail \in TailState /\ tail.pos <= Len(file) /\ Len(tail.ring) <= opts.tail
      /\ Len(file) \in Nat /\ Len(file) <= MaxLines /\ opts.tail \in Nat
      /\ tail.hand # 0 <=> tail.at = "sending"
  BY Constants DEF TypeOK, HoldsOK
<1> SUFFICES /\ tail' \in TailState /\ tail'.pos <= Len(file) /\ Len(tail'.ring) <= opts.tail
             /\ tail'.hand # 0 <=> tail'.at = "sending"
  BY <1>1 DEF TailOnly, TypeOK, HoldsOK, readerVars
<1>3. CASE TailTick \/ TailAgain
  BY <1>2, <1>3 DEF TailTick, TailAgain, TailFinished, TailState
<1>4. CASE TailScan
  <2> DEFINE l == tail.pos + 1
  <2>1. /\ l \in Nat /\ l <= Len(file) /\ l \in Line \ {0}
        /\ tail.at = "scanning" /\ tail.hand = 0
    BY <1>2, <1>4, Constants DEF TailScan, TailState, Line
  <2>2. tail.ring \in Seq(Line \ {0}) /\ Append(tail.ring, l) \in Seq(Line \ {0})
    BY <1>2, <2>1 DEF TailState
  <2> DEFINE r == Latest(Append(tail.ring, l), opts.tail)
  <2>3. r \in Seq(Line \ {0}) /\ Len(r) <= opts.tail
    BY <1>2, <2>2, LatestTyped
  <2>4. \/ tail' = [tail EXCEPT !.pos = l]
        \/ tail' = [tail EXCEPT !.pos = l, !.ring = r]
        \/ tail' = [tail EXCEPT !.pos = l, !.hand = l, !.at = "sending"]
    BY <1>4 DEF TailScan
  <2> HIDE DEF l, r
  <2>5. CASE tail' = [tail EXCEPT !.pos = l]
    BY <1>2, <2>1, <2>5 DEF TailState
  <2>6. CASE tail' = [tail EXCEPT !.pos = l, !.ring = r]
    BY <1>2, <2>1, <2>3, <2>6 DEF TailState
  <2>7. CASE tail' = [tail EXCEPT !.pos = l, !.hand = l, !.at = "sending"]
    BY <1>2, <2>1, <2>7 DEF TailState, Line
  <2>8. QED BY <2>4, <2>5, <2>6, <2>7
<1>5. CASE TailFlush
  <2>1. tail.ring \in Seq(Line \ {0}) /\ tail.ring # <<>>
    BY <1>2, <1>5 DEF TailFlush, TailState
  <2>2. /\ Head(tail.ring) \in Line \ {0} /\ Tail(tail.ring) \in Seq(Line \ {0})
        /\ Len(Tail(tail.ring)) = Len(tail.ring) - 1
        /\ Len(tail.ring) \in Nat
    BY <2>1, HeadTailProperties
  <2>3. tail' = [tail EXCEPT !.at = "sending", !.hand = Head(tail.ring), !.ring = Tail(tail.ring)]
    BY <1>5 DEF TailFlush
  <2> DEFINE h == Head(tail.ring)
             r == Tail(tail.ring)
  <2>4. h \in Line \ {0} /\ r \in Seq(Line \ {0}) /\ Len(r) <= opts.tail
    BY <1>2, <2>2
  <2> HIDE DEF h, r
  <2>5. tail' = [tail EXCEPT !.at = "sending", !.hand = h, !.ring = r]
    BY <2>3 DEF h, r
  <2>6. QED BY <1>2, <2>4, <2>5 DEF TailState
<1>6. QED BY <1>3, <1>4, <1>5

LEMMA StopTyped ==
  ASSUME TypeOK, HoldsOK, TailEnds \/ TailCanceled \/ HearsClose
  PROVE  TypeOK' /\ HoldsOK'
<1>1. stop' \in {"empty", "tailed", "closed"}
  BY DEF TailEnds, TailCanceled, HearsClose, Stops, TypeOK
<1>2. UNCHANGED <<opts, exists, file, handler, up, down, receiver, chunks, readerVars>>
  BY DEF TailEnds, TailCanceled, HearsClose
<1>3. /\ tail' \in TailState /\ tail'.pos = tail.pos /\ tail'.ring = tail.ring
      /\ tail'.hand = tail.hand /\ (tail'.at = "sending" <=> tail.at = "sending")
  <2>1. CASE TailEnds \/ TailCanceled
    <3>1. PICK to \in {"done", "canceled"} : tail' = [tail EXCEPT !.at = to]
      BY <2>1 DEF TailEnds, TailCanceled
    <3>2. tail.at # "sending"
      BY <2>1 DEF TailEnds, TailFinished, TailCanceled
    <3>3. QED BY <3>1, <3>2 DEF TypeOK, TailState
  <2>2. CASE HearsClose
    BY <2>2 DEF HearsClose, TypeOK
  <2>3. QED BY <2>1, <2>2
<1>4. QED BY <1>1, <1>2, <1>3 DEF TypeOK, HoldsOK, readerVars

LEMMA TakeLineTyped ==
  ASSUME TypeOK, HoldsOK, TakeLine
  PROVE  TypeOK' /\ HoldsOK'
<1>1. /\ tail.hand \in Line /\ tail.hand # 0 /\ 0 \in Line
      /\ handler' = [at |-> "sending", chunk |-> tail.hand]
  BY Constants DEF TakeLine, TypeOK, HoldsOK, TailState, Line
<1>2. PICK to \in {"flushing", "scanning"} : tail' = [tail EXCEPT !.hand = 0, !.at = to]
  BY DEF TakeLine
<1>3. handler' \in HandlerState /\ (handler'.chunk # 0 <=> handler'.at = "sending")
  BY <1>1 DEF HandlerState
<1>4. /\ tail' \in TailState /\ tail'.pos = tail.pos /\ tail'.ring = tail.ring
      /\ (tail'.hand # 0 <=> tail'.at = "sending")
  BY <1>1, <1>2 DEF TypeOK, TailState
<1>5. QED BY <1>3, <1>4 DEF TakeLine, TypeOK, HoldsOK, readerVars

LEMMA SendChunkTyped ==
  ASSUME TypeOK, HoldsOK, SendChunk
  PROVE  TypeOK' /\ HoldsOK'
<1>1. handler.chunk \in Line \ {0} /\ 0 \in Line
  BY Constants DEF SendChunk, TypeOK, HoldsOK, HandlerState, Line
<1>2. down' \in Seq(Line \ {0}) /\ Len(down') <= Window
  BY <1>1, Constants DEF SendChunk, TypeOK
<1>3. handler' \in HandlerState /\ (handler'.chunk # 0 <=> handler'.at = "sending")
  BY <1>1 DEF SendChunk, HandlerState
<1>4. QED BY <1>2, <1>3 DEF SendChunk, TypeOK, HoldsOK, readerVars

LEMMA HandlerReturnsTyped ==
  ASSUME TypeOK, HoldsOK, HandlerReturns
  PROVE  TypeOK' /\ HoldsOK'
<1>1. handler' \in HandlerState /\ (handler'.chunk # 0 <=> handler'.at = "sending")
  BY Constants DEF HandlerReturns, HandlerState, Line
<1>2. QED BY <1>1 DEF HandlerReturns, TypeOK, HoldsOK, readerVars

LEMMA ReceiverTyped ==
  ASSUME TypeOK, HoldsOK, Receiver
  PROVE  TypeOK' /\ HoldsOK'
<1>1. CASE ReceiverRecv
  <2>1. Head(down) \in Line \ {0} /\ Tail(down) \in Seq(Line \ {0}) /\ Len(Tail(down)) <= Window
    <3>1. down \in Seq(Line \ {0}) /\ down # <<>> /\ Len(down) \in Nat /\ Len(down) <= Window
      BY <1>1 DEF ReceiverRecv, TypeOK
    <3>2. QED BY <3>1, HeadTailProperties, Constants
  <2>2. receiver' \in ReceiverState /\ (receiver'.chunk # 0 <=> receiver'.at = "queueing")
    BY <1>1, <2>1 DEF ReceiverRecv, ReceiverState
  <2>3. QED BY <1>1, <2>1, <2>2 DEF ReceiverRecv, TypeOK, HoldsOK, agentVars, readerVars
<1>2. CASE ReceiverQueues
  <2>1. receiver.chunk \in Line \ {0} /\ 0 \in Line
    BY <1>2, Constants DEF ReceiverQueues, TypeOK, HoldsOK, ReceiverState, Line
  <2>2. chunks' \in Seq(Line \ {0}) /\ Len(chunks') <= Capacity
    BY <1>2, <2>1, Constants DEF ReceiverQueues, TypeOK
  <2>3. receiver' \in ReceiverState /\ (receiver'.chunk # 0 <=> receiver'.at = "queueing")
    BY <1>2, <2>1 DEF ReceiverQueues, ReceiverState
  <2>4. QED BY <1>2, <2>2, <2>3 DEF ReceiverQueues, TypeOK, HoldsOK, agentVars, readerVars
<1>3. CASE ReceiverEnds
  <2>1. receiver' \in ReceiverState /\ (receiver'.chunk # 0 <=> receiver'.at = "queueing")
    BY <1>3, Constants DEF ReceiverEnds, ReceiverState, Line
  <2>2. up' \in {"open", "closed", "canceled"}
    BY <1>3 DEF ReceiverEnds, Close, TypeOK
  <2>3. QED BY <1>3, <2>1, <2>2 DEF ReceiverEnds, TypeOK, HoldsOK, agentVars, readerVars
<1>4. QED BY <1>1, <1>2, <1>3 DEF Receiver

\* Either the caller gets the bytes or it has gone.
LEMMA ReturnsEffect ==
  ASSUME TypeOK, NEW bytes \in Seq(Byte), Returns(bytes)
  PROVE  /\ count' \in Nat /\ out' \in Seq(Byte)
         /\ \/ caller' = "gone" /\ up' = "canceled" /\ out' = out
            \/ /\ caller' = caller /\ out' = out \o bytes
               /\ up' = up \/ (opts.limit > 0 /\ up = "open" /\ up' = "closed")
<1>1. Len(bytes) \in Nat /\ count' \in Nat /\ out \o bytes \in Seq(Byte)
  BY DEF Returns, TypeOK
<1>2. CASE Panics(bytes)
  BY <1>1, <1>2 DEF Returns, TypeOK
<1>3. CASE ~Panics(bytes)
  <2>1. caller' = caller /\ out' = out \o bytes
    BY <1>3 DEF Returns
  <2>2. up' = up \/ (opts.limit > 0 /\ up = "open" /\ up' = "closed")
    BY <1>3 DEF Returns, Close
  <2>3. QED BY <1>1, <2>1, <2>2
<1>4. QED BY <1>2, <1>3


\* All lines under way come from before the place where tailF is.
Held    == {tail.hand, handler.chunk, receiver.chunk} \cup
             Range(tail.ring) \cup Range(down) \cup Range(chunks)
BoundOK == Held \subseteq 0..tail.pos

LEMMA QueueRanges ==
  ASSUME NEW s \in Seq(Nat), NEW x \in Nat
  PROVE  /\ Range(Append(s, x)) = Range(s) \cup {x}
         /\ s # <<>> => Head(s) \in Range(s) /\ Range(Tail(s)) \subseteq Range(s)
<1>1. Range(Append(s, x)) = Range(s) \cup {x}
  <2>1. /\ Append(s, x) \in Seq(Nat) /\ Len(Append(s, x)) = Len(s) + 1 /\ Len(s) \in Nat
        /\ \A i \in 1..Len(s) : Append(s, x)[i] = s[i]
        /\ Append(s, x)[Len(s) + 1] = x
    BY AppendProperties
  <2>2. Range(s) = {s[i] : i \in 1..Len(s)}
    BY RangeEquality
  <2>3. Range(Append(s, x)) = {Append(s, x)[i] : i \in 1..(Len(s) + 1)}
    BY <2>1, RangeEquality
  <2>4. QED BY <2>1, <2>2, <2>3
<1>2. ASSUME s # <<>>
      PROVE  Head(s) \in Range(s) /\ Range(Tail(s)) \subseteq Range(s)
  <2>1. /\ Tail(s) \in Seq(Nat) /\ Len(Tail(s)) = Len(s) - 1 /\ Len(s) \in Nat \ {0}
        /\ \A i \in 1..Len(Tail(s)) : Tail(s)[i] = s[i + 1]
        /\ Head(s) = s[1]
    BY <1>2, HeadTailProperties
  <2>2. Range(s) = {s[i] : i \in 1..Len(s)} /\ Range(Tail(s)) = {Tail(s)[i] : i \in 1..Len(Tail(s))}
    BY <2>1, RangeEquality
  <2>3. QED BY <2>1, <2>2
<1>3. QED BY <1>1, <1>2

LEMMA LatestRange ==
  ASSUME NEW s \in Seq(Nat), NEW n \in Nat
  PROVE  Range(Latest(s, n)) \subseteq Range(s)
<1> DEFINE k == IF n < Len(s) THEN n ELSE Len(s)
<1>1. Len(s) \in Nat /\ k \in Nat /\ k <= Len(s)
  OBVIOUS
<1>2. Latest(s, n) = SubSeq(s, Len(s) - k + 1, Len(s))
  BY DEF Latest
<1> HIDE DEF k
<1> DEFINE t == SubSeq(s, Len(s) - k + 1, Len(s))
<1>3. \A i \in (Len(s) - k + 1)..Len(s) : s[i] \in Nat
  BY <1>1
<1>4. Len(s) - k + 1 \in Int /\ Len(s) \in Int
  BY <1>1
<1>5. /\ t \in Seq(Nat) /\ Len(t) = IF Len(s) - k + 1 <= Len(s) THEN Len(s) - (Len(s) - k + 1) + 1 ELSE 0
      /\ \A i \in 1..(Len(s) - (Len(s) - k + 1) + 1) : t[i] = s[(Len(s) - k + 1) + i - 1]
  BY <1>3, <1>4, SubSeqProperties
<1> HIDE DEF t
<1>6. Len(t) = k /\ \A i \in 1..k : t[i] = s[Len(s) - k + i]
  BY <1>1, <1>5
<1>7. Range(s) = {s[i] : i \in 1..Len(s)} /\ Range(t) = {t[i] : i \in 1..Len(t)}
  BY <1>5, RangeEquality
<1>8. ASSUME NEW i \in 1..k
      PROVE  t[i] \in Range(s)
  <2>1. Len(s) - k + i \in 1..Len(s) /\ t[i] = s[Len(s) - k + i]
    BY <1>1, <1>6
  <2>2. QED BY <1>7, <2>1
<1>9. Range(t) \subseteq Range(s)
  BY <1>6, <1>7, <1>8
<1>10. QED BY <1>2, <1>9 DEF t

LEMMA HeldTypes ==
  ASSUME TypeOK
  PROVE  /\ tail.ring \in Seq(Nat) /\ down \in Seq(Nat) /\ chunks \in Seq(Nat)
         /\ tail.hand \in Nat /\ handler.chunk \in Nat /\ receiver.chunk \in Nat
         /\ tail.pos \in Nat /\ Len(file) \in Nat /\ opts.tail \in Nat
<1>1. Line \subseteq Nat /\ Line \ {0} \subseteq Nat
  BY Constants DEF Line
<1>2. /\ tail.ring \in Seq(Line \ {0}) /\ down \in Seq(Line \ {0}) /\ chunks \in Seq(Line \ {0})
      /\ tail.hand \in Line /\ handler.chunk \in Line /\ receiver.chunk \in Line
      /\ tail.pos \in Nat
  BY DEF TypeOK, TailState, HandlerState, ReceiverState
<1>3. tail.ring \in Seq(Nat) /\ down \in Seq(Nat) /\ chunks \in Seq(Nat)
  BY <1>1, <1>2, SeqMonotonic
<1>4. Len(file) \in Nat /\ opts.tail \in Nat
  BY Constants DEF TypeOK
<1>5. QED BY <1>1, <1>2, <1>3, <1>4

LEMMA InitBound == Init => BoundOK
<1> SUFFICES ASSUME Init PROVE BoundOK
  OBVIOUS
<1>1. Range(<<>>) = {}
  BY DEF Range
<1>2. QED BY <1>1 DEF Init, BoundOK, Held

LEMMA JobBound ==
  ASSUME TypeOK, BoundOK, CreateFile \/ WriteLine \/ Leave
  PROVE  BoundOK'
  BY DEF CreateFile, WriteLine, Leave, BoundOK, Held, agentVars

LEMMA TailBound ==
  ASSUME TypeOK, BoundOK, TailF
  PROVE  BoundOK'
<1>1. UNCHANGED <<handler, receiver, down, chunks>>
  BY DEF TailF, TailTick, TailScan, TailFlush, TailAgain, TailEnds, TailCanceled, TailOnly
<1>2. /\ tail'.pos \in Nat /\ tail.pos \in Nat /\ tail.pos <= tail'.pos
      /\ tail'.hand \in {0, tail.hand} \cup Range(tail.ring) \cup 0..tail'.pos
      /\ Range(tail'.ring) \subseteq Range(tail.ring) \cup 0..tail'.pos
  <2>1. tail \in TailState /\ tail.ring \in Seq(Nat) /\ tail.pos \in Nat /\ opts.tail \in Nat
    BY HeldTypes DEF TypeOK
  <2>2. CASE TailTick \/ TailAgain \/ TailEnds \/ TailCanceled
    <3>1. tail'.pos = tail.pos /\ tail'.hand = tail.hand /\ tail'.ring = tail.ring
      BY <2>1, <2>2 DEF TailTick, TailAgain, TailEnds, TailCanceled, TailState
    <3>2. QED BY <2>1, <3>1
  <2>3. CASE TailFlush
    <3>1. /\ tail.ring # <<>> /\ tail'.pos = tail.pos
          /\ tail'.hand = Head(tail.ring) /\ tail'.ring = Tail(tail.ring)
      BY <2>1, <2>3 DEF TailFlush, TailState
    <3>2. Head(tail.ring) \in Range(tail.ring) /\ Range(Tail(tail.ring)) \subseteq Range(tail.ring)
      BY <2>1, <3>1, QueueRanges
    <3>3. QED BY <2>1, <3>1, <3>2
  <2>4. CASE TailScan
    <3> DEFINE l == tail.pos + 1
    <3>1. /\ tail'.pos = l
          /\ \/ tail'.hand = tail.hand /\ tail'.ring = tail.ring
             \/ tail'.hand = tail.hand /\ tail'.ring = Latest(Append(tail.ring, l), opts.tail)
             \/ tail'.hand = l /\ tail'.ring = tail.ring
      BY <2>1, <2>4 DEF TailScan, TailState
    <3>2. l \in Nat /\ l \in 0..l /\ Append(tail.ring, l) \in Seq(Nat)
      BY <2>1
    <3>3. Range(Latest(Append(tail.ring, l), opts.tail)) \subseteq Range(tail.ring) \cup {l}
      <4>1. Range(Latest(Append(tail.ring, l), opts.tail)) \subseteq Range(Append(tail.ring, l))
        BY <2>1, <3>2, LatestRange
      <4>2. Range(Append(tail.ring, l)) = Range(tail.ring) \cup {l}
        BY <2>1, <3>2, QueueRanges
      <4>3. QED BY <4>1, <4>2
    <3>4. QED BY <2>1, <3>1, <3>2, <3>3
  <2>5. QED BY <2>2, <2>3, <2>4 DEF TailF
<1>3. QED BY <1>1, <1>2 DEF BoundOK, Held

LEMMA PassBound ==
  ASSUME TypeOK, HoldsOK, BoundOK, HearsClose \/ Logs \/ Receiver
  PROVE  BoundOK'
<1>1. /\ down \in Seq(Nat) /\ chunks \in Seq(Nat) /\ tail \in TailState
      /\ handler.chunk \in Nat /\ receiver.chunk \in Nat /\ tail.pos \in Nat
  BY HeldTypes DEF TypeOK
<1>2. tail'.pos = tail.pos /\ tail'.ring = tail.ring
  BY <1>1 DEF HearsClose, Logs, TakeLine, SendChunk, HandlerReturns, Receiver,
              ReceiverRecv, ReceiverQueues, ReceiverEnds, agentVars, TailState
<1>3. Held' \subseteq Held \cup {0}
  <2>1. CASE HearsClose
    BY <2>1 DEF HearsClose, Held
  <2>2. CASE TakeLine
    BY <1>1, <1>2, <2>2 DEF TakeLine, Held, TailState
  <2>3. CASE SendChunk
    <3>1. Range(down') = Range(down) \cup {handler.chunk}
      BY <1>1, <2>3, QueueRanges DEF SendChunk
    <3>2. QED BY <2>3, <3>1 DEF SendChunk, Held
  <2>4. CASE HandlerReturns \/ ReceiverEnds
    BY <2>4 DEF HandlerReturns, ReceiverEnds, Held, agentVars
  <2>5. CASE ReceiverRecv
    <3>1. Head(down) \in Range(down) /\ Range(Tail(down)) \subseteq Range(down)
      BY <1>1, <2>5, QueueRanges DEF ReceiverRecv
    <3>2. QED BY <2>5, <3>1 DEF ReceiverRecv, Held, agentVars
  <2>6. CASE ReceiverQueues
    <3>1. Range(chunks') = Range(chunks) \cup {receiver.chunk}
      BY <1>1, <2>6, QueueRanges DEF ReceiverQueues
    <3>2. QED BY <2>6, <3>1 DEF ReceiverQueues, Held, agentVars
  <2>7. QED BY <2>1, <2>2, <2>3, <2>4, <2>5, <2>6 DEF Logs, Receiver
<1>4. QED BY <1>1, <1>2, <1>3 DEF BoundOK

LEMMA ReadBound ==
  ASSUME TypeOK, BoundOK, Read
  PROVE  BoundOK'
<1>1. UNCHANGED agentVars /\ UNCHANGED <<down, receiver>>
      /\ (chunks' = chunks \/ (chunks # <<>> /\ chunks' = Tail(chunks)))
  BY DEF Read, ReadCache, ReadSkips, ReadLine, ReadEnds
<1>2. Range(chunks') \subseteq Range(chunks)
  BY <1>1, HeldTypes, QueueRanges
<1>3. QED BY <1>1, <1>2 DEF BoundOK, Held, agentVars

LEMMA HeadChunk ==
  ASSUME TypeOK, BoundOK, chunks # <<>>
  PROVE  /\ Head(chunks) \in 1..Len(file) /\ Head(chunks) <= tail.pos
         /\ Tail(chunks) \in Seq(Line \ {0}) /\ Len(Tail(chunks)) <= Capacity
<1>1. chunks \in Seq(Line \ {0}) /\ Len(chunks) \in Nat /\ Len(chunks) <= Capacity
  BY DEF TypeOK
<1>2. /\ Head(chunks) \in Line \ {0} /\ Tail(chunks) \in Seq(Line \ {0})
      /\ Len(Tail(chunks)) <= Capacity
  BY <1>1, HeadTailProperties, Constants
<1>3. Head(chunks) \in Range(chunks)
  BY HeldTypes, QueueRanges
<1>4. Head(chunks) <= tail.pos
  BY <1>2, <1>3 DEF BoundOK, Held
<1>5. QED BY <1>2, <1>4, HeldTypes DEF TypeOK, Line

\* A line as bytes.
LEMMA TextBytes ==
  ASSUME TypeOK, NEW l \in 1..Len(file)
  PROVE  /\ Delivery!Text(l) \in Seq(Byte) /\ file[l] \in LineKind
         /\ Len(Delivery!Text(l)) = file[l].size /\ file[l].size \in Nat \ {0}
         /\ \A i \in 1..file[l].size : Delivery!Text(l)[i] = <<l, i>>
<1>1. file[l] \in LineKind /\ l \in 1..MaxLines
  BY Constants DEF TypeOK
<1>2. file[l].size \in Nat \ {0}
  BY <1>1, Constants
<1>3. \A i \in 1..file[l].size : <<l, i>> \in Byte
  BY <1>1, <1>2 DEF Byte
<1>4. QED BY <1>1, <1>2, <1>3 DEF Delivery!Text

LEMMA LesserOfTwo ==
  ASSUME NEW m \in Nat, NEW n \in Nat
  PROVE  Min({m, n}) = IF m <= n THEN m ELSE n
<1> DEFINE x == IF m <= n THEN m ELSE n
<1>1. x \in {m, n} /\ \A y \in {m, n} : x <= y
  OBVIOUS
<1>2. \A z \in {m, n} : (\A y \in {m, n} : z <= y) => z = x
  OBVIOUS
<1> HIDE DEF x
<1>3. Min({m, n}) \in {m, n} /\ \A y \in {m, n} : Min({m, n}) <= y
  BY <1>1 DEF Min
<1>4. QED BY <1>2, <1>3 DEF x

\* What ReadLine hands over, and what it leaves in the cache.
Copied(l) == IF Buffer <= file[l].size THEN Buffer ELSE file[l].size
Given(l)  ==
  [i \in 1..(Len(cache) + Copied(l)) |->
     IF i <= Copied(l) THEN Delivery!Text(l)[i] ELSE IF i <= Len(cache) THEN cache[i] ELSE Stale]
Left(l)   == SubSeq(Delivery!Text(l), Copied(l) + 1, file[l].size)

LEMMA ReadLineEffect ==
  ASSUME TypeOK, BoundOK, ReadLine
  PROVE  LET l == Head(chunks)
         IN  /\ l \in 1..Len(file) /\ l <= tail.pos /\ ~Delivery!Skipped(l)
             /\ Copied(l) \in Nat /\ Copied(l) <= file[l].size /\ Copied(l) <= Buffer
             /\ Given(l) \in Seq(Byte) /\ Left(l) \in Seq(Byte)
             /\ Returns(Given(l)) /\ cache' = Left(l)
<1> DEFINE l == Head(chunks)
<1>1. /\ l \in 1..Len(file) /\ l <= tail.pos
      /\ Delivery!Text(l) \in Seq(Byte) /\ Len(Delivery!Text(l)) = file[l].size
      /\ file[l].size \in Nat \ {0}
  BY HeadChunk, TextBytes DEF ReadLine
<1>2. /\ Copied(l) \in Nat /\ Copied(l) <= file[l].size /\ Copied(l) <= Buffer
      /\ Min({Buffer, Len(Delivery!Text(l))}) = Copied(l)
  BY <1>1, Constants, LesserOfTwo DEF Copied
<1>3. Returns(Given(l)) /\ cache' = Left(l) /\ ~Delivery!Skipped(l)
  BY <1>1, <1>2 DEF ReadLine, Given, Left
<1> HIDE DEF l
<1>4. Left(l) \in Seq(Byte)
  <2>1. \A i \in (Copied(l) + 1)..file[l].size : Delivery!Text(l)[i] \in Byte
    BY <1>1, <1>2
  <2>2. Copied(l) + 1 \in Int /\ file[l].size \in Int
    BY <1>1, <1>2
  <2>3. QED BY <2>1, <2>2, SubSeqProperties DEF Left
<1>5. Given(l) \in Seq(Byte)
  <2>1. cache \in Seq(Byte) /\ Len(cache) \in Nat
    BY DEF TypeOK
  <2>2. Stale \in Byte
    <3>1. MaxLines \in Nat \ {0}
      BY <1>1, Constants DEF TypeOK
    <3>2. QED BY <3>1 DEF Stale, Byte
  <2>3. \A i \in 1..(Len(cache) + Copied(l)) :
          (IF i <= Copied(l) THEN Delivery!Text(l)[i] ELSE IF i <= Len(cache) THEN cache[i] ELSE Stale) \in Byte
    BY <1>1, <1>2, <2>1, <2>2
  <2>4. QED BY <1>2, <2>1, <2>3 DEF Given
<1>6. QED BY <1>1, <1>2, <1>3, <1>4, <1>5 DEF l

LEMMA ReadTyped ==
  ASSUME TypeOK, HoldsOK, BoundOK, Read
  PROVE  TypeOK' /\ HoldsOK'
<1>1. HoldsOK'
  BY DEF Read, ReadCache, ReadSkips, ReadLine, ReadEnds, HoldsOK, agentVars
<1>2. UNCHANGED <<opts, exists, file, agentVars, down, receiver>>
  BY DEF Read, ReadCache, ReadSkips, ReadLine, ReadEnds
<1>3. chunks' \in Seq(Line \ {0}) /\ Len(chunks') <= Capacity
  BY HeadChunk DEF Read, ReadCache, ReadSkips, ReadLine, ReadEnds, TypeOK
<1>4. /\ cache' \in Seq(Byte) /\ count' \in Nat /\ out' \in Seq(Byte)
      /\ caller' \in {"reading", "ended", "gone"} /\ up' \in {"open", "closed", "canceled"}
  <2>1. cache \in Seq(Byte) /\ Len(cache) \in Nat /\ Buffer \in Nat
    BY Constants DEF TypeOK
  <2>2. CASE ReadCache
    <3>1. \A i \in 1..Len(cache) : cache[i] \in Byte
      BY <2>1
    <3>2. SubSeq(cache, 1, Buffer) \in Seq(Byte) /\ SubSeq(cache, Buffer + 1, Len(cache)) \in Seq(Byte)
      BY <2>1, <2>2, <3>1, SubSeqProperties DEF ReadCache
    <3>3. QED BY <2>2, <3>2, ReturnsEffect DEF ReadCache, TypeOK
  <2>3. CASE ReadSkips
    BY <2>3 DEF ReadSkips, TypeOK, readerVars
  <2>4. CASE ReadLine
    BY <2>4, ReadLineEffect, ReturnsEffect DEF TypeOK
  <2>5. CASE ReadEnds
    <3>1. count' = count + Len(cache) /\ cache' = <<>> /\ up' = "canceled"
      BY <2>5 DEF ReadEnds
    <3>2. \/ caller' = "gone" /\ out' = out
          \/ caller' = "ended" /\ out' = out \o cache
      BY <2>5 DEF ReadEnds
    <3>3. out \in Seq(Byte) /\ out \o cache \in Seq(Byte) /\ count + Len(cache) \in Nat
      BY <2>1 DEF TypeOK
    <3>4. cache' \in Seq(Byte) /\ count' \in Nat
      BY <3>1, <3>3
    <3>5. out' \in Seq(Byte) /\ caller' \in {"reading", "ended", "gone"}
      BY <3>2, <3>3
    <3>6. QED BY <3>1, <3>4, <3>5
  <2>6. QED BY <2>2, <2>3, <2>4, <2>5 DEF Read
<1>5. QED BY <1>1, <1>2, <1>3, <1>4 DEF TypeOK, agentVars

BaseOK == TypeOK /\ HoldsOK /\ BoundOK

LEMMA BaseStep == BaseOK /\ [Next]_vars => BaseOK'
<1> SUFFICES ASSUME BaseOK, [Next]_vars PROVE BaseOK'
  OBVIOUS
<1> USE DEF BaseOK
<1>1. CASE CreateFile \/ WriteLine \/ Leave
  BY <1>1, JobTyped, JobBound
<1>2. CASE TailF
  BY <1>2, TailTyped, StopTyped, TailBound DEF TailF
<1>3. CASE HearsClose \/ Logs \/ Receiver
  BY <1>3, StopTyped, TakeLineTyped, SendChunkTyped, HandlerReturnsTyped, ReceiverTyped, PassBound
     DEF Logs
<1>4. CASE Read
  BY <1>4, ReadTyped, ReadBound
<1>5. CASE UNCHANGED vars
  BY <1>5 DEF vars, agentVars, readerVars, TypeOK, HoldsOK, BoundOK, Held
<1>6. QED BY <1>1, <1>2, <1>3, <1>4, <1>5 DEF Next

\* Every queue, buffer and place of both sides keeps to its type and size,
\* whatever the lines and requests are.
THEOREM LogTypes == Spec => []TypeOK
<1>1. Init => BaseOK
  BY InitTyped, InitBound DEF BaseOK
<1>2. BaseOK => TypeOK
  BY DEF BaseOK
<1>3. QED BY <1>1, <1>2, BaseStep, PTL DEF Spec

-----------------------------------------------------------------------------
(* The phases of tailF, and why things end *)

LEMMA TailPhases ==
  ASSUME BaseOK, TailOK, [Next]_vars
  PROVE  TailOK'
<1> DEFINE Early == tail.latest /\ tail.at \in {"waiting", "scanning"}
<1>1. tail \in TailState /\ opts.tail \in Nat
  BY HeldTypes DEF BaseOK, TypeOK
<1>2. CASE CreateFile \/ WriteLine \/ Leave \/ HearsClose \/ HandlerReturns \/ ReceiverEnds
  BY <1>2 DEF CreateFile, WriteLine, Leave, HearsClose, HandlerReturns, ReceiverEnds, TailOK,
              agentVars, readerVars
<1>3. CASE TailF
  <2>1. UNCHANGED <<opts, handler, receiver, down, chunks, cache, out>>
    BY <1>3 DEF TailF, TailTick, TailScan, TailFlush, TailAgain, TailEnds, TailCanceled, TailOnly, readerVars
  <2>2. CASE TailTick \/ TailEnds \/ TailCanceled
    BY <1>1, <2>1, <2>2 DEF TailTick, TailEnds, TailCanceled, TailFinished, TailOK, TailState
  <2>3. CASE TailScan
    BY <1>1, <2>1, <2>3 DEF TailScan, TailOK, TailState
  <2>4. CASE TailFlush
    <3>1. /\ tail.ring # <<>> /\ tail'.at = "sending" /\ tail'.latest = tail.latest
      BY <1>1, <2>4 DEF TailFlush, TailState
    <3>2. QED BY <2>1, <3>1 DEF TailOK
  <2>5. CASE TailAgain
    <3>1. /\ tail.ring = <<>> /\ tail'.ring = <<>> /\ tail'.at = "waiting" /\ ~tail'.latest
          /\ opts.follow
      BY <1>1, <2>5 DEF TailAgain, TailFinished, TailState
    <3>2. QED BY <2>1, <3>1 DEF TailOK
  <2>6. QED BY <1>3, <2>2, <2>3, <2>4, <2>5 DEF TailF
<1>4. CASE TakeLine
  <2>1. /\ tail'.latest = tail.latest /\ tail'.ring = tail.ring
        /\ tail'.at = IF tail.latest THEN "flushing" ELSE "scanning"
    BY <1>1, <1>4 DEF TakeLine, TailState
  <2>2. QED BY <1>4, <2>1 DEF TakeLine, TailOK, readerVars
<1>5. CASE SendChunk \/ ReceiverRecv \/ ReceiverQueues \/ Read
  <2>1. UNCHANGED <<opts, tail>>
    BY <1>5 DEF SendChunk, ReceiverRecv, ReceiverQueues, Read, ReadCache, ReadSkips, ReadLine,
                ReadEnds, agentVars
  <2>2. ASSUME Early
        PROVE  handler'.chunk = 0 /\ UNCHANGED <<down, receiver, chunks, cache, out>>
    <3>1. /\ handler.chunk = 0 /\ down = <<>> /\ receiver.chunk = 0 /\ chunks = <<>>
          /\ cache = <<>> /\ out = <<>>
      BY <2>2 DEF TailOK
    <3>2. ~SendChunk /\ ~ReceiverRecv /\ ~ReceiverQueues
      BY <3>1 DEF SendChunk, ReceiverRecv, ReceiverQueues, BaseOK, HoldsOK
    <3>3. ~ReadCache /\ ~ReadSkips /\ ~ReadLine
      BY <3>1, Constants DEF ReadCache, ReadSkips, ReadLine
    <3>4. ReadEnds
      BY <1>5, <3>2, <3>3 DEF Read
    <3>5. out' = out \/ out' = out \o cache
      BY <3>4 DEF ReadEnds
    <3>6. QED BY <3>1, <3>4, <3>5 DEF ReadEnds, agentVars
  <2>3. QED BY <2>1, <2>2 DEF TailOK
<1>6. CASE UNCHANGED vars
  BY <1>6 DEF vars, agentVars, readerVars, TailOK
<1>7. QED BY <1>2, <1>3, <1>4, <1>5, <1>6 DEF Next, Logs, Receiver

LEMMA EndPhases ==
  ASSUME BaseOK, TailOK, EndOK, [Next]_vars
  PROVE  EndOK'
<1>1. tail \in TailState /\ opts.limit \in Nat
  BY Constants DEF BaseOK, TypeOK
<1>2. CASE CreateFile \/ WriteLine \/ Leave
  BY <1>2 DEF CreateFile, WriteLine, Leave, EndOK, agentVars, readerVars
<1>3. CASE TailTick \/ TailScan \/ TailFlush \/ TailAgain
  <2>1. TailOnly /\ tail.at # "done"
    BY <1>3 DEF TailTick, TailScan, TailFlush, TailAgain, TailFinished
  <2>2. QED BY <2>1 DEF TailOnly, EndOK, readerVars
<1>4. CASE TailEnds \/ TailCanceled \/ HearsClose
  <2>1. UNCHANGED <<opts, handler, up, down, receiver, caller>>
    BY <1>4 DEF TailEnds, TailCanceled, HearsClose, readerVars
  <2>2. CASE TailEnds
    <3>1. tail'.at = "done" /\ stop' \in {stop, "tailed"}
      BY <1>1, <2>2 DEF TailEnds, Stops, TailState
    <3>2. QED BY <2>1, <3>1 DEF EndOK
  <2>3. CASE TailCanceled
    BY <1>1, <2>1, <2>3 DEF TailCanceled, EndOK
  <2>4. CASE HearsClose
    BY <2>1, <2>4 DEF HearsClose, Stops, EndOK
  <2>5. QED BY <1>4, <2>2, <2>3, <2>4
<1>5. CASE TakeLine \/ SendChunk
  <2>1. handler.at # "returned" /\ UNCHANGED <<opts, up, stop, receiver, caller>>
        /\ handler'.at # "returned"
    BY <1>5 DEF TakeLine, SendChunk, readerVars
  <2>2. tail.at # "done" \/ tail' = tail
    BY <1>5 DEF TakeLine, SendChunk
  <2>3. QED BY <2>1, <2>2 DEF EndOK
<1>6. CASE HandlerReturns
  <2>1. handler'.at = "returned" /\ UNCHANGED <<opts, tail, stop, up, down, receiver, caller>>
    BY <1>6 DEF HandlerReturns, readerVars
  <2>2. ASSUME caller = "reading", opts.limit = 0
        PROVE  tail.at = "done"
    <3>1. handler.at = "selecting" /\ stop # "empty"
      BY <1>6, <2>2 DEF HandlerReturns, EndOK
    <3>2. stop \in {"tailed", "closed"} /\ up \in {"open", "closed"}
      BY <2>2, <3>1 DEF BaseOK, TypeOK, EndOK
    <3>3. QED BY <2>2, <3>1, <3>2 DEF EndOK
  <2>3. QED BY <2>1, <2>2 DEF EndOK
<1>7. CASE Receiver
  <2>1. UNCHANGED <<opts, tail, stop, handler, caller>>
    BY <1>7 DEF Receiver, ReceiverRecv, ReceiverQueues, ReceiverEnds, agentVars, readerVars
  <2>2. CASE ReceiverRecv \/ ReceiverQueues
    BY <2>1, <2>2 DEF ReceiverRecv, ReceiverQueues, EndOK
  <2>3. CASE ReceiverEnds
    <3>1. /\ receiver'.at = "done" /\ down' = down
          /\ up' = IF up = "open" THEN "closed" ELSE up
          /\ up = "canceled" \/ (down = <<>> /\ handler.at = "returned")
      BY <2>3 DEF ReceiverEnds, Close
    <3>2. QED BY <2>1, <3>1 DEF EndOK
  <2>4. QED BY <1>7, <2>2, <2>3 DEF Receiver
<1>8. CASE Read
  <2>1. caller = "reading" /\ UNCHANGED <<opts, tail, stop, handler, down, receiver>>
    BY <1>8 DEF Read, ReadCache, ReadSkips, ReadLine, ReadEnds, Waiting, agentVars
  <2>2. \/ caller' # "reading"
        \/ caller' = caller /\ (up' = up \/ (opts.limit > 0 /\ up' = "closed"))
    <3>1. CASE ReadCache \/ ReadLine
      <4>1. \E bytes : Returns(bytes)
        BY <3>1 DEF ReadCache, ReadLine
      <4>2. QED BY <4>1 DEF Returns, Close
    <3>2. CASE ReadSkips
      BY <3>2 DEF ReadSkips, readerVars
    <3>3. CASE ReadEnds
      BY <3>3 DEF ReadEnds
    <3>4. QED BY <1>8, <3>1, <3>2, <3>3 DEF Read
  <2>3. QED BY <1>1, <2>1, <2>2 DEF EndOK
<1>9. CASE UNCHANGED vars
  BY <1>9 DEF vars, agentVars, readerVars, EndOK
<1>10. QED BY <1>2, <1>3, <1>4, <1>5, <1>6, <1>7, <1>8, <1>9 DEF Next, TailF, Logs

-----------------------------------------------------------------------------
(* What is under way *)

LEMMA PipeType ==
  ASSUME BaseOK
  PROVE  /\ tail.ring \in Seq(Line \ {0}) /\ One(tail.hand) \in Seq(Line \ {0})
         /\ InTail \in Seq(Line \ {0}) /\ One(handler.chunk) \in Seq(Line \ {0})
         /\ InAgent \in Seq(Line \ {0}) /\ down \in Seq(Line \ {0})
         /\ InTunnel \in Seq(Line \ {0}) /\ One(receiver.chunk) \in Seq(Line \ {0})
         /\ InReceiver \in Seq(Line \ {0}) /\ chunks \in Seq(Line \ {0})
         /\ Pipe \in Seq(Line \ {0}) /\ Pipe \in Seq(Nat)
<1>1. /\ tail.ring \in Seq(Line \ {0}) /\ down \in Seq(Line \ {0}) /\ chunks \in Seq(Line \ {0})
      /\ tail.hand \in Line /\ handler.chunk \in Line /\ receiver.chunk \in Line
  BY DEF BaseOK, TypeOK, TailState, HandlerState, ReceiverState
<1>2. /\ One(tail.hand) \in Seq(Line \ {0}) /\ One(handler.chunk) \in Seq(Line \ {0})
      /\ One(receiver.chunk) \in Seq(Line \ {0})
  BY <1>1, OneIsSeq
<1>3. InTail \in Seq(Line \ {0})
  BY <1>1, <1>2, ConcatProperties DEF InTail
<1>4. InAgent \in Seq(Line \ {0})
  BY <1>2, <1>3, ConcatProperties DEF InAgent
<1>5. InTunnel \in Seq(Line \ {0})
  BY <1>1, <1>4, ConcatProperties DEF InTunnel
<1>6. InReceiver \in Seq(Line \ {0})
  BY <1>2, <1>5, ConcatProperties DEF InReceiver
<1>7. Pipe \in Seq(Line \ {0})
  BY <1>1, <1>6, ConcatProperties DEF Pipe
<1>8. Line \ {0} \subseteq Nat
  BY Constants DEF Line
<1>9. Pipe \in Seq(Nat)
  BY <1>7, <1>8, SeqMonotonic
<1>10. QED BY <1>1, <1>2, <1>3, <1>4, <1>5, <1>6, <1>7, <1>9

\* Handing lines on neither loses nor reorders them.
LEMMA Passing ==
  ASSUME BaseOK, HearsClose \/ Logs \/ Receiver, up = "canceled" => ~HandlerReturns
  PROVE  Pipe' = Pipe
<1>1. One(0) = <<>> /\ \A c \in Line \ {0} : One(c) = <<c>>
  BY DEF One
<1>2. \A t \in Seq(Line \ {0}) : <<>> \o t = t
  BY ConcatEmptySeq
<1>3. CASE HearsClose
  BY <1>3 DEF HearsClose, Pipe, InReceiver, InTunnel, InAgent, InTail
<1>4. CASE HandlerReturns
  <2>1. handler'.chunk = handler.chunk
    BY <1>4 DEF HandlerReturns, BaseOK, HoldsOK
  <2>2. QED BY <1>4, <2>1 DEF HandlerReturns, Pipe, InReceiver, InTunnel, InAgent, InTail
<1>5. CASE ReceiverEnds
  <2>1. receiver'.chunk = receiver.chunk
    BY <1>5 DEF ReceiverEnds, BaseOK, HoldsOK
  <2>2. QED BY <1>5, <2>1 DEF ReceiverEnds, Pipe, InReceiver, InTunnel, InAgent, InTail, agentVars
<1>6. CASE TakeLine
  <2>1. /\ handler.chunk = 0 /\ tail.hand \in Line \ {0} /\ handler'.chunk = tail.hand
        /\ tail'.hand = 0 /\ tail'.ring = tail.ring
    BY <1>6 DEF TakeLine, BaseOK, TypeOK, HoldsOK, TailState
  <2>2. InTail' = tail.ring /\ InTail = <<tail.hand>> \o tail.ring
    BY <1>1, <1>2, <2>1, PipeType DEF InTail
  <2>3. InAgent' = <<tail.hand>> \o tail.ring /\ InAgent = InTail
    BY <1>1, <1>2, <2>1, <2>2, PipeType DEF InAgent
  <2>4. QED BY <1>6, <2>2, <2>3 DEF TakeLine, Pipe, InReceiver, InTunnel
<1>7. CASE SendChunk
  <2>1. /\ handler.chunk \in Line \ {0} /\ handler'.chunk = 0 /\ down' = Append(down, handler.chunk)
        /\ InTail' = InTail
    BY <1>7 DEF SendChunk, BaseOK, TypeOK, HoldsOK, HandlerState, InTail
  <2>2. InAgent' = InTail /\ InAgent = <<handler.chunk>> \o InTail
    BY <1>1, <1>2, <2>1, PipeType DEF InAgent
  <2>3. down \o (<<handler.chunk>> \o InTail) = Append(down, handler.chunk) \o InTail
    <3>1. down \in Seq(Line \ {0}) /\ InTail \in Seq(Line \ {0}) /\ handler.chunk \in Line \ {0}
      BY <2>1, PipeType
    <3>2. QED BY ONLY <3>1, MoveLast
  <2>4. InTunnel' = InTunnel
    BY <2>1, <2>2, <2>3 DEF InTunnel
  <2>5. QED BY <1>7, <2>4 DEF SendChunk, Pipe, InReceiver
<1>8. CASE ReceiverRecv
  <2>1. /\ receiver.chunk = 0 /\ down # <<>> /\ receiver'.chunk = Head(down) /\ down' = Tail(down)
        /\ InAgent' = InAgent
    BY <1>8 DEF ReceiverRecv, BaseOK, HoldsOK, InAgent, InTail, agentVars
  <2>2. Head(down) \in Line \ {0}
    BY <2>1, PipeType
  <2>3. InReceiver = InTunnel /\ InReceiver' = <<Head(down)>> \o InTunnel'
    BY <1>1, <1>2, <2>1, <2>2, PipeType DEF InReceiver
  <2>4. InTunnel' = Tail(down) \o InAgent
    BY <2>1 DEF InTunnel
  <2>5. down \o InAgent = <<Head(down)>> \o (Tail(down) \o InAgent)
    BY <2>1, PipeType, MoveHead
  <2>6. InReceiver' = InReceiver
    BY <2>3, <2>4, <2>5 DEF InTunnel
  <2>7. QED BY <1>8, <2>6 DEF ReceiverRecv, Pipe
<1>9. CASE ReceiverQueues
  <2>1. /\ receiver.chunk \in Line \ {0} /\ receiver'.chunk = 0
        /\ chunks' = Append(chunks, receiver.chunk) /\ InTunnel' = InTunnel
    BY <1>9 DEF ReceiverQueues, BaseOK, TypeOK, HoldsOK, ReceiverState, InTunnel, InAgent, InTail, agentVars
  <2>2. InReceiver' = InTunnel /\ InReceiver = <<receiver.chunk>> \o InTunnel
    BY <1>1, <1>2, <2>1, PipeType DEF InReceiver
  <2>3. chunks \o (<<receiver.chunk>> \o InTunnel) = Append(chunks, receiver.chunk) \o InTunnel
    <3>1. chunks \in Seq(Line \ {0}) /\ InTunnel \in Seq(Line \ {0}) /\ receiver.chunk \in Line \ {0}
      BY <2>1, PipeType
    <3>2. QED BY ONLY <3>1, MoveLast
  <2>4. QED BY <2>1, <2>2, <2>3 DEF Pipe
<1>10. QED BY <1>3, <1>4, <1>5, <1>6, <1>7, <1>8, <1>9 DEF Logs, Receiver

\* What tailF does between two lines does not change what is under way.
LEMMA Flushing ==
  ASSUME BaseOK, TailTick \/ TailFlush \/ TailAgain \/ TailEnds \/ TailCanceled
  PROVE  Pipe' = Pipe /\ tail'.pos = tail.pos
<1>1. tail \in TailState
  BY DEF BaseOK, TypeOK
<1>2. UNCHANGED <<handler, receiver, down, chunks>>
  BY DEF TailTick, TailFlush, TailAgain, TailEnds, TailCanceled, TailOnly
<1>3. InTail' = InTail /\ tail'.pos = tail.pos
  <2>1. CASE TailTick \/ TailAgain \/ TailEnds \/ TailCanceled
    <3>1. tail'.hand = tail.hand /\ tail'.ring = tail.ring /\ tail'.pos = tail.pos
      BY <1>1, <2>1 DEF TailTick, TailAgain, TailEnds, TailCanceled, TailState
    <3>2. QED BY <3>1 DEF InTail
  <2>2. CASE TailFlush
    <3>1. /\ tail.ring # <<>> /\ tail.hand = 0 /\ tail'.pos = tail.pos
          /\ tail'.hand = Head(tail.ring) /\ tail'.ring = Tail(tail.ring)
      BY <1>1, <2>2 DEF TailFlush, TailState, BaseOK, HoldsOK
    <3>2. /\ tail.ring \in Seq(Line \ {0}) /\ Head(tail.ring) \in Line \ {0}
          /\ tail.ring = <<Head(tail.ring)>> \o Tail(tail.ring)
      BY <3>1, PipeType
    <3>3. One(tail.hand) = <<>> /\ One(tail'.hand) = <<Head(tail.ring)>>
      BY <3>1, <3>2 DEF One
    <3>4. <<>> \o tail.ring = tail.ring
      BY <3>2, ConcatEmptySeq
    <3>5. QED BY <3>1, <3>2, <3>3, <3>4 DEF InTail
  <2>3. QED BY <2>1, <2>2
<1>4. QED BY <1>2, <1>3 DEF Pipe, InReceiver, InTunnel, InAgent

\* A line of the container goes under way; while the ring is in use it is all there is.
LEMMA Scanning ==
  ASSUME BaseOK, TailOK, TailScan
  PROVE  LET l == tail.pos + 1
         IN  /\ l \in 1..Len(file) /\ tail'.pos = l
             /\ \/ ~file[l].mine /\ Pipe' = Pipe
                \/ /\ file[l].mine /\ opts.tail > 0
                   /\ Pipe \in Seq(Nat) /\ Len(Pipe) <= opts.tail /\ Stream = <<>>
                   /\ Pipe' = Latest(Append(Pipe, l), opts.tail)
                \/ /\ file[l].mine /\ ~(opts.tail > 0 /\ ~opts.follow)
                   /\ Pipe' = Append(Pipe, l)
<1> DEFINE l == tail.pos + 1
<1>1. /\ tail \in TailState /\ tail.pos \in Nat /\ Len(file) \in Nat /\ tail.at = "scanning"
      /\ tail.pos < Len(file) /\ tail.hand = 0 /\ Len(tail.ring) <= opts.tail
  BY HeldTypes DEF TailScan, BaseOK, TypeOK, HoldsOK
<1>2. l \in 1..Len(file) /\ tail'.pos = l /\ l \in Line \ {0}
  <2>1. l \in 1..Len(file) /\ tail'.pos = l
    BY <1>1 DEF TailScan, TailState
  <2>2. QED BY <2>1, Constants DEF Line, BaseOK, TypeOK
<1>3. UNCHANGED <<handler, receiver, down, chunks, cache, out>>
  BY DEF TailScan, TailOnly, readerVars
<1>4. One(0) = <<>> /\ One(l) = <<l>> /\ \A t \in Seq(Line \ {0}) : <<>> \o t = t /\ t \o <<>> = t
  <2>1. One(0) = <<>> /\ One(l) = <<l>>
    BY <1>2 DEF One
  <2>2. \A t \in Seq(Line \ {0}) : <<>> \o t = t /\ t \o <<>> = t
    BY ConcatEmptySeq
  <2>3. QED BY <2>1, <2>2
<1> HIDE DEF l
<1>5. CASE ~file[l].mine
  <2>1. tail' = [tail EXCEPT !.pos = l]
    BY <1>5 DEF TailScan, l
  <2>2. tail'.hand = tail.hand /\ tail'.ring = tail.ring
    BY <1>1, <2>1 DEF TailState
  <2>3. Pipe' = Pipe
    BY <1>3, <2>2 DEF Pipe, InReceiver, InTunnel, InAgent, InTail
  <2>4. QED BY <1>2, <1>5, <2>3 DEF l
<1>6. CASE file[l].mine /\ tail.latest
  <2>1. /\ handler.chunk = 0 /\ down = <<>> /\ receiver.chunk = 0 /\ chunks = <<>>
        /\ cache = <<>> /\ out = <<>> /\ opts.tail > 0
    BY <1>1, <1>6 DEF TailOK
  <2>2. /\ InTail = tail.ring /\ InAgent = tail.ring /\ InTunnel = tail.ring
        /\ InReceiver = tail.ring /\ Pipe = tail.ring
    <3>1. \A t \in Seq(Line \ {0}) : <<>> \o t = t
      BY <1>4
    <3>2. /\ tail.ring \in Seq(Line \ {0}) /\ One(tail.hand) = <<>>
          /\ One(handler.chunk) = <<>> /\ One(receiver.chunk) = <<>>
      BY <1>1, <1>4, <2>1, PipeType
    <3>3. InTail = tail.ring
      BY <3>1, <3>2 DEF InTail
    <3>4. InAgent = tail.ring
      BY <3>1, <3>2, <3>3 DEF InAgent
    <3>5. InTunnel = tail.ring
      BY <2>1, <3>1, <3>2, <3>4 DEF InTunnel
    <3>6. InReceiver = tail.ring
      BY <3>1, <3>2, <3>5 DEF InReceiver
    <3>7. QED BY <2>1, <3>1, <3>2, <3>3, <3>4, <3>5, <3>6 DEF Pipe
  <2>3. tail' = [tail EXCEPT !.pos = l, !.ring = Latest(Append(@, l), opts.tail)]
    BY <1>6 DEF TailScan, l
  <2>4. tail'.hand = 0 /\ tail'.ring = Latest(Append(tail.ring, l), opts.tail)
    BY <1>1, <2>3 DEF TailState
  <2>5. tail'.ring \in Seq(Line \ {0})
    <3>1. Append(tail.ring, l) \in Seq(Line \ {0}) /\ opts.tail \in Nat
      BY <1>2, PipeType, HeldTypes DEF BaseOK
    <3>2. QED BY <2>4, <3>1, LatestTyped
  <2>6. <<>> \o tail'.ring = tail'.ring
    BY <1>4, <2>5
  <2>7. Pipe' = tail'.ring
    <3>1. InTail' = tail'.ring
      BY <1>4, <2>4, <2>6 DEF InTail
    <3>2. InAgent' = tail'.ring
      BY <1>3, <1>4, <2>1, <2>6, <3>1 DEF InAgent
    <3>3. InTunnel' = tail'.ring
      BY <1>3, <2>1, <2>6, <3>2 DEF InTunnel
    <3>4. InReceiver' = tail'.ring
      BY <1>3, <1>4, <2>1, <2>6, <3>3 DEF InReceiver
    <3>5. QED BY <1>3, <2>1, <2>6, <3>4 DEF Pipe
  <2>8. Stream = <<>>
    BY <2>1 DEF Stream
  <2>9. QED BY <1>1, <1>2, <1>6, <2>1, <2>2, <2>4, <2>7, <2>8, PipeType DEF l
<1>7. CASE file[l].mine /\ ~tail.latest
  <2>1. tail' = [tail EXCEPT !.pos = l, !.hand = l, !.at = "sending"] /\ tail.ring = <<>>
    BY <1>7 DEF TailScan, TailOK, l
  <2>2. tail'.hand = l /\ tail'.ring = <<>>
    BY <1>1, <2>1 DEF TailState
  <2>3. InTail = <<>> /\ InTail' = <<l>>
    <3>1. <<l>> \in Seq(Line \ {0}) /\ <<>> \in Seq(Line \ {0})
      BY <1>2
    <3>2. QED BY <1>1, <1>4, <2>1, <2>2, <3>1 DEF InTail
  <2>4. InAgent' = InAgent \o <<l>>
    <3>1. InAgent = One(handler.chunk)
      BY <1>4, <2>3, PipeType DEF InAgent
    <3>2. QED BY <1>3, <2>3, <3>1 DEF InAgent
  <2>5. InTunnel' = InTunnel \o <<l>>
    <3>1. down \in Seq(Line \ {0}) /\ InAgent \in Seq(Line \ {0}) /\ <<l>> \in Seq(Line \ {0})
      BY <1>2, PipeType
    <3>2. down \o (InAgent \o <<l>>) = (down \o InAgent) \o <<l>>
      BY ONLY <3>1, ConcatAssociative
    <3>3. QED BY <1>3, <2>4, <3>2 DEF InTunnel
  <2>6. InReceiver' = InReceiver \o <<l>>
    <3>1. One(receiver.chunk) \in Seq(Line \ {0}) /\ InTunnel \in Seq(Line \ {0}) /\ <<l>> \in Seq(Line \ {0})
      BY <1>2, PipeType
    <3>2. One(receiver.chunk) \o (InTunnel \o <<l>>) = (One(receiver.chunk) \o InTunnel) \o <<l>>
      BY ONLY <3>1, ConcatAssociative
    <3>3. QED BY <1>3, <2>5, <3>2 DEF InReceiver
  <2>7. Pipe' = Pipe \o <<l>>
    <3>1. chunks \in Seq(Line \ {0}) /\ InReceiver \in Seq(Line \ {0}) /\ <<l>> \in Seq(Line \ {0})
      BY <1>2, PipeType
    <3>2. chunks \o (InReceiver \o <<l>>) = (chunks \o InReceiver) \o <<l>>
      BY ONLY <3>1, ConcatAssociative
    <3>3. QED BY <1>3, <2>6, <3>2 DEF Pipe
  <2>8. Pipe' = Append(Pipe, l)
    BY <1>2, <2>7, PipeType, AppendIsConcat
  <2>9. QED BY <1>2, <1>7, <2>8 DEF l, TailOK
<1>8. QED BY <1>5, <1>6, <1>7

LEMMA TakingHead ==
  ASSUME BaseOK, ReadSkips \/ ReadLine
  PROVE  /\ Pipe # <<>> /\ Head(Pipe) = Head(chunks) /\ Pipe' = Tail(Pipe)
         /\ UNCHANGED <<opts, file, tail>>
<1>1. /\ chunks # <<>> /\ chunks' = Tail(chunks)
      /\ UNCHANGED <<opts, file, tail, handler, down, receiver>>
  BY DEF ReadSkips, ReadLine, agentVars
<1>2. InReceiver' = InReceiver
  BY <1>1 DEF InReceiver, InTunnel, InAgent, InTail
<1>3. chunks \in Seq(Line \ {0}) /\ InReceiver \in Seq(Line \ {0})
  BY PipeType
<1>4. /\ chunks \o InReceiver # <<>> /\ Head(chunks \o InReceiver) = Head(chunks)
      /\ Tail(chunks \o InReceiver) = Tail(chunks) \o InReceiver
  BY ONLY <1>1, <1>3, TakeFirst
<1>5. QED BY <1>1, <1>2, <1>4 DEF Pipe

-----------------------------------------------------------------------------
(* What has left the channel *)

LEMMA StreamType ==
  ASSUME BaseOK
  PROVE  /\ out \in Seq(Byte) /\ cache \in Seq(Byte) /\ Stream \in Seq(Byte)
         /\ Len(out) \in Nat /\ Len(cache) \in Nat /\ Len(Stream) = Len(out) + Len(cache)
  BY DEF BaseOK, TypeOK, Stream

\* Bytes cut in two are still the same bytes.
LEMMA CutInTwo ==
  ASSUME NEW S, NEW s \in Seq(S), NEW t \in Seq(S), NEW n \in 0..Len(t)
  PROVE  (s \o SubSeq(t, 1, n)) \o SubSeq(t, n + 1, Len(t)) = s \o t
<1>1. Len(t) \in Nat /\ n \in Nat /\ \A i \in 1..Len(t) : t[i] \in S
  OBVIOUS
<1>2. SubSeq(t, 1, n) \in Seq(S)
  <2>1. \A i \in 1..n : t[i] \in S
    BY <1>1
  <2>2. QED BY <1>1, <2>1, SubSeqProperties
<1>3. SubSeq(t, n + 1, Len(t)) \in Seq(S)
  <2>1. \A i \in (n + 1)..Len(t) : t[i] \in S
    BY <1>1
  <2>2. n + 1 \in Int /\ Len(t) \in Int
    BY <1>1
  <2>3. QED BY <2>1, <2>2, SubSeqProperties
<1>4. SubSeq(t, 1, n) \o SubSeq(t, n + 1, Len(t)) = t
  <2>1. /\ 1 \in 1..(Len(t) + 1) /\ n \in (1 - 1)..Len(t) /\ Len(t) \in n..Len(t)
    BY <1>1
  <2>2. SubSeq(t, 1, n) \o SubSeq(t, n + 1, Len(t)) = SubSeq(t, 1, Len(t))
    BY <2>1, ConcatAdjacentSubSeq
  <2>3. QED BY <2>2, SubSeqFull
<1> DEFINE a == SubSeq(t, 1, n)
           b == SubSeq(t, n + 1, Len(t))
<1>5. a \in Seq(S) /\ b \in Seq(S)
  BY <1>2, <1>3
<1> HIDE DEF a, b
<1>6. (s \o a) \o b = s \o (a \o b)
  BY <1>5, ConcatAssociative
<1>7. QED BY <1>4, <1>6 DEF a, b

\* Whole buffers of the cache.
LEMMA Multiples ==
  ASSUME NEW k \in Nat
  PROVE  /\ k * Buffer < Buffer => k = 0
         /\ k * Buffer >= Buffer => k - 1 \in Nat /\ k * Buffer - Buffer = (k - 1) * Buffer
<1>1. Buffer \in Nat \ {0}
  BY Constants
<1>2. k = 0 \/ k >= 1
  OBVIOUS
<1>3. CASE k = 0
  BY <1>1, <1>3
<1>4. CASE k >= 1
  <2>1. k - 1 \in Nat /\ k = (k - 1) + 1
    BY <1>4
  <2>2. k * Buffer = (k - 1) * Buffer + Buffer
    BY <1>1, <2>1
  <2>3. (k - 1) * Buffer \in Nat
    BY <1>1, <2>1
  <2>4. QED BY <1>1, <1>4, <2>1, <2>2, <2>3
<1>5. QED BY <1>2, <1>3, <1>4

\* Read empties the cache before it takes a line.
LEMMA EmptyCache ==
  ASSUME BaseOK, CacheOK, Waiting
  PROVE  cache = <<>>
<1>1. PICK k \in Nat : Len(cache) = k * Buffer
  BY DEF CacheOK
<1>2. k = 0 /\ 0 * Buffer = 0
  BY <1>1, Multiples, Constants DEF Waiting
<1>3. QED BY <1>1, <1>2, StreamType

LEMMA CacheToCaller ==
  ASSUME BaseOK, CacheOK, ReadCache
  PROVE  /\ CacheOK'
         /\ caller' = "reading" => Stream' = Stream
<1> DEFINE a == SubSeq(cache, 1, Buffer)
           b == SubSeq(cache, Buffer + 1, Len(cache))
<1>1. /\ out \in Seq(Byte) /\ cache \in Seq(Byte) /\ Len(cache) \in Nat
      /\ Buffer \in Nat \ {0} /\ Buffer <= Len(cache) /\ Buffer \in 0..Len(cache)
  BY StreamType, Constants DEF ReadCache
<1>2. /\ a \in Seq(Byte) /\ b \in Seq(Byte) /\ Len(b) = Len(cache) - Buffer
  <2>1. \A i \in 1..Len(cache) : cache[i] \in Byte
    BY <1>1
  <2>2. a \in Seq(Byte)
    BY <1>1, <2>1, SubSeqProperties
  <2>3. /\ b \in Seq(Byte)
        /\ Len(b) = IF Buffer + 1 <= Len(cache) THEN Len(cache) - (Buffer + 1) + 1 ELSE 0
    <3>1. /\ \A i \in (Buffer + 1)..Len(cache) : cache[i] \in Byte
          /\ Buffer + 1 \in Int /\ Len(cache) \in Int
      BY <1>1, <2>1
    <3>2. QED BY <3>1, SubSeqProperties
  <2>4. QED BY <1>1, <2>2, <2>3
<1>3. (out \o a) \o b = out \o cache
  BY <1>1, CutInTwo
<1> HIDE DEF a, b
<1>4. Returns(a) /\ cache' = b /\ caller = "reading"
  BY DEF ReadCache, a, b
<1>5. CacheOK'
  <2>1. PICK k \in Nat : Len(cache) = k * Buffer
    BY DEF CacheOK
  <2>2. k - 1 \in Nat /\ Len(b) = (k - 1) * Buffer
    BY <1>1, <1>2, <2>1, Multiples
  <2>3. QED BY <1>4, <2>2 DEF CacheOK
<1>6. ASSUME caller' = "reading" PROVE Stream' = Stream
  <2>1. out' = out \o a
    BY <1>2, <1>4, <1>6, ReturnsEffect DEF BaseOK
  <2>2. QED BY <1>3, <1>4, <2>1 DEF Stream
<1>7. QED BY <1>5, <1>6

\* A line goes to the caller and the cache as it is.
LEMMA LineToCaller ==
  ASSUME LinesFit, BaseOK, CacheOK, ReadLine
  PROVE  /\ CacheOK'
         /\ caller' = "reading" => Stream' = Stream \o Delivery!Text(Head(chunks))
<1> DEFINE l == Head(chunks)
           t == Delivery!Text(l)
           n == Copied(l)
<1>1. /\ l \in 1..Len(file) /\ n \in Nat /\ n <= file[l].size /\ n <= Buffer
      /\ Given(l) \in Seq(Byte) /\ Returns(Given(l)) /\ cache' = Left(l)
  BY ReadLineEffect DEF BaseOK
<1>2. /\ t \in Seq(Byte) /\ file[l] \in LineKind /\ Len(t) = file[l].size
      /\ file[l].size \in Nat \ {0}
  BY <1>1, TextBytes DEF BaseOK
<1>3. cache = <<>> /\ caller = "reading" /\ out \in Seq(Byte) /\ Buffer \in Nat \ {0}
  BY EmptyCache, StreamType, Constants DEF ReadLine, Waiting
<1> HIDE DEF l
<1>4. Given(l) = SubSeq(t, 1, n)
  <2> HIDE DEF n, t
  <2>1. \A i \in 1..n : t[i] \in Byte
    BY <1>1, <1>2
  <2>2. /\ SubSeq(t, 1, n) \in Seq(Byte) /\ Len(SubSeq(t, 1, n)) = IF 1 <= n THEN n - 1 + 1 ELSE 0
        /\ \A i \in 1..(n - 1 + 1) : SubSeq(t, 1, n)[i] = t[1 + i - 1]
    BY <1>1, <2>1, SubSeqProperties
  <2>3. Len(SubSeq(t, 1, n)) = n /\ \A i \in 1..n : SubSeq(t, 1, n)[i] = t[i]
    BY <1>1, <2>2
  <2>4. Given(l) = [i \in 1..n |-> t[i]]
    BY <1>1, <1>3 DEF Given, n, t
  <2>5. Len(Given(l)) = n /\ \A i \in 1..n : Given(l)[i] = t[i]
    BY <1>1, <2>4
  <2>6. QED BY <1>1, <2>2, <2>3, <2>5, SeqEqual
<1>5. Left(l) = SubSeq(t, n + 1, Len(t))
  BY <1>2 DEF Left
<1>6. (out \o SubSeq(t, 1, n)) \o SubSeq(t, n + 1, Len(t)) = out \o t
  <2> HIDE DEF n, t
  <2>1. n \in 0..Len(t)
    BY <1>1, <1>2
  <2>2. QED BY <1>2, <1>3, <2>1, CutInTwo
<1>7. CacheOK'
  <2>1. Len(Left(l)) = file[l].size - n
    <3>1. \A i \in (n + 1)..Len(t) : t[i] \in Byte
      BY <1>1, <1>2
    <3>2. n + 1 \in Int /\ Len(t) \in Int
      BY <1>1, <1>2
    <3>3. Len(SubSeq(t, n + 1, Len(t))) = IF n + 1 <= Len(t) THEN Len(t) - (n + 1) + 1 ELSE 0
      BY <3>1, <3>2, SubSeqProperties
    <3>4. QED BY <1>1, <1>2, <1>5, <3>3
  <2>2. CASE file[l].size <= Buffer
    <3>1. Len(Left(l)) = 0 /\ 0 * Buffer = 0
      BY <1>2, <1>3, <2>1, <2>2 DEF Copied
    <3>2. QED BY <1>1, <3>1 DEF CacheOK
  <2>3. CASE file[l].size > Buffer
    <3>0. file[l].size <= Buffer \/ \E k \in Nat : file[l].size = k * Buffer
      BY <1>2, Zenon DEF LinesFit
    <3>1. PICK k \in Nat : file[l].size = k * Buffer
      BY <1>2, <1>3, <2>3, <3>0
    <3>2. k - 1 \in Nat /\ k * Buffer - Buffer = (k - 1) * Buffer
      BY <1>2, <1>3, <2>3, <3>1, Multiples
    <3>3. Len(Left(l)) = (k - 1) * Buffer
      BY <1>2, <1>3, <2>1, <2>3, <3>1, <3>2 DEF Copied
    <3>4. QED BY <1>1, <3>2, <3>3 DEF CacheOK
  <2>4. QED BY <1>2, <1>3, <2>2, <2>3
<1>8. ASSUME caller' = "reading" PROVE Stream' = Stream \o t
  <2>1. out' = out \o Given(l)
    BY <1>1, <1>8, ReturnsEffect DEF BaseOK
  <2>2. Stream = out
    <3>1. out \o <<>> = out
      BY <1>3, ConcatEmptySeq
    <3>2. QED BY <1>3, <3>1 DEF Stream
  <2>3. QED BY <1>1, <1>4, <1>5, <1>6, <2>1, <2>2 DEF Stream
<1>9. QED BY <1>7, <1>8 DEF l

-----------------------------------------------------------------------------
(* Nothing is lost, repeated or reordered *)

\* A number that is kept is in the stream or under way.
LEMMA KeptOf ==
  ASSUME BaseOK, PipeOK, StreamOK
  PROVE  \A k \in Kept :
           /\ k \in Nat /\ k <= tail.pos
           /\ \/ \E i \in 1..Len(Stream) : k = Stream[i][1]
              \/ \E i \in 1..Len(Pipe) : k = Pipe[i]
<1>1. /\ Pipe \in Seq(Nat) /\ Stream \in Seq(Byte) /\ tail.pos \in Nat
  BY PipeType, StreamType, HeldTypes DEF BaseOK
<1>2. /\ \A i \in 1..Len(Stream) : Stream[i][1] \in Nat /\ Stream[i][1] <= tail.pos
      /\ \A i \in 1..Len(Pipe) : Pipe[i] \in Nat /\ Pipe[i] <= tail.pos
  <2>1. \A i \in 1..Len(Stream) : Stream[i] \in Byte
    BY <1>1
  <2>2. \A b \in Byte : b[1] \in Nat
    BY Constants DEF Byte
  <2>3. \A i \in 1..Len(Stream) : Stream[i][1] <= tail.pos
    BY DEF StreamOK
  <2>4. \A i \in 1..Len(Pipe) : Pipe[i] \in Nat /\ Pipe[i] <= tail.pos
    BY <1>1 DEF PipeOK, Mine
  <2>5. QED BY <2>1, <2>2, <2>3, <2>4
<1>3. QED BY <1>2 DEF Kept, Delivery!LinesOf

LEMMA Steady ==
  ASSUME FlowOK, Pipe' = Pipe, Stream' = Stream, UNCHANGED <<opts, file>>, tail'.pos = tail.pos
  PROVE  FlowOK'
<1>1. Mine' = Mine /\ Kept' = Kept /\ (Delivery!Wanted)' = Delivery!Wanted
  BY DEF Mine, Kept, Delivery!LinesOf, Delivery!Wanted, Delivery!Skipped
<1>2. PipeOK'
  BY <1>1 DEF FlowOK, PipeOK
<1>3. Delivery!InOrder(Stream)'
  BY <1>1 DEF FlowOK, StreamOK, Delivery!InOrder, Delivery!Succeeds
<1>4. StreamOK'
  BY <1>3 DEF FlowOK, StreamOK
<1>5. NoGap' /\ CountOK'
  BY <1>1 DEF FlowOK, NoGap, CountOK, Delivery!AreLatest
<1>6. QED BY <1>2, <1>4, <1>5 DEF FlowOK

\* The lines that were there stay as they are, and the new one is the last.
LEMMA NewLine ==
  ASSUME BaseOK, WriteLine
  PROVE  /\ UNCHANGED <<opts, tail>> /\ Len(file) \in Nat /\ Len(file') = Len(file) + 1
         /\ \A i \in 1..Len(file) : file'[i] = file[i]
         /\ Delivery!Wanted \subseteq 1..Len(file) /\ Delivery!Wanted \subseteq (Delivery!Wanted)'
         /\ \A x \in (Delivery!Wanted)' : x \in Delivery!Wanted \/ x = Len(file) + 1
<1>1. PICK l \in LineKind : file' = Append(file, l)
  BY DEF WriteLine
<1>2. UNCHANGED <<opts, tail>>
  BY DEF WriteLine, agentVars
<1>3. file \in Seq(LineKind) /\ Len(file) \in Nat
  BY HeldTypes DEF BaseOK, TypeOK
<1>4. Len(file') = Len(file) + 1 /\ \A i \in 1..Len(file) : file'[i] = file[i]
  BY <1>1, <1>3, AppendProperties
<1>5. /\ Delivery!Wanted \subseteq 1..Len(file) /\ Delivery!Wanted \subseteq (Delivery!Wanted)'
      /\ \A x \in (Delivery!Wanted)' : x \in Delivery!Wanted \/ x = Len(file) + 1
  BY <1>2, <1>3, <1>4 DEF Delivery!Wanted, Delivery!Skipped
<1>6. QED BY <1>2, <1>3, <1>4, <1>5

\* So bytes that are in order stay in order.
LEMMA StillInOrder ==
  ASSUME BaseOK, WriteLine
  PROVE  \A bytes \in Seq(Byte) : Delivery!InOrder(bytes) =>
           Delivery!InOrder(bytes)' /\ \A i \in 1..Len(bytes) : bytes[i][1] \in 1..Len(file)
<1> SUFFICES ASSUME NEW bytes \in Seq(Byte), Delivery!InOrder(bytes)
             PROVE  Delivery!InOrder(bytes)' /\ \A i \in 1..Len(bytes) : bytes[i][1] \in 1..Len(file)
  OBVIOUS
<1> DEFINE n == Len(bytes)
<1>1. n \in Nat /\ Len(file) \in Nat
  BY NewLine
<1>2. \A i \in 1..n : bytes[i][1] \in 1..Len(file)
  BY NewLine DEF Delivery!InOrder
<1>3. \A i \in 1..n : file'[bytes[i][1]] = file[bytes[i][1]]
  BY <1>2, NewLine
<1>4. ASSUME NEW i \in 1..n
      PROVE  bytes[i][1] \in (Delivery!Wanted)' /\ bytes[i][2] \in 1..file'[bytes[i][1]].size
  BY <1>3, NewLine DEF Delivery!InOrder
<1>5. ASSUME NEW i \in 1..n, i > 1
      PROVE  Delivery!Succeeds(bytes[i], bytes[i - 1])'
  <2>1. i - 1 \in 1..n
    BY <1>1, <1>5
  <2>2. Delivery!Succeeds(bytes[i], bytes[i - 1])
    BY <1>5 DEF Delivery!InOrder
  <2>3. file'[bytes[i - 1][1]] = file[bytes[i - 1][1]] /\ bytes[i][1] <= Len(file) + 1
    BY <1>1, <1>2, <1>3, <2>1
  <2>4. \A x \in (Delivery!Wanted)' : x \in Delivery!Wanted \/ x >= bytes[i][1]
    BY <1>1, <1>2, <2>3, NewLine
  <2>5. QED BY <2>2, <2>3, <2>4 DEF Delivery!Succeeds
<1>6. bytes # <<>> =>
        bytes[1][2] = 1 /\ (opts.tail = 0 => \A x \in (Delivery!Wanted)' : bytes[1][1] <= x)
  <2>1. bytes # <<>> => 1 \in 1..n
    BY <1>1
  <2>2. QED BY <1>1, <1>2, <2>1, NewLine DEF Delivery!InOrder
<1>7. Delivery!InOrder(bytes)'
  BY <1>4, <1>5, <1>6, NewLine DEF Delivery!InOrder
<1>8. QED BY <1>2, <1>7

\* A new line comes after all that tailF has seen.
LEMMA Writing ==
  ASSUME BaseOK, FlowOK, WriteLine
  PROVE  FlowOK'
<1>1. /\ UNCHANGED <<opts, tail>> /\ Pipe' = Pipe /\ Stream' = Stream
  BY DEF WriteLine, Pipe, InReceiver, InTunnel, InAgent, InTail, Stream, agentVars, readerVars
<1>2. tail.pos \in Nat /\ tail.pos <= Len(file)
  BY HeldTypes DEF BaseOK, TypeOK
<1>3. Mine' = Mine /\ Kept' = Kept
  <2>1. \A i \in 1..tail.pos : file'[i] = file[i]
    BY <1>2, NewLine
  <2>2. Mine' = Mine
    BY <1>1, <2>1 DEF Mine
  <2>3. QED BY <1>1, <2>2 DEF Kept, Delivery!LinesOf
<1>4. PipeOK'
  BY <1>1, <1>3 DEF FlowOK, PipeOK
<1>5. StreamOK'
  <2> DEFINE n == Len(Stream)
  <2>1. Stream \in Seq(Byte) /\ n \in Nat /\ Delivery!InOrder(Stream)
    BY StreamType DEF FlowOK, StreamOK
  <2>2. Delivery!InOrder(Stream)' /\ \A i \in 1..n : Stream[i][1] \in 1..Len(file)
    BY <1>1, <2>1, StillInOrder
  <2>3. Stream # <<>> => LET b == Stream[n] IN b[2] = file'[b[1]].size
    <3>1. Stream # <<>> => n \in 1..n
      BY <2>1
    <3>2. QED BY <2>2, <3>1, NewLine DEF FlowOK, StreamOK
  <2>4. QED BY <1>1, <2>2, <2>3 DEF FlowOK, StreamOK
<1>6. NoGap' /\ CountOK'
  <2>1. \A x \in (Delivery!Wanted)' : x <= tail.pos => x \in Delivery!Wanted
    BY <1>2, NewLine
  <2>2. QED BY <1>1, <1>3, <2>1 DEF FlowOK, NoGap, CountOK, Delivery!AreLatest
<1>7. QED BY <1>4, <1>5, <1>6 DEF FlowOK

\* The rest of the pipe, after its head.
LEMMA RestOfPipe ==
  ASSUME BaseOK, PipeOK, Pipe # <<>>
  PROVE  /\ Len(Pipe) \in Nat \ {0} /\ Len(Tail(Pipe)) = Len(Pipe) - 1 /\ Pipe[1] = Head(Pipe)
         /\ \A i \in 1..Len(Tail(Pipe)) : Tail(Pipe)[i] = Pipe[i + 1] /\ i + 1 \in 1..Len(Pipe)
         /\ \A i \in 1..Len(Pipe) : Pipe[i] = Head(Pipe) \/ \E j \in 1..Len(Tail(Pipe)) : Pipe[i] = Tail(Pipe)[j]
         /\ \A i \in 1..Len(Pipe) : Head(Pipe) <= Pipe[i] /\ Pipe[i] \in Nat
         /\ \A i \in 1..Len(Tail(Pipe)) : Head(Pipe) < Tail(Pipe)[i]
         /\ Head(Pipe) \in Mine
<1>1. Pipe \in Seq(Nat)
  BY PipeType
<1>2. /\ Len(Pipe) \in Nat \ {0} /\ Len(Tail(Pipe)) = Len(Pipe) - 1
      /\ Head(Pipe) = Pipe[1] /\ 1 \in 1..Len(Pipe)
      /\ \A i \in 1..Len(Tail(Pipe)) : Tail(Pipe)[i] = Pipe[i + 1] /\ i + 1 \in 1..Len(Pipe)
  BY <1>1, HeadTailProperties
<1>3. \A i \in 1..Len(Pipe) : i = 1 \/ (i - 1 \in 1..Len(Tail(Pipe)) /\ i = (i - 1) + 1)
  BY <1>2
<1>4. \A i \in 1..Len(Pipe) : Pipe[i] \in Nat
  BY <1>1
<1>5. \A i \in 1..Len(Pipe) : i > 1 => Pipe[1] < Pipe[i]
  BY <1>2 DEF PipeOK
<1>6. \A i \in 1..Len(Pipe) : Head(Pipe) <= Pipe[i]
  BY <1>2, <1>4, <1>5
<1>7. \A i \in 1..Len(Tail(Pipe)) : i + 1 > 1
  BY <1>2
<1>8. \A i \in 1..Len(Tail(Pipe)) : Head(Pipe) < Tail(Pipe)[i]
  BY <1>2, <1>5, <1>7
<1>9. \A i \in 1..Len(Pipe) : Pipe[i] = Head(Pipe) \/ \E j \in 1..Len(Tail(Pipe)) : Pipe[i] = Tail(Pipe)[j]
  BY <1>2, <1>3
<1>10. Head(Pipe) \in Mine
  BY <1>2 DEF PipeOK
<1>11. QED BY <1>2, <1>4, <1>6, <1>8, <1>9, <1>10

\* A pipe without its head is in order as well.
LEMMA RestOK ==
  ASSUME BaseOK, PipeOK, Pipe # <<>>, Pipe' = Tail(Pipe), Mine' = Mine
  PROVE  PipeOK'
<1>1. Pipe \in Seq(Nat) /\ Len(Tail(Pipe)) \in Nat
  BY PipeType, RestOfPipe
<1>2. \A i, j \in 1..Len(Tail(Pipe)) : i < j => i + 1 < j + 1
  BY <1>1
<1>3. \A i \in 1..Len(Tail(Pipe)) : Tail(Pipe)[i] = Pipe[i + 1] /\ i + 1 \in 1..Len(Pipe)
  BY RestOfPipe
<1>4. \A i, j \in 1..Len(Tail(Pipe)) : i < j => Tail(Pipe)[i] < Tail(Pipe)[j]
  BY <1>2, <1>3 DEF PipeOK
<1>5. \A i \in 1..Len(Tail(Pipe)) : Tail(Pipe)[i] \in Mine
  BY <1>3 DEF PipeOK
<1>6. QED BY <1>4, <1>5 DEF PipeOK

\* A line that is too old is not wanted, so it may be dropped.
LEMMA Skipping ==
  ASSUME BaseOK, FlowOK, ReadSkips
  PROVE  FlowOK'
<1> DEFINE h == Head(Pipe)
<1>1. /\ Pipe # <<>> /\ Pipe' = Tail(Pipe) /\ UNCHANGED <<opts, file, tail, out, cache>>
      /\ Delivery!Skipped(h)
  BY TakingHead DEF ReadSkips, readerVars
<1>2. Stream' = Stream /\ Mine' = Mine /\ (Delivery!Wanted)' = Delivery!Wanted
  BY <1>1 DEF Stream, Mine, Delivery!Wanted, Delivery!Skipped
<1>3. h \notin Delivery!Wanted /\ opts.tail = 0 /\ ~(opts.tail > 0)
  BY <1>1 DEF Delivery!Wanted, Delivery!Skipped
<1>4. PipeOK'
  BY <1>1, <1>2, RestOK DEF FlowOK
<1>5. \A i \in 1..Len(Tail(Pipe)) : \E j \in 1..Len(Pipe) : Tail(Pipe)[i] = Pipe[j]
  BY <1>1, RestOfPipe DEF FlowOK
<1>6. StreamOK'
  <2>1. Delivery!InOrder(Stream)'
    BY <1>1, <1>2 DEF FlowOK, StreamOK, Delivery!InOrder, Delivery!Succeeds
  <2>2. \A i \in 1..Len(Stream), j \in 1..Len(Tail(Pipe)) : Stream[i][1] < Tail(Pipe)[j]
    BY <1>5 DEF FlowOK, StreamOK
  <2>3. QED BY <1>1, <1>2, <2>1, <2>2 DEF FlowOK, StreamOK
<1>7. \A k \in Kept : k \in Kept' \/ k = h
  BY <1>1, <1>2, RestOfPipe DEF FlowOK, Kept, Delivery!LinesOf
<1>8. NoGap'
  BY <1>1, <1>2, <1>3, <1>7 DEF FlowOK, NoGap
<1>9. CountOK'
  BY <1>1, <1>3 DEF CountOK
<1>10. QED BY <1>4, <1>6, <1>8, <1>9 DEF FlowOK

\* The next line is the one that the caller misses.
LEMMA NextIsWanted ==
  ASSUME BaseOK, FlowOK, Pipe # <<>>, ~Delivery!Skipped(Head(Pipe))
  PROVE  /\ Head(Pipe) \in Delivery!Wanted /\ Head(Pipe) <= tail.pos
         /\ Stream = <<>> /\ opts.tail = 0 => \A l \in Delivery!Wanted : Head(Pipe) <= l
         /\ Stream # <<>> => LET b == Stream[Len(Stream)]
                             IN  /\ b[2] = file[b[1]].size /\ b[1] < Head(Pipe)
                                 /\ \A l \in Delivery!Wanted : l <= b[1] \/ l >= Head(Pipe)
<1> DEFINE h == Head(Pipe)
           n == Len(Stream)
<1>1. /\ h \in Mine /\ tail.pos \in Nat /\ Len(file) \in Nat /\ tail.pos <= Len(file)
      /\ Delivery!Wanted \subseteq 1..Len(file) /\ n \in Nat
  BY RestOfPipe, HeldTypes, StreamType DEF FlowOK, BaseOK, TypeOK, Delivery!Wanted
<1>2. h \in Delivery!Wanted /\ h <= tail.pos /\ h \in Nat
  BY <1>1 DEF Mine, Delivery!Wanted
<1>3. /\ \A k \in Kept : k \in Nat /\ ((\E i \in 1..n : k = Stream[i][1]) \/ \E i \in 1..Len(Pipe) : k = Pipe[i])
      /\ \A i \in 1..Len(Pipe) : h <= Pipe[i]
  BY KeptOf, RestOfPipe DEF FlowOK
<1>4. ASSUME Stream = <<>>, opts.tail = 0, NEW l \in Delivery!Wanted
      PROVE  h <= l
  <2>1. CASE l <= tail.pos
    <3>1. l \in Kept
      BY <1>4, <2>1 DEF FlowOK, NoGap
    <3>2. QED BY <1>3, <1>4, <3>1
  <2>2. CASE ~(l <= tail.pos)
    BY <1>1, <1>2, <2>2
  <2>3. QED BY <2>1, <2>2
<1>5. ASSUME Stream # <<>>
      PROVE  LET b == Stream[n]
             IN  /\ b[2] = file[b[1]].size /\ b[1] < h
                 /\ \A l \in Delivery!Wanted : l <= b[1] \/ l >= h
  <2> DEFINE b == Stream[n]
  <2>1. n \in 1..n /\ 1 \in 1..Len(Pipe) /\ Pipe[1] = h
    BY <1>1, <1>5, StreamType, RestOfPipe DEF FlowOK
  <2>2. b[2] = file[b[1]].size /\ b[1] < h /\ \A i \in 1..n : Stream[i][1] <= b[1]
    BY <1>5, <2>1 DEF FlowOK, StreamOK
  <2>3. b[1] \in Kept /\ b[1] \in Nat
    BY <1>3, <2>1 DEF Kept, Delivery!LinesOf
  <2>4. ASSUME NEW l \in Delivery!Wanted, l <= tail.pos
        PROVE  l <= b[1] \/ l >= h
    <3>1. CASE l \in Kept
      BY <1>3, <2>2, <3>1
    <3>2. CASE l < b[1]
      BY <1>1, <2>3, <3>2
    <3>3. QED BY <2>3, <2>4, <3>1, <3>2 DEF FlowOK, NoGap
  <2>5. ASSUME NEW l \in Delivery!Wanted, ~(l <= tail.pos)
        PROVE  l >= h
    BY <1>1, <1>2, <2>5
  <2>6. QED BY <2>2, <2>4, <2>5
<1>6. QED BY <1>2, <1>4, <1>5

LEMMA ConcatAt ==
  ASSUME NEW S, NEW s \in Seq(S), NEW u \in Seq(S)
  PROVE  /\ s \o u \in Seq(S) /\ Len(s \o u) = Len(s) + Len(u)
         /\ \A i \in 1..Len(s) : (s \o u)[i] = s[i]
         /\ \A i \in 1..(Len(s) + Len(u)) :
              i > Len(s) => i - Len(s) \in 1..Len(u) /\ (s \o u)[i] = u[i - Len(s)]
<1>1. Len(s) \in Nat /\ Len(u) \in Nat
  OBVIOUS
<1>2. /\ s \o u \in Seq(S) /\ Len(s \o u) = Len(s) + Len(u)
      /\ \A i \in 1..(Len(s) + Len(u)) : (s \o u)[i] = IF i <= Len(s) THEN s[i] ELSE u[i - Len(s)]
  BY ConcatProperties
<1>3. ASSUME NEW i \in 1..Len(s) PROVE (s \o u)[i] = s[i]
  <2>1. i \in 1..(Len(s) + Len(u)) /\ i <= Len(s)
    BY <1>1
  <2>2. QED BY <1>2, <2>1
<1>4. ASSUME NEW i \in 1..(Len(s) + Len(u)), i > Len(s)
      PROVE  i - Len(s) \in 1..Len(u) /\ (s \o u)[i] = u[i - Len(s)]
  <2>1. i - Len(s) \in 1..Len(u) /\ ~(i <= Len(s))
    BY <1>1, <1>4
  <2>2. QED BY <1>2, <2>1
<1>5. QED BY <1>2, <1>3, <1>4

\* The bytes of a line follow those that have left the channel.
LEMMA LongerStream ==
  ASSUME BaseOK, FlowOK, Pipe # <<>>, ~Delivery!Skipped(Head(Pipe)), Head(Pipe) \in 1..Len(file)
  PROVE  LET h == Head(Pipe)
             t == Stream \o Delivery!Text(h)
         IN  /\ t \in Seq(Byte) /\ Delivery!InOrder(t)
             /\ Len(t) = Len(Stream) + file[h].size /\ file[h].size \in Nat \ {0}
             /\ \A i \in 1..Len(Stream) : t[i] = Stream[i]
             /\ \A i \in 1..Len(t) : i > Len(Stream) => t[i] = <<h, i - Len(Stream)>>
<1> DEFINE h == Head(Pipe)
           t == Stream \o Delivery!Text(h)
           n == Len(Stream)
           m == file[h].size
<1>1. /\ Stream \in Seq(Byte) /\ n \in Nat /\ Delivery!Text(h) \in Seq(Byte)
      /\ Len(Delivery!Text(h)) = m /\ m \in Nat \ {0}
      /\ \A i \in 1..m : Delivery!Text(h)[i] = <<h, i>>
  BY StreamType, TextBytes DEF BaseOK
<1>2. /\ t \in Seq(Byte) /\ Len(t) = n + m
      /\ \A i \in 1..n : t[i] = Stream[i]
      /\ \A i \in 1..(n + m) : i > n => t[i] = <<h, i - n>> /\ i - n \in 1..m
  <2>1. /\ t \in Seq(Byte) /\ Len(t) = n + Len(Delivery!Text(h))
        /\ \A i \in 1..n : t[i] = Stream[i]
        /\ \A i \in 1..(n + Len(Delivery!Text(h))) :
             i > n => i - n \in 1..Len(Delivery!Text(h)) /\ t[i] = Delivery!Text(h)[i - n]
    BY <1>1, ConcatAt
  <2> HIDE DEF h, t, m, n
  <2>2. QED BY <1>1, <2>1
<1>3. /\ h \in Delivery!Wanted
      /\ Stream = <<>> /\ opts.tail = 0 => \A l \in Delivery!Wanted : h <= l
      /\ Stream # <<>> =>
           /\ Stream[n][2] = file[Stream[n][1]].size /\ Stream[n][1] < h
           /\ \A l \in Delivery!Wanted : l <= Stream[n][1] \/ l >= h
  BY NextIsWanted
<1>4. Delivery!InOrder(Stream)
  BY DEF FlowOK, StreamOK
<1> HIDE DEF h, t
<1>5. ASSUME NEW i \in 1..(n + m)
      PROVE  t[i][1] \in Delivery!Wanted /\ t[i][2] \in 1..file[t[i][1]].size
  <2>1. CASE i <= n
    <3>1. i \in 1..n
      BY <1>1, <2>1
    <3>2. QED BY <1>2, <1>4, <3>1 DEF Delivery!InOrder
  <2>2. CASE i > n
    <3>1. t[i] = <<h, i - n>> /\ i - n \in 1..m
      BY <1>2, <2>2
    <3>2. QED BY <1>3, <3>1
  <2>3. QED BY <1>1, <2>1, <2>2
<1>6. ASSUME NEW i \in 1..(n + m), i > 1
      PROVE  Delivery!Succeeds(t[i], t[i - 1])
  <2>1. CASE i <= n
    <3>1. i \in 1..n /\ i - 1 \in 1..n
      BY <1>1, <1>6, <2>1
    <3>2. t[i] = Stream[i] /\ t[i - 1] = Stream[i - 1]
      BY <1>2, <3>1
    <3>3. QED BY <1>4, <1>6, <3>1, <3>2 DEF Delivery!InOrder
  <2>2. CASE i = n + 1
    <3>1. n \in 1..n /\ i - 1 = n /\ Stream # <<>> /\ i - n = 1 /\ i > n
      BY <1>1, <1>6, <2>2
    <3>2. t[i] = <<h, 1>> /\ t[i - 1] = Stream[n]
      BY <1>2, <3>1
    <3>3. QED BY <1>3, <3>1, <3>2 DEF Delivery!Succeeds
  <2>3. CASE i > n + 1
    <3>0. n \in Nat /\ m \in Nat /\ i \in Nat /\ i <= n + m
      BY <1>1
    <3>1. i > n /\ i - 1 > n /\ i - 1 \in 1..(n + m) /\ i - n = ((i - 1) - n) + 1
      BY <2>3, <3>0
    <3>2. t[i] = <<h, i - n>> /\ t[i - 1] = <<h, (i - 1) - n>>
      BY <1>2, <3>1
    <3>3. QED BY <3>1, <3>2 DEF Delivery!Succeeds
  <2>4. QED BY <1>1, <2>1, <2>2, <2>3
<1>7. t[1][2] = 1 /\ (opts.tail = 0 => \A l \in Delivery!Wanted : t[1][1] <= l)
  <2>1. CASE Stream = <<>>
    <3>1. 1 \in 1..(n + m) /\ 1 > n /\ 1 - n = 1
      BY <1>1, <2>1
    <3>2. t[1] = <<h, 1>>
      BY <1>2, <3>1
    <3>3. QED BY <1>3, <2>1, <3>2
  <2>2. CASE Stream # <<>>
    <3>1. 1 \in 1..n
      BY <1>1, <2>2
    <3>2. t[1] = Stream[1]
      BY <1>2, <3>1
    <3>3. QED BY <1>4, <2>2, <3>2 DEF Delivery!InOrder
  <2>3. QED BY <2>1, <2>2
<1>8. Delivery!InOrder(t)
  BY <1>2, <1>5, <1>6, <1>7 DEF Delivery!InOrder
<1>9. QED BY <1>1, <1>2, <1>8 DEF h, t

\* A line leaves the channel.
LEMMA Taking ==
  ASSUME BaseOK, FlowOK, ReadLine, Stream' = Stream \o Delivery!Text(Head(chunks))
  PROVE  FlowOK'
<1> DEFINE h == Head(Pipe)
           n == Len(Stream)
           m == file[h].size
<1>1. /\ Pipe # <<>> /\ h = Head(chunks) /\ Pipe' = Tail(Pipe) /\ UNCHANGED <<opts, file, tail>>
      /\ ~Delivery!Skipped(h) /\ h \in 1..Len(file)
  BY TakingHead, HeadChunk DEF ReadLine, BaseOK
<1>2. Mine' = Mine /\ (Delivery!Wanted)' = Delivery!Wanted
  BY <1>1 DEF Mine, Delivery!Wanted, Delivery!Skipped
<1>3. /\ Stream' \in Seq(Byte) /\ Delivery!InOrder(Stream') /\ n \in Nat
      /\ Len(Stream') = n + m /\ m \in Nat \ {0}
      /\ \A i \in 1..n : Stream'[i] = Stream[i]
      /\ \A i \in 1..Len(Stream') : i > n => Stream'[i] = <<h, i - n>>
  <2> DEFINE t == Stream \o Delivery!Text(h)
  <2>1. /\ t \in Seq(Byte) /\ Delivery!InOrder(t)
        /\ Len(t) = n + m /\ m \in Nat \ {0}
        /\ \A i \in 1..n : t[i] = Stream[i]
        /\ \A i \in 1..Len(t) : i > n => t[i] = <<h, i - n>>
    BY <1>1, LongerStream
  <2>2. Stream' = t /\ n \in Nat
    BY <1>1, StreamType
  <2> HIDE DEF t, h, m, n
  <2>3. QED BY <2>1, <2>2
<1>4. /\ h \in Delivery!Wanted /\ h <= tail.pos /\ h \in Nat
      /\ \A i \in 1..Len(Tail(Pipe)) : h < Tail(Pipe)[i] /\ \E j \in 1..Len(Pipe) : Tail(Pipe)[i] = Pipe[j]
      /\ \A i \in 1..Len(Pipe) : Pipe[i] = h \/ \E j \in 1..Len(Tail(Pipe)) : Pipe[i] = Tail(Pipe)[j]
      /\ 1 \in 1..Len(Pipe) /\ Pipe[1] = h
  BY <1>1, NextIsWanted, RestOfPipe DEF FlowOK
<1> HIDE DEF h
<1>5. PipeOK'
  BY <1>1, <1>2, RestOK DEF FlowOK
<1>6. /\ n + m \in 1..Len(Stream') /\ Stream'[Len(Stream')] = <<h, m>>
      /\ \A i \in 1..Len(Stream') : i \in 1..n \/ Stream'[i] = <<h, i - n>>
      /\ \A i \in 1..n : i \in 1..Len(Stream')
  <2>1. n + m \in 1..Len(Stream') /\ n + m > n /\ (n + m) - n = m
    BY <1>3
  <2>2. Stream'[n + m] = <<h, m>>
    BY <1>3, <2>1
  <2>3. \A i \in 1..Len(Stream') : i \in 1..n \/ i > n
    BY <1>3
  <2>4. \A i \in 1..Len(Stream') : i \in 1..n \/ Stream'[i] = <<h, i - n>>
    BY <1>3, <2>3
  <2>5. \A i \in 1..n : i \in 1..Len(Stream')
    BY <1>3
  <2>6. Stream'[Len(Stream')] = <<h, m>>
    BY <1>3, <2>2
  <2>7. QED BY <2>1, <2>4, <2>5, <2>6
<1>7. StreamOK'
  <2>1. Delivery!InOrder(Stream)'
    BY <1>1, <1>2, <1>3 DEF Delivery!InOrder, Delivery!Succeeds
  <2>2. ASSUME NEW i \in 1..Len(Stream')
        PROVE  /\ Stream'[i][1] <= h /\ Stream'[i][1] <= tail.pos
               /\ \A j \in 1..Len(Tail(Pipe)) : Stream'[i][1] < Tail(Pipe)[j]
    <3>1. CASE Stream'[i] = <<h, i - n>>
      BY <1>4, <3>1
    <3>2. CASE i \in 1..n
      <4>1. Stream'[i] = Stream[i] /\ Stream[i][1] < h /\ Stream[i][1] <= tail.pos
        BY <1>3, <1>4, <3>2 DEF FlowOK, StreamOK
      <4>2. \A j \in 1..Len(Tail(Pipe)) : Stream[i][1] < Tail(Pipe)[j]
        BY <1>4, <3>2 DEF FlowOK, StreamOK
      <4>3. Stream[i][1] \in Nat
        <5>1. Stream[i] \in Byte
          BY <3>2, StreamType
        <5>2. QED BY <5>1, Constants DEF Byte
      <4>4. QED BY <1>4, <4>1, <4>2, <4>3
    <3>3. QED BY <1>6, <3>1, <3>2
  <2>3. \A i \in 1..Len(Stream') : Stream'[i][1] <= Stream'[Len(Stream')][1]
    BY <1>6, <2>2
  <2>4. Stream'[Len(Stream')][2] = file'[Stream'[Len(Stream')][1]].size
    BY <1>1, <1>6
  <2>5. QED BY <1>1, <2>1, <2>2, <2>3, <2>4 DEF StreamOK
<1>8. Kept' = Kept
  <2>1. Delivery!LinesOf(Stream)' = Delivery!LinesOf(Stream) \cup {h}
    <3>1. ASSUME NEW i \in 1..Len(Stream')
          PROVE  Stream'[i][1] = h \/ \E j \in 1..n : Stream'[i][1] = Stream[j][1]
      <4>1. CASE i \in 1..n
        BY <1>3, <4>1
      <4>2. CASE Stream'[i] = <<h, i - n>>
        BY <4>2
      <4>3. QED BY <1>6, <4>1, <4>2
    <3>2. \A i \in 1..n : \E j \in 1..Len(Stream') : Stream[i][1] = Stream'[j][1]
      BY <1>3, <1>6
    <3>3. h = Stream'[Len(Stream')][1] /\ Len(Stream') \in 1..Len(Stream')
      BY <1>3, <1>6
    <3>4. ASSUME NEW x \in Delivery!LinesOf(Stream)'
          PROVE  x \in Delivery!LinesOf(Stream) \cup {h}
      <4>1. PICK i \in 1..Len(Stream') : x = Stream'[i][1]
        BY <3>4 DEF Delivery!LinesOf
      <4>2. QED BY <3>1, <4>1 DEF Delivery!LinesOf
    <3>5. ASSUME NEW x \in Delivery!LinesOf(Stream)
          PROVE  x \in Delivery!LinesOf(Stream)'
      <4>1. PICK i \in 1..n : x = Stream[i][1]
        BY <3>5 DEF Delivery!LinesOf
      <4>2. QED BY <3>2, <4>1 DEF Delivery!LinesOf
    <3>6. h \in Delivery!LinesOf(Stream)'
      BY <3>3 DEF Delivery!LinesOf
    <3>7. QED BY <3>4, <3>5, <3>6
  <2>2. {Pipe[i] : i \in 1..Len(Pipe)} = {Tail(Pipe)[i] : i \in 1..Len(Tail(Pipe))} \cup {h}
    BY <1>4
  <2>3. QED BY <1>1, <2>1, <2>2 DEF Kept
<1>9. NoGap' /\ CountOK'
  BY <1>1, <1>2, <1>8 DEF FlowOK, NoGap, CountOK, Delivery!AreLatest
<1>10. QED BY <1>5, <1>7, <1>9 DEF FlowOK

\* What the ring is after one more line.
LEMMA LatestCases ==
  ASSUME NEW s \in Seq(Nat), NEW n \in Nat \ {0}, NEW x \in Nat, Len(s) <= n
  PROVE  \/ Len(s) < n /\ Latest(Append(s, x), n) = Append(s, x)
         \/ Len(s) = n /\ s # <<>> /\ Latest(Append(s, x), n) = Append(Tail(s), x)
<1> DEFINE t == Append(s, x)
<1>1. t \in Seq(Nat) /\ Len(t) = Len(s) + 1 /\ Len(s) \in Nat /\ t # <<>>
  BY AppendProperties
<1>2. CASE Len(s) < n
  <2>1. ~(n < Len(t)) \/ n = Len(t)
    BY <1>1, <1>2
  <2>2. Len(t) - (IF n < Len(t) THEN n ELSE Len(t)) + 1 = 1
    BY <1>1, <2>1
  <2>3. Latest(t, n) = SubSeq(t, 1, Len(t))
    BY <2>2 DEF Latest
  <2>4. SubSeq(t, 1, Len(t)) = t
    BY <1>1, SubSeqFull
  <2>5. QED BY <1>2, <2>3, <2>4
<1>3. CASE Len(s) = n
  <2>1. Len(t) - (IF n < Len(t) THEN n ELSE Len(t)) + 1 = 2
    BY <1>1, <1>3
  <2>2. Latest(t, n) = SubSeq(t, 2, Len(t))
    BY <2>1 DEF Latest
  <2>3. Tail(t) = SubSeq(t, 2, Len(t))
    BY <1>1, TailIsSubSeq
  <2>4. s # <<>>
    BY <1>1, <1>3
  <2>5. Tail(t) = Append(Tail(s), x)
    BY <2>4, HeadTailAppend
  <2>6. QED BY <1>3, <2>2, <2>3, <2>4, <2>5
<1>4. QED BY <1>1, <1>2, <1>3

\* A later line at the end.
LEMMA Longer ==
  ASSUME NEW q \in Seq(Nat), NEW p \in Nat,
         \A i, j \in 1..Len(q) : i < j => q[i] < q[j],
         \A i \in 1..Len(q) : q[i] <= p
  PROVE  LET t == Append(q, p + 1)
         IN  /\ t \in Seq(Nat) /\ Len(t) = Len(q) + 1
             /\ \A i, j \in 1..Len(t) : i < j => t[i] < t[j]
             /\ \A i \in 1..Len(t) : t[i] = p + 1 \/ \E j \in 1..Len(q) : t[i] = q[j]
             /\ \A i \in 1..Len(q) : i \in 1..Len(t) /\ t[i] = q[i]
             /\ Len(t) \in 1..Len(t) /\ t[Len(t)] = p + 1
<1> DEFINE t == Append(q, p + 1)
<1>1. /\ t \in Seq(Nat) /\ Len(t) = Len(q) + 1 /\ Len(q) \in Nat
      /\ \A i \in 1..Len(q) : t[i] = q[i] /\ q[i] \in Nat
      /\ t[Len(q) + 1] = p + 1
  BY AppendProperties
<1> HIDE DEF t
<1>2. \A i \in 1..Len(t) : i \in 1..Len(q) \/ i = Len(q) + 1
  BY <1>1
<1>3. ASSUME NEW i \in 1..Len(t), NEW j \in 1..Len(t), i < j
      PROVE  t[i] < t[j]
  <2>1. i \in 1..Len(q)
    BY <1>1, <1>3
  <2>2. CASE j \in 1..Len(q)
    BY <1>1, <1>3, <2>1, <2>2
  <2>3. CASE j = Len(q) + 1
    BY <1>1, <2>1, <2>3
  <2>4. QED BY <1>2, <2>2, <2>3
<1>4. \A i \in 1..Len(t) : t[i] = p + 1 \/ \E j \in 1..Len(q) : t[i] = q[j]
  BY <1>1, <1>2
<1>5. \A i \in 1..Len(q) : i \in 1..Len(t)
  BY <1>1
<1>6. QED BY <1>1, <1>3, <1>4, <1>5 DEF t

\* LogDelivery and the theorems about finite sets count alike.
LEMMA SameCardinality == \A S : Delivery!Cardinality(S) = Cardinality(S)
  BY DEF Delivery!Cardinality, Cardinality

\* A ring of the latest numbers, after one more.
LEMMA RingCount ==
  ASSUME NEW K, NEW M, NEW n \in Nat \ {0}, NEW p \in Nat, M \subseteq 1..p, K \subseteq M,
         Delivery!AreLatest(K, M, n)
  PROVE  /\ Cardinality(K) < n => Delivery!AreLatest(K \cup {p + 1}, M \cup {p + 1}, n)
         /\ \A h \in K : (\A k \in K : h <= k) /\ Cardinality(K) = n =>
              Delivery!AreLatest((K \ {h}) \cup {p + 1}, M \cup {p + 1}, n)
<1>1. /\ IsFiniteSet(1..p) /\ IsFiniteSet(M) /\ IsFiniteSet(K)
      /\ Cardinality(M) \in Nat /\ Cardinality(K) \in Nat /\ Cardinality(K) <= Cardinality(M)
  <2>1. IsFiniteSet(1..p)
    BY FS_Interval
  <2>2. IsFiniteSet(M)
    BY <2>1, FS_Subset
  <2>3. IsFiniteSet(K) /\ Cardinality(K) <= Cardinality(M)
    BY <2>2, FS_Subset
  <2>4. QED BY <2>1, <2>2, <2>3, FS_CardinalityType
<1>2. p + 1 \notin M /\ p + 1 \notin K /\ \A l \in M : l \in Nat /\ l < p + 1
  OBVIOUS
<1>3. Cardinality(M \cup {p + 1}) = Cardinality(M) + 1
  BY <1>1, <1>2, FS_AddElement
<1>4. \A l \in M \ K, m \in K : l < m
  BY DEF Delivery!AreLatest
<1>5. ASSUME Cardinality(K) < n
      PROVE  Delivery!AreLatest(K \cup {p + 1}, M \cup {p + 1}, n)
  <2>1. ~(n < Cardinality(M)) /\ K = M
    BY <1>1, <1>5, SameCardinality DEF Delivery!AreLatest
  <2>2. ~(n < Cardinality(M \cup {p + 1}))
    BY <1>1, <1>3, <1>5, <2>1
  <2>3. QED BY <2>1, <2>2, SameCardinality DEF Delivery!AreLatest
<1>6. ASSUME NEW h \in K, \A k \in K : h <= k, Cardinality(K) = n
      PROVE  Delivery!AreLatest((K \ {h}) \cup {p + 1}, M \cup {p + 1}, n)
  <2> DEFINE R == K \ {h}
  <2>1. IsFiniteSet(R) /\ Cardinality(R) = n - 1
    BY <1>1, <1>6, FS_RemoveElement
  <2>2. Cardinality(R \cup {p + 1}) = n
    <3>1. p + 1 \notin R
      BY <1>2
    <3> HIDE DEF R
    <3>2. Cardinality(R \cup {p + 1}) = Cardinality(R) + 1
      BY <2>1, <3>1, FS_AddElement
    <3>3. QED BY <2>1, <3>2
  <2>3. n < Cardinality(M \cup {p + 1})
    BY <1>1, <1>3, <1>6
  <2>4. ASSUME NEW l \in (M \cup {p + 1}) \ (R \cup {p + 1}), NEW m \in R \cup {p + 1}
        PROVE  l < m
    <3>1. l \in M /\ (l \in M \ K \/ l = h)
      BY <2>4
    <3>2. CASE m = p + 1
      BY <1>2, <3>1, <3>2
    <3>3. CASE m \in R /\ l \in M \ K
      BY <1>4, <3>3
    <3>4. CASE m \in R /\ l = h
      BY <1>2, <1>6, <3>4
    <3>5. QED BY <2>4, <3>1, <3>2, <3>3, <3>4
  <2>5. R \cup {p + 1} \subseteq M \cup {p + 1}
    OBVIOUS
  <2>6. QED BY <2>2, <2>3, <2>4, <2>5, SameCardinality DEF Delivery!AreLatest
<1>7. QED BY <1>5, <1>6

\* One more line in the file has been seen: what remains to show of it.
LEMMA SeenOne ==
  ASSUME BaseOK, FlowOK, UNCHANGED <<opts, file>>, Stream' = Stream, tail'.pos = tail.pos + 1,
         \A i \in 1..Len(Pipe') : Pipe'[i] = tail.pos + 1 \/ \E j \in 1..Len(Pipe) : Pipe'[i] = Pipe[j]
  PROVE  /\ StreamOK' /\ (Delivery!Wanted)' = Delivery!Wanted
         /\ Mine' = Mine \cup (IF file[tail.pos + 1].mine THEN {tail.pos + 1} ELSE {})
<1>1. tail.pos \in Nat
  BY HeldTypes DEF BaseOK
<1>2. (Delivery!Wanted)' = Delivery!Wanted
  BY DEF Delivery!Wanted, Delivery!Skipped
<1>3. Mine' = Mine \cup (IF file[tail.pos + 1].mine THEN {tail.pos + 1} ELSE {})
  <2>1. \A i : i \in 1..(tail.pos + 1) <=> i \in 1..tail.pos \/ i = tail.pos + 1
    BY <1>1
  <2>2. Mine' = {l \in 1..(tail.pos + 1) : file[l].mine}
    BY DEF Mine
  <2>3. QED BY <2>1, <2>2 DEF Mine
<1>4. Delivery!InOrder(Stream)'
  BY <1>2 DEF FlowOK, StreamOK, Delivery!InOrder, Delivery!Succeeds
<1>5. ASSUME NEW i \in 1..Len(Stream)
      PROVE  /\ Stream[i][1] <= tail.pos + 1
             /\ \A j \in 1..Len(Pipe') : Stream[i][1] < Pipe'[j]
  <2>1. Stream[i][1] \in Nat /\ Stream[i][1] <= tail.pos
    <3>1. Stream[i] \in Byte
      BY StreamType
    <3>2. QED BY <3>1, Constants DEF Byte, FlowOK, StreamOK
  <2>2. \A j \in 1..Len(Pipe) : Stream[i][1] < Pipe[j]
    BY DEF FlowOK, StreamOK
  <2>3. QED BY <1>1, <2>1, <2>2
<1>6. StreamOK'
  BY <1>4, <1>5 DEF FlowOK, StreamOK
<1>7. QED BY <1>2, <1>3, <1>6

LEMMA ScansOther ==
  ASSUME BaseOK, FlowOK, UNCHANGED <<opts, file>>, Stream' = Stream, tail'.pos = tail.pos + 1,
         ~file[tail.pos + 1].mine, Pipe' = Pipe
  PROVE  FlowOK'
<1>1. tail.pos \in Nat /\ Delivery!Wanted \subseteq Nat /\ tail.pos + 1 \notin Delivery!Wanted
  BY HeldTypes DEF BaseOK, Delivery!Wanted
<1>2. StreamOK' /\ (Delivery!Wanted)' = Delivery!Wanted /\ Mine' = Mine
  BY SeenOne
<1>3. PipeOK' /\ Kept' = Kept
  BY <1>2 DEF FlowOK, PipeOK, Kept, Delivery!LinesOf
<1>4. \A l \in Delivery!Wanted : l <= tail.pos + 1 => l <= tail.pos
  BY <1>1
<1>5. NoGap'
  BY <1>2, <1>3, <1>4 DEF FlowOK, NoGap
<1>6. CountOK'
  BY <1>2, <1>3 DEF FlowOK, CountOK, Delivery!AreLatest
<1>7. QED BY <1>2, <1>3, <1>5, <1>6 DEF FlowOK

LEMMA ScansOne ==
  ASSUME BaseOK, FlowOK, UNCHANGED <<opts, file>>, Stream' = Stream, tail'.pos = tail.pos + 1,
         file[tail.pos + 1].mine, Pipe' = Append(Pipe, tail.pos + 1)
  PROVE  /\ PipeOK' /\ StreamOK' /\ NoGap'
         /\ Kept' = Kept \cup {tail.pos + 1} /\ Mine' = Mine \cup {tail.pos + 1}
<1> DEFINE p == tail.pos
<1>1. /\ p \in Nat /\ Delivery!Wanted \subseteq Nat /\ Pipe \in Seq(Nat)
      /\ \A i \in 1..Len(Pipe) : Pipe[i] <= p
      /\ \A i, j \in 1..Len(Pipe) : i < j => Pipe[i] < Pipe[j]
  <2>1. p \in Nat /\ Delivery!Wanted \subseteq Nat
    BY HeldTypes DEF BaseOK, Delivery!Wanted
  <2>2. \A i \in 1..Len(Pipe) : Pipe[i] <= p
    BY <2>1 DEF FlowOK, PipeOK, Mine
  <2>3. QED BY <2>1, <2>2, PipeType DEF FlowOK, PipeOK
<1>2. /\ \A i, j \in 1..Len(Pipe') : i < j => Pipe'[i] < Pipe'[j]
      /\ \A i \in 1..Len(Pipe') : Pipe'[i] = p + 1 \/ \E j \in 1..Len(Pipe) : Pipe'[i] = Pipe[j]
      /\ \A i \in 1..Len(Pipe) : i \in 1..Len(Pipe') /\ Pipe'[i] = Pipe[i]
      /\ Len(Pipe') \in 1..Len(Pipe') /\ Pipe'[Len(Pipe')] = p + 1
  BY <1>1, Longer
<1>3. /\ StreamOK' /\ (Delivery!Wanted)' = Delivery!Wanted
      /\ Mine' = Mine \cup {p + 1}
  BY <1>2, SeenOne
<1>4. PipeOK'
  BY <1>2, <1>3 DEF FlowOK, PipeOK
<1>5. Kept' = Kept \cup {p + 1}
  <2>1. {Pipe[i] : i \in 1..Len(Pipe)}' = {Pipe[i] : i \in 1..Len(Pipe)} \cup {p + 1}
    BY <1>2
  <2>2. QED BY <2>1 DEF Kept, Delivery!LinesOf
<1>6. NoGap'
  <2>1. ASSUME NEW l \in Delivery!Wanted, l <= p + 1
        PROVE  l \in Kept' \/ (opts.tail > 0 /\ \A k \in Kept' : l < k)
    <3>1. l = p + 1 \/ (l <= p /\ l < p + 1)
      BY <1>1, <2>1
    <3>2. l <= p => l \in Kept \/ (opts.tail > 0 /\ \A k \in Kept : l < k)
      BY DEF FlowOK, NoGap
    <3>3. QED BY <1>5, <3>1, <3>2
  <2>2. QED BY <1>3, <2>1 DEF NoGap
<1>7. QED BY <1>3, <1>4, <1>5, <1>6

\* Before the first end of the file, all that is kept is in the ring.
LEMMA KeptInRing ==
  ASSUME BaseOK, PipeOK, Stream = <<>>
  PROVE  /\ Kept = {Pipe[i] : i \in 1..Len(Pipe)} /\ Kept \subseteq Mine
         /\ Cardinality(Kept) = Len(Pipe)
<1>1. Kept = {Pipe[i] : i \in 1..Len(Pipe)}
  BY DEF Kept, Delivery!LinesOf
<1>2. Cardinality({Pipe[i] : i \in 1..Len(Pipe)}) = Len(Pipe)
  BY PipeType, IncreasingCard DEF PipeOK
<1>3. QED BY <1>1, <1>2 DEF PipeOK

LEMMA ScansRing ==
  ASSUME BaseOK, FlowOK, UNCHANGED <<opts, file>>, Stream' = Stream, tail'.pos = tail.pos + 1,
         file[tail.pos + 1].mine, opts.tail > 0, Stream = <<>>, Len(Pipe) <= opts.tail,
         Pipe' = Latest(Append(Pipe, tail.pos + 1), opts.tail)
  PROVE  FlowOK'
<1> DEFINE p == tail.pos
           n == opts.tail
           h == Head(Pipe)
<1>1. /\ p \in Nat /\ p + 1 \in Nat /\ n \in Nat \ {0} /\ Pipe \in Seq(Nat)
      /\ Mine \subseteq 1..p /\ Delivery!Wanted \subseteq Nat
  <2>1. p \in Nat /\ p + 1 \in Nat /\ n \in Nat \ {0}
    BY HeldTypes DEF BaseOK
  <2>2. Mine \subseteq 1..p
    BY DEF Mine
  <2>3. Delivery!Wanted \subseteq Nat
    BY HeldTypes DEF BaseOK, Delivery!Wanted
  <2>4. QED BY <2>1, <2>2, <2>3, PipeType
<1>2. \/ Len(Pipe) < n /\ Pipe' = Append(Pipe, p + 1)
      \/ Len(Pipe) = n /\ Pipe # <<>> /\ Pipe' = Append(Tail(Pipe), p + 1)
  BY <1>1, LatestCases
<1>3. /\ Kept = {Pipe[i] : i \in 1..Len(Pipe)} /\ Kept \subseteq Mine
      /\ Cardinality(Kept) = Len(Pipe)
  BY KeptInRing DEF FlowOK
<1>4. ~opts.follow => Delivery!AreLatest(Kept, Mine, n)
  BY DEF FlowOK, CountOK
<1>5. CASE Len(Pipe) < n /\ Pipe' = Append(Pipe, p + 1)
  <2>1. PipeOK' /\ StreamOK' /\ NoGap' /\ Kept' = Kept \cup {p + 1} /\ Mine' = Mine \cup {p + 1}
    BY <1>5, ScansOne
  <2>2. ~opts.follow => Delivery!AreLatest(Kept \cup {p + 1}, Mine \cup {p + 1}, n)
    BY <1>1, <1>3, <1>4, <1>5, RingCount
  <2>3. CountOK'
    BY <2>1, <2>2 DEF CountOK, Delivery!AreLatest
  <2>4. QED BY <2>1, <2>3 DEF FlowOK
<1>6. CASE Len(Pipe) = n /\ Pipe # <<>> /\ Pipe' = Append(Tail(Pipe), p + 1)
  <2> DEFINE q == Tail(Pipe)
  <2>1. /\ q \in Seq(Nat) /\ Len(q) \in Nat
        /\ \A i, j \in 1..Len(q) : i < j => q[i] < q[j]
        /\ \A i \in 1..Len(q) : q[i] <= p /\ q[i] \in Mine /\ h < q[i]
        /\ \A i \in 1..Len(q) : \E j \in 1..Len(Pipe) : q[i] = Pipe[j]
        /\ \A i \in 1..Len(Pipe) : Pipe[i] = h \/ \E j \in 1..Len(q) : Pipe[i] = q[j]
        /\ \A i \in 1..Len(Pipe) : h <= Pipe[i]
        /\ h \in Kept /\ h \in Nat
    <3>1. q \in Seq(Nat) /\ Len(q) \in Nat
      BY <1>1, <1>6, HeadTailProperties
    <3>2. \A i \in 1..Len(q) : q[i] = Pipe[i + 1] /\ i + 1 \in 1..Len(Pipe)
      BY <1>6, RestOfPipe DEF FlowOK
    <3>3. \A i, j \in 1..Len(q) : i < j => i + 1 < j + 1
      BY <3>1
    <3>4. \A i, j \in 1..Len(q) : i < j => q[i] < q[j]
      BY <3>2, <3>3 DEF FlowOK, PipeOK
    <3>5. \A i \in 1..Len(q) : q[i] \in Mine
      BY <3>2 DEF FlowOK, PipeOK
    <3>6. \A i \in 1..Len(q) : q[i] <= p
      BY <1>1, <3>5
    <3>7. /\ \A i \in 1..Len(q) : h < q[i]
          /\ \A i \in 1..Len(Pipe) : Pipe[i] = h \/ \E j \in 1..Len(q) : Pipe[i] = q[j]
          /\ \A i \in 1..Len(Pipe) : h <= Pipe[i]
          /\ 1 \in 1..Len(Pipe) /\ Pipe[1] = h
      BY <1>6, RestOfPipe DEF FlowOK
    <3>8. h \in Kept /\ h \in Nat
      <4>1. Pipe[1] \in Kept
        BY <1>3, <3>7
      <4>2. Pipe[1] \in Nat
        <5>1. \A i \in 1..p : i \in Nat
          BY <1>1
        <5>2. Pipe[1] \in 1..p
          BY <1>1, <1>3, <4>1, Zenon
        <5>3. QED BY <5>1, <5>2
      <4>3. QED BY <3>7, <4>1, <4>2
    <3>9. \A i \in 1..Len(q) : \E j \in 1..Len(Pipe) : q[i] = Pipe[j]
      BY <3>2
    <3>10. QED BY <3>1, <3>4, <3>5, <3>6, <3>7, <3>8, <3>9
  <2> HIDE DEF q, h
  <2>2. /\ \A i, j \in 1..Len(Pipe') : i < j => Pipe'[i] < Pipe'[j]
        /\ \A i \in 1..Len(Pipe') : Pipe'[i] = p + 1 \/ \E j \in 1..Len(q) : Pipe'[i] = q[j]
        /\ \A i \in 1..Len(q) : i \in 1..Len(Pipe') /\ Pipe'[i] = q[i]
        /\ Len(Pipe') \in 1..Len(Pipe') /\ Pipe'[Len(Pipe')] = p + 1
    <3>1. Pipe' = Append(q, p + 1)
      BY <1>6 DEF q
    <3>2. /\ q \in Seq(Nat) /\ p \in Nat
          /\ \A i, j \in 1..Len(q) : i < j => q[i] < q[j]
          /\ \A i \in 1..Len(q) : q[i] <= p
      BY <1>1, <2>1
    <3> HIDE DEF p
    <3>3. QED BY ONLY <3>1, <3>2, Longer
  <2>3. /\ StreamOK' /\ (Delivery!Wanted)' = Delivery!Wanted /\ Mine' = Mine \cup {p + 1}
    <3>1. \A i \in 1..Len(Pipe') : Pipe'[i] = p + 1 \/ \E j \in 1..Len(Pipe) : Pipe'[i] = Pipe[j]
      BY <2>1, <2>2
    <3>2. QED BY <3>1, SeenOne
  <2>4. PipeOK'
    BY <2>1, <2>2, <2>3 DEF PipeOK
  <2>5. Kept' = (Kept \ {h}) \cup {p + 1}
    <3>1. \A x : (\E i \in 1..Len(q) : x = q[i]) <=> (\E i \in 1..Len(Pipe) : x = Pipe[i]) /\ x # h
      <4>1. ASSUME NEW i \in 1..Len(q) PROVE q[i] # h
        BY <2>1
      <4>2. QED BY <2>1, <4>1
    <3>2. Kept' = {Pipe[i] : i \in 1..Len(Pipe)}'
      BY DEF Kept, Delivery!LinesOf
    <3>3. ASSUME NEW x PROVE x \in Kept' <=> x = p + 1 \/ \E i \in 1..Len(q) : x = q[i]
      BY <2>2, <3>2
    <3>4. \A x : x \in Kept <=> \E i \in 1..Len(Pipe) : x = Pipe[i]
      BY <1>3
    <3>5. QED BY <3>1, <3>3, <3>4
  <2>6. \A k \in Kept : h <= k /\ k \in Nat
    <3>1. ASSUME NEW k \in Kept PROVE h <= k /\ k \in Nat
      <4>1. PICK i \in 1..Len(Pipe) : k = Pipe[i]
        BY <1>3
      <4>2. QED BY <1>1, <2>1, <4>1
    <3>2. QED BY <3>1
  <2>7. NoGap'
    <3>1. ASSUME NEW l \in Delivery!Wanted, l <= p + 1
          PROVE  l \in Kept' \/ (opts.tail > 0 /\ \A k \in Kept' : l < k)
      <4>1. CASE l = p + 1
        BY <2>5, <4>1
      <4>2. CASE l <= p /\ l \in Kept
        <5>1. CASE l # h
          BY <2>5, <4>2, <5>1
        <5>2. CASE l = h
          <6>1. h < p + 1 /\ \A k \in Kept \ {h} : h < k
            BY <1>1, <2>1, <2>6, <4>2, <5>2
          <6>2. QED BY <2>5, <5>2, <6>1
        <5>3. QED BY <5>1, <5>2
      <4>3. CASE l <= p /\ \A k \in Kept : l < k
        <5>1. l < p + 1
          BY <1>1, <4>3
        <5>2. QED BY <2>5, <4>3, <5>1
      <4>4. l <= p => l \in Kept \/ (\A k \in Kept : l < k)
        BY DEF FlowOK, NoGap
      <4>5. l = p + 1 \/ l <= p
        BY <1>1, <3>1
      <4>6. QED BY <4>1, <4>2, <4>3, <4>4, <4>5
    <3>2. QED BY <2>3, <3>1 DEF NoGap
  <2>8. ~opts.follow => Delivery!AreLatest((Kept \ {h}) \cup {p + 1}, Mine \cup {p + 1}, n)
    BY <1>1, <1>3, <1>4, <1>6, <2>1, <2>6, RingCount
  <2>9. CountOK'
    BY <2>3, <2>5, <2>8 DEF CountOK, Delivery!AreLatest
  <2>10. QED BY <2>3, <2>4, <2>7, <2>9 DEF FlowOK
<1>7. QED BY <1>2, <1>5, <1>6

LEMMA ScanFlow ==
  ASSUME BaseOK, TailOK, FlowOK, TailScan
  PROVE  FlowOK'
<1> DEFINE l == tail.pos + 1
<1>1. UNCHANGED <<opts, file>> /\ Stream' = Stream
  BY DEF TailScan, TailOnly, readerVars, Stream
<1>2. /\ tail'.pos = l
      /\ \/ ~file[l].mine /\ Pipe' = Pipe
         \/ /\ file[l].mine /\ opts.tail > 0
            /\ Pipe \in Seq(Nat) /\ Len(Pipe) <= opts.tail /\ Stream = <<>>
            /\ Pipe' = Latest(Append(Pipe, l), opts.tail)
         \/ /\ file[l].mine /\ ~(opts.tail > 0 /\ ~opts.follow)
            /\ Pipe' = Append(Pipe, l)
  BY Scanning
<1>3. CASE ~file[l].mine /\ Pipe' = Pipe
  BY <1>1, <1>2, <1>3, ScansOther
<1>4. CASE /\ file[l].mine /\ opts.tail > 0
           /\ Pipe \in Seq(Nat) /\ Len(Pipe) <= opts.tail /\ Stream = <<>>
           /\ Pipe' = Latest(Append(Pipe, l), opts.tail)
  BY <1>1, <1>2, <1>4, ScansRing
<1>5. CASE /\ file[l].mine /\ ~(opts.tail > 0 /\ ~opts.follow) /\ Pipe' = Append(Pipe, l)
  <2>1. PipeOK' /\ StreamOK' /\ NoGap'
    BY <1>1, <1>2, <1>5, ScansOne
  <2>2. CountOK'
    BY <1>1, <1>5 DEF CountOK
  <2>3. QED BY <2>1, <2>2 DEF FlowOK
<1>6. QED BY <1>2, <1>3, <1>4, <1>5

-----------------------------------------------------------------------------
(* The invariant *)

IInv == /\ BaseOK /\ TailOK /\ EndOK /\ CacheOK /\ DeliversInOrder
        /\ caller = "reading" => FlowOK

LEMMA StartOfBytes ==
  ASSUME NEW s \in Seq(Byte), NEW t \in Seq(Byte)
  PROVE  /\ Delivery!InOrder(s \o t) => Delivery!InOrder(s)
         /\ Delivery!IsPrefix(s, s \o t)
<1> DEFINE u == s \o t
<1>1. /\ Len(s) \in Nat /\ Len(t) \in Nat /\ Len(u) = Len(s) + Len(t)
      /\ \A i \in 1..Len(s) : u[i] = s[i]
  BY ConcatAt
<1>2. Delivery!IsPrefix(s, u)
  <2>1. CASE s = <<>>
    <3>1. Len(s) = 0 /\ SubSeq(s, 1, 0) = <<>> /\ SubSeq(u, 1, 0) = <<>>
      BY <2>1, SubSeqEmpty
    <3>2. QED BY <1>1, <3>1 DEF Delivery!IsPrefix
  <2>2. CASE s # <<>>
    <3>1. 1 \in 1..Len(s) /\ Len(s) \in 1..Len(s)
      BY <1>1, <2>2
    <3>2. SubSeq(u, 1, Len(s)) = SubSeq(s, 1, Len(s))
      BY <3>1, SubSeqOfConcat1
    <3>3. QED BY <1>1, <3>2 DEF Delivery!IsPrefix
  <2>3. QED BY <2>1, <2>2
<1> HIDE DEF u
<1>3. ASSUME Delivery!InOrder(u) PROVE Delivery!InOrder(s)
  <2>1. \A i \in 1..Len(s) : i \in 1..Len(u) /\ (i > 1 => i - 1 \in 1..Len(s))
    BY <1>1
  <2>2. ASSUME NEW i \in 1..Len(s)
        PROVE  /\ s[i][1] \in Delivery!Wanted /\ s[i][2] \in 1..file[s[i][1]].size
               /\ i > 1 => Delivery!Succeeds(s[i], s[i - 1])
    <3>1. /\ u[i][1] \in Delivery!Wanted /\ u[i][2] \in 1..file[u[i][1]].size
          /\ i > 1 => Delivery!Succeeds(u[i], u[i - 1])
      BY <1>3, <2>1 DEF Delivery!InOrder
    <3>2. u[i] = s[i] /\ (i > 1 => u[i - 1] = s[i - 1])
      BY <1>1, <2>1
    <3>3. QED BY <3>1, <3>2
  <2>3. s # <<>> => u # <<>> /\ u[1] = s[1]
    BY <1>1
  <2>4. QED BY <1>3, <2>2, <2>3 DEF Delivery!InOrder
<1>4. QED BY <1>2, <1>3 DEF u

LEMMA InitFlow == Init => IInv
<1> SUFFICES ASSUME Init PROVE IInv
  OBVIOUS
<1>1. BaseOK
  BY InitTyped, InitBound DEF BaseOK
<1>2. /\ tail.ring = <<>> /\ tail.hand = 0 /\ tail.pos = 0 /\ tail.at = "waiting"
      /\ handler.chunk = 0 /\ receiver.chunk = 0 /\ down = <<>> /\ chunks = <<>>
      /\ cache = <<>> /\ out = <<>> /\ file = <<>> /\ opts.tail \in Nat
      /\ tail.latest = (opts.tail > 0)
  BY <1>1, HeldTypes DEF Init, BaseOK
<1>3. TailOK /\ EndOK
  BY <1>2 DEF Init, TailOK, EndOK
<1>4. Len(<<>>) = 0 /\ 0 * Buffer = 0 /\ 1..0 = {} /\ One(0) = <<>> /\ <<>> \o <<>> = <<>>
  BY Constants DEF One
<1>5. Pipe = <<>> /\ Stream = <<>>
  BY <1>2, <1>4 DEF Pipe, InReceiver, InTunnel, InAgent, InTail, Stream
<1>6. CacheOK
  BY <1>2, <1>4 DEF CacheOK
<1>7. Delivery!InOrder(<<>>)
  BY <1>4 DEF Delivery!InOrder
<1>8. Kept = {} /\ Mine = {} /\ Delivery!Wanted = {}
  BY <1>2, <1>4, <1>5 DEF Kept, Mine, Delivery!LinesOf, Delivery!Wanted
<1>9. PipeOK /\ StreamOK /\ NoGap
  BY <1>4, <1>5, <1>7, <1>8 DEF PipeOK, StreamOK, NoGap
<1>10. CountOK
  <2>1. Delivery!Cardinality({}) = 0
    BY SameCardinality, FS_EmptySet
  <2>2. QED BY <1>2, <1>8, <2>1 DEF CountOK, Delivery!AreLatest
<1>11. QED BY <1>1, <1>2, <1>3, <1>6, <1>7, <1>9, <1>10 DEF IInv, FlowOK, DeliversInOrder

\* What the goroutines do for which nothing changes in LogDelivery, but for its end.
LEMMA BehindTheScenes ==
  ASSUME IInv, CreateFile \/ (TailF /\ ~TailScan) \/ HearsClose \/ Logs \/ Receiver
  PROVE  /\ UNCHANGED <<opts, file, cache, out, caller>> /\ Stream' = Stream
         /\ tail'.pos = tail.pos
         /\ caller = "reading" => Pipe' = Pipe
<1> USE DEF IInv
<1>1. UNCHANGED <<opts, file, cache, out, caller>>
  BY DEF CreateFile, TailF, TailTick, TailFlush, TailAgain, TailEnds, TailCanceled, TailOnly,
         HearsClose, Logs, TakeLine, SendChunk, HandlerReturns, Receiver, ReceiverRecv,
         ReceiverQueues, ReceiverEnds, readerVars
<1>2. CASE CreateFile
  BY <1>1, <1>2 DEF CreateFile, Pipe, InReceiver, InTunnel, InAgent, InTail, Stream, agentVars
<1>3. CASE TailF /\ ~TailScan
  BY <1>1, <1>3, Flushing DEF TailF, Stream
<1>4. CASE HearsClose \/ Logs \/ Receiver
  <2>1. tail'.pos = tail.pos
    <3>1. tail \in TailState
      BY DEF BaseOK, TypeOK
    <3>2. QED BY <1>4, <3>1 DEF HearsClose, Logs, TakeLine, SendChunk, HandlerReturns, Receiver,
                 ReceiverRecv, ReceiverQueues, ReceiverEnds, agentVars, TailState
  <2>2. caller = "reading" => Pipe' = Pipe
    BY <1>4, Passing DEF EndOK
  <2>3. QED BY <1>1, <2>1, <2>2 DEF Stream
<1>5. QED BY <1>2, <1>3, <1>4

LEMMA FlowStep ==
  ASSUME LinesFit, IInv, [Next]_vars, caller' = "reading"
  PROVE  FlowOK'
<1> USE DEF IInv
<1>1. CASE CreateFile \/ (TailF /\ ~TailScan) \/ HearsClose \/ Logs \/ Receiver
  BY <1>1, BehindTheScenes, Steady
<1>2. CASE WriteLine
  BY <1>2, Writing DEF WriteLine, readerVars
<1>3. CASE TailScan
  BY <1>3, ScanFlow DEF TailScan, TailOnly, readerVars
<1>4. CASE ReadCache
  <2>1. UNCHANGED <<opts, file, tail>> /\ Pipe' = Pipe /\ caller = "reading"
    BY <1>4 DEF ReadCache, Pipe, InReceiver, InTunnel, InAgent, InTail, agentVars
  <2>2. Stream' = Stream
    BY <1>4, CacheToCaller
  <2>3. QED BY <2>1, <2>2, Steady
<1>5. CASE ReadSkips
  BY <1>5, Skipping DEF ReadSkips, Waiting
<1>6. CASE ReadLine
  BY <1>6, LineToCaller, Taking DEF ReadLine, Waiting
<1>7. CASE ReadEnds \/ Leave
  BY <1>7 DEF ReadEnds, Leave
<1>8. CASE UNCHANGED vars
  <2>1. /\ UNCHANGED <<opts, file, tail, caller>> /\ Pipe' = Pipe /\ Stream' = Stream
    BY <1>8 DEF vars, Pipe, InReceiver, InTunnel, InAgent, InTail, Stream, agentVars, readerVars
  <2>2. QED BY <2>1, Steady
<1>9. QED BY <1>1, <1>2, <1>3, <1>4, <1>5, <1>6, <1>7, <1>8 DEF Next, Read

LEMMA CacheStep ==
  ASSUME LinesFit, IInv, [Next]_vars
  PROVE  CacheOK'
<1> USE DEF IInv
<1>1. CASE ReadCache
  BY <1>1, CacheToCaller
<1>2. CASE ReadLine
  BY <1>2, LineToCaller
<1>3. CASE ReadEnds
  <2>1. Len(<<>>) = 0 /\ 0 * Buffer = 0
    BY Constants
  <2>2. QED BY <1>3, <2>1 DEF ReadEnds, CacheOK
<1>4. CASE CreateFile \/ (TailF /\ ~TailScan) \/ HearsClose \/ Logs \/ Receiver
  BY <1>4, BehindTheScenes DEF CacheOK
<1>5. CASE WriteLine \/ TailScan \/ ReadSkips \/ Leave \/ UNCHANGED vars
  BY <1>5 DEF WriteLine, TailScan, TailOnly, ReadSkips, Leave, vars, readerVars, CacheOK
<1>6. QED BY <1>1, <1>2, <1>3, <1>4, <1>5 DEF Next, Read

-----------------------------------------------------------------------------
(* Both sides implement LogDelivery *)

End == IF AtEnd /\ ~opts.follow THEN <<tail.pos>> ELSE <<>>

\* The end is found once, at the end of the file as it is then.
LEMMA EndStep ==
  ASSUME IInv, [Next]_vars
  PROVE  \/ End' = End
         \/ /\ ~opts.follow /\ End = <<>> /\ End' = <<Len(file)>>
            /\ UNCHANGED <<opts, file, out, caller>>
<1>1. tail \in TailState
  BY DEF IInv, BaseOK, TypeOK
<1>2. CASE TailFlush
  <2>1. /\ tail'.at = "sending" /\ tail'.latest /\ tail'.pos = tail.pos /\ tail.latest
        /\ UNCHANGED <<opts, file, out, caller>>
        /\ (tail.at = "scanning" /\ tail.pos = Len(file)) \/ tail.at = "flushing"
    BY <1>1, <1>2 DEF TailFlush, TailOnly, TailState, readerVars, IInv, TailOK
  <2>2. QED BY <2>1 DEF End, AtEnd
<1>3. CASE TailEnds
  <2>1. /\ tail'.at = "done" /\ tail'.pos = tail.pos
        /\ UNCHANGED <<opts, file, out, caller>>
        /\ (tail.at = "scanning" /\ tail.pos = Len(file)) \/ tail.at = "flushing"
    BY <1>1, <1>3 DEF TailEnds, TailFinished, TailState, readerVars
  <2>2. QED BY <2>1 DEF End, AtEnd
<1>4. CASE TailTick \/ TailAgain \/ TailCanceled
  <2>1. UNCHANGED opts
    BY <1>4 DEF TailTick, TailAgain, TailCanceled, TailOnly
  <2>2. opts.follow \/ (tail.at = "waiting" /\ tail'.at \in {"scanning", "canceled"})
    BY <1>1, <1>4 DEF TailTick, TailAgain, TailCanceled, TailState
  <2>3. QED BY <2>1, <2>2 DEF End, AtEnd
<1>5. CASE TailScan
  <2>1. UNCHANGED opts /\ tail.at = "scanning"
    BY <1>5 DEF TailScan, TailOnly
  <2>2. tail'.at = "scanning" \/ (tail'.at = "sending" /\ ~tail'.latest)
    BY <1>1, <1>5 DEF TailScan, TailState
  <2>3. QED BY <2>1, <2>2 DEF End, AtEnd
<1>6. CASE TakeLine
  <2>1. /\ UNCHANGED opts /\ tail.at = "sending" /\ tail'.latest = tail.latest
        /\ tail'.pos = tail.pos /\ tail'.at = IF tail.latest THEN "flushing" ELSE "scanning"
    BY <1>1, <1>6 DEF TakeLine, TailState
  <2>2. QED BY <2>1 DEF End, AtEnd
<1>7. CASE ~TailF /\ ~TakeLine
  <2>1. UNCHANGED <<opts, tail>>
    BY <1>7 DEF Next, CreateFile, WriteLine, Leave, HearsClose, Logs, SendChunk, HandlerReturns,
                Receiver, ReceiverRecv, ReceiverQueues, ReceiverEnds, Read, ReadCache, ReadSkips,
                ReadLine, ReadEnds, vars, agentVars
  <2>2. QED BY <2>1 DEF End, AtEnd
<1>8. QED BY <1>2, <1>3, <1>4, <1>5, <1>6, <1>7 DEF TailF

\* The caller receives what comes next, or leaves without it.
LEMMA ReadStep ==
  ASSUME LinesFit, IInv, Read
  PROVE  /\ caller = "reading" /\ UNCHANGED <<opts, file, tail>>
         /\ \/ caller' = "gone" /\ out' = out
            \/ caller' = "reading" /\ Delivery!Receives
            \/ /\ caller' = "ended" /\ Delivery!Receives /\ out' = Stream
               /\ chunks = <<>> /\ receiver.at = "done"
<1> USE DEF IInv
<1>1. caller = "reading" /\ UNCHANGED <<opts, file, tail>>
  BY DEF Read, ReadCache, ReadSkips, ReadLine, ReadEnds, Waiting, agentVars
<1>2. /\ out \in Seq(Byte) /\ cache \in Seq(Byte) /\ TypeOK' /\ FlowOK
      /\ out' \in Seq(Byte) /\ cache' \in Seq(Byte)
  <2>1. [Next]_vars
    BY DEF Next
  <2>2. TypeOK' /\ out' \in Seq(Byte) /\ cache' \in Seq(Byte)
    BY <2>1, BaseStep DEF BaseOK, TypeOK
  <2>3. QED BY <1>1, <2>2, StreamType
<1>3. ASSUME NEW bytes \in Seq(Byte), out' = out \o bytes, Delivery!InOrder(out')
      PROVE  Delivery!Receives
  <2>1. Delivery!IsPrefix(out, out \o bytes)
    BY <1>2, StartOfBytes
  <2>2. QED BY <1>3, <2>1 DEF Delivery!Receives
<1>4. ASSUME caller' = "reading" PROVE Delivery!InOrder(out')
  <2>1. [Next]_vars
    BY DEF Next
  <2>2. Delivery!InOrder(Stream)'
    BY <1>4, <2>1, FlowStep DEF FlowOK, StreamOK
  <2>3. Delivery!InOrder(out' \o cache')
    BY <1>1, <2>2 DEF Stream, Delivery!InOrder, Delivery!Succeeds, Delivery!Wanted, Delivery!Skipped
  <2>4. QED BY <1>2, <2>3, StartOfBytes
<1>5. CASE ReadSkips
  <2>1. out' = out \o <<>> /\ <<>> \in Seq(Byte) /\ caller' = "reading"
    BY <1>1, <1>2, <1>5, ConcatEmptySeq DEF ReadSkips, readerVars
  <2>2. QED BY <1>1, <1>3, <1>4, <2>1
<1>6. CASE ReadCache \/ ReadLine
  <2>1. \E bytes \in Seq(Byte) : Returns(bytes)
    <3>1. CASE ReadCache
      <4>1. /\ cache \in Seq(Byte) /\ \A j \in 1..Buffer : cache[j] \in Byte
            /\ Buffer \in Int
        BY <1>2, <3>1, Constants DEF ReadCache
      <4>2. SubSeq(cache, 1, Buffer) \in Seq(Byte)
        BY <4>1, SubSeqProperties
      <4>3. QED BY <3>1, <4>2 DEF ReadCache
    <3>2. CASE ReadLine
      BY <3>2, ReadLineEffect DEF BaseOK
    <3>3. QED BY <1>6, <3>1, <3>2
  <2>2. PICK bytes \in Seq(Byte) : Returns(bytes)
    BY <2>1
  <2>3. \/ caller' = "gone" /\ out' = out
        \/ caller' = "reading" /\ out' = out \o bytes
    BY <1>1, <2>2, ReturnsEffect DEF BaseOK
  <2>4. QED BY <1>1, <1>3, <1>4, <2>3
<1>7. CASE ReadEnds
  <2>1. Delivery!InOrder(out \o cache)
    BY <1>2 DEF FlowOK, StreamOK, Stream
  <2>2. /\ chunks = <<>> /\ receiver.at = "done"
        /\ \/ caller' = "gone" /\ out' = out
           \/ caller' = "ended" /\ out' = out \o cache
    BY <1>7 DEF ReadEnds
  <2>3. QED BY <1>1, <1>2, <1>3, <2>1, <2>2 DEF Stream
<1>8. QED BY <1>5, <1>6, <1>7 DEF Read

\* Without a limit, all that was asked for has left the channel when it is closed.
LEMMA AllReceived ==
  ASSUME IInv, caller = "reading", opts.limit = 0, chunks = <<>>, receiver.at = "done"
  PROVE  End # <<>> /\ Delivery!Complete(Stream)
<1> USE DEF IInv
<1>1. /\ receiver.chunk = 0 /\ handler.at = "returned" /\ handler.chunk = 0 /\ down = <<>>
      /\ tail.at = "done" /\ tail.hand = 0 /\ tail.ring = <<>> /\ ~opts.follow
  BY DEF EndOK, TailOK, BaseOK, HoldsOK
<1>2. Pipe = <<>>
  <2>1. One(0) = <<>> /\ <<>> \o <<>> = <<>>
    BY DEF One
  <2>2. QED BY <1>1, <2>1 DEF Pipe, InReceiver, InTunnel, InAgent, InTail
<1>3. End = <<tail.pos>> /\ End # <<>> /\ End[1] = tail.pos
  BY <1>1 DEF End, AtEnd
<1> DEFINE all == {l \in Delivery!Wanted : l <= tail.pos}
<1>4. /\ tail.pos \in Nat /\ Len(file) \in Nat /\ tail.pos <= Len(file) /\ opts.tail \in Nat
      /\ Stream \in Seq(Byte) /\ Len(Stream) \in Nat
  BY HeldTypes, StreamType DEF BaseOK, TypeOK
<1>5. Kept = Delivery!LinesOf(Stream)
  BY <1>2 DEF Kept
<1>6. CASE opts.tail > 0
  <2>1. all = Mine
    <3>1. \A l \in 1..Len(file) : ~Delivery!Skipped(l)
      BY <1>6 DEF Delivery!Skipped
    <3>2. \A l : (l \in 1..Len(file) /\ l <= tail.pos) <=> l \in 1..tail.pos
      BY <1>4
    <3>3. QED BY <3>1, <3>2 DEF Mine, Delivery!Wanted
  <2>2. Delivery!AreLatest(Kept, Mine, opts.tail)
    BY <1>1, <1>6 DEF FlowOK, CountOK
  <2>3. Delivery!AreLatest(Delivery!LinesOf(Stream), all, opts.tail)
    BY <1>5, <2>1, <2>2
  <2>4. QED BY <1>3, <1>6, <2>3 DEF FlowOK, StreamOK, Delivery!Complete, End
<1>7. CASE ~(opts.tail > 0)
  <2>1. \A l \in all : l \in Kept
    BY <1>7 DEF FlowOK, NoGap
  <2>2. \A i \in 1..Len(Stream) : Stream[i][1] \in all
    BY DEF FlowOK, StreamOK, Delivery!InOrder
  <2>3. Delivery!LinesOf(Stream) \subseteq all
    BY <2>2 DEF Delivery!LinesOf
  <2>4. Delivery!LinesOf(Stream) = all
    BY <1>5, <2>1, <2>3
  <2>5. QED BY <1>3, <1>7, <2>4 DEF FlowOK, StreamOK, Delivery!Complete, End
<1>8. QED BY <1>6, <1>7

\* Every step is a step of LogDelivery, or changes nothing of it.
LEMMA StepRefines ==
  ASSUME LinesFit, IInv, [Next]_vars
  PROVE  [Delivery!Next]_(Delivery!vars)
<1>1. CASE End' # End
  <2>1. /\ ~opts.follow /\ End = <<>> /\ End' = <<Len(file)>>
        /\ UNCHANGED <<opts, file, out, caller>>
    BY <1>1, EndStep
  <2>2. Delivery!FindEnd
    BY <2>1 DEF Delivery!FindEnd, End
  <2>3. QED BY <2>2 DEF Delivery!Next
<1>2. CASE End' = End
  <2>1. CASE WriteLine
    <3>1. Delivery!Write
      BY <1>2, <2>1 DEF WriteLine, Delivery!Write, End, readerVars
    <3>2. QED BY <3>1 DEF Delivery!Next
  <2>2. CASE Leave
    <3>1. Delivery!Leave
      BY <1>2, <2>2 DEF Leave, Delivery!Leave, End
    <3>2. QED BY <3>1 DEF Delivery!Next
  <2>3. CASE Read
    <3>1. caller = "reading" /\ UNCHANGED <<opts, file>>
      BY <2>3, ReadStep
    <3>2. CASE caller' = "gone" /\ out' = out
      <4>1. Delivery!Leave
        BY <1>2, <3>1, <3>2 DEF Delivery!Leave, End
      <4>2. QED BY <4>1 DEF Delivery!Next
    <3>3. CASE caller' = "reading" /\ Delivery!Receives
      <4>1. Delivery!Deliver
        BY <1>2, <3>1, <3>3 DEF Delivery!Deliver, End
      <4>2. QED BY <4>1 DEF Delivery!Next
    <3>4. CASE /\ caller' = "ended" /\ Delivery!Receives /\ out' = Stream
               /\ chunks = <<>> /\ receiver.at = "done"
      <4>1. opts.limit = 0 => End # <<>> /\ Delivery!Complete(out')
        <5>1. opts.limit = 0 => End # <<>> /\ Delivery!Complete(Stream)
          BY <3>1, <3>4, AllReceived
        <5>2. QED BY <3>4, <5>1
      <4>2. Delivery!Finish
        BY <1>2, <3>1, <3>4, <4>1 DEF Delivery!Finish, End
      <4>3. QED BY <4>2 DEF Delivery!Next
    <3>5. QED BY <2>3, <3>2, <3>3, <3>4, ReadStep
  <2>4. CASE CreateFile \/ (TailF /\ ~TailScan) \/ HearsClose \/ Logs \/ Receiver
    BY <1>2, <2>4, BehindTheScenes DEF Delivery!vars, End
  <2>5. CASE TailScan \/ UNCHANGED vars
    BY <1>2, <2>5 DEF TailScan, TailOnly, vars, readerVars, Delivery!vars, End
  <2>6. QED BY <2>1, <2>2, <2>3, <2>4, <2>5 DEF Next
<1>3. QED BY <1>1, <1>2

LEMMA InvStep ==
  ASSUME LinesFit, IInv, [Next]_vars
  PROVE  IInv'
<1>1. BaseOK' /\ TailOK' /\ EndOK'
  BY BaseStep, TailPhases, EndPhases DEF IInv
<1>2. CacheOK' /\ (caller' = "reading" => FlowOK')
  BY CacheStep, FlowStep
<1>3. DeliversInOrder'
  <2>1. CASE WriteLine
    <3>1. out \in Seq(Byte) /\ out' = out /\ Delivery!InOrder(out)
      BY <2>1, StreamType DEF WriteLine, readerVars, IInv, DeliversInOrder
    <3>2. Delivery!InOrder(out)'
      BY <2>1, <3>1, StillInOrder DEF IInv
    <3>3. QED BY <3>2 DEF DeliversInOrder
  <2>2. CASE Read
    <3>1. UNCHANGED <<opts, file>> /\ (out' = out \/ Delivery!Receives)
      BY <2>2, ReadStep
    <3>2. Delivery!InOrder(out')
      BY <3>1 DEF Delivery!Receives, IInv, DeliversInOrder
    <3>3. QED BY <3>1, <3>2 DEF DeliversInOrder, Delivery!InOrder, Delivery!Succeeds,
                 Delivery!Wanted, Delivery!Skipped
  <2>3. CASE ~WriteLine /\ ~Read
    <3>1. UNCHANGED <<opts, file, out>>
      <4>1. CASE CreateFile \/ (TailF /\ ~TailScan) \/ HearsClose \/ Logs \/ Receiver
        BY <4>1, BehindTheScenes
      <4>2. CASE TailScan \/ Leave \/ UNCHANGED vars
        BY <4>2 DEF TailScan, TailOnly, Leave, vars, readerVars
      <4>3. QED BY <2>3, <4>1, <4>2 DEF Next
    <3>2. QED BY <3>1 DEF IInv, DeliversInOrder, Delivery!InOrder, Delivery!Succeeds,
                 Delivery!Wanted, Delivery!Skipped
  <2>4. QED BY <2>1, <2>2, <2>3
<1>4. QED BY <1>1, <1>2, <1>3 DEF IInv

\* As long as lines fit the buffer of Read, what the caller has received are
\* lines of its container as they are in the file, none left out in between.
THEOREM LogsInOrder == ASSUME LinesFit PROVE Spec => []DeliversInOrder
<1>1. Init => IInv
  BY InitFlow
<1>2. IInv /\ [Next]_vars => IInv'
  BY InvStep
<1>3. IInv => DeliversInOrder
  BY DEF IInv
<1>4. QED BY <1>1, <1>2, <1>3, PTL DEF Spec

\* As long as lines fit the buffer of Read, the goroutines, channels and buffers
\* of both sides do for the caller what LogDelivery promises: nothing is lost,
\* repeated or reordered on the way, and without a limit the end comes after
\* the last line that was in the file when the agent found its end.
THEOREM LogsDelivered == ASSUME LinesFit PROVE Spec => ImplementsDelivery
<1>1. Init => IInv /\ Delivery!Init
  <2>1. Init => Delivery!Init
    BY DEF Init, Delivery!Init, AtEnd
  <2>2. QED BY <2>1, InitFlow
<1>2. IInv /\ [Next]_vars => IInv' /\ [Delivery!Next]_(Delivery!vars)
  BY InvStep, StepRefines
<1>3. QED BY <1>1, <1>2, PTL DEF Spec, ImplementsDelivery, Delivery!Spec
=============================================================================
