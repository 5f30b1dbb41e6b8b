---------------------------- MODULE LogDelivery -----------------------------
(***************************************************************************)
(* What the log API promises to a caller of `kubectl logs`, without the    *)
(* goroutines, channels and buffers that LogStream has for it: the job     *)
(* writes lines, at some moment a request that does not follow finds the   *)
(* end of the file, and the caller receives bytes until it has enough.     *)
(***************************************************************************)
EXTENDS Naturals, Sequences, SequencesExt

CONSTANTS
  LineKind,  \* lines: [mine, old : BOOLEAN, size : Nat], as the caller asks for them
  Option     \* requests: [follow, since : BOOLEAN, tail, limit : Nat]

VARIABLES
  opts,    \* the request
  file,    \* the lines of the job
  end,     \* <<number of lines>> once a request that does not follow has found the end
  out,     \* the bytes received: pairs of a line's number and a place in it
  caller   \* "reading", "ended" or "gone"

vars == <<opts, file, end, out, caller>>

\* The number of latest lines wins over the age.
Skipped(l) == opts.tail = 0 /\ opts.since /\ file[l].old

\* The lines of the container that the caller asks for, by number.
Wanted == {l \in 1..Len(file) : file[l].mine /\ ~Skipped(l)}

Text(l) == [i \in 1..file[l].size |-> <<l, i>>]

\* Byte b comes after byte a: in the same line, or at the start of the next one.
Succeeds(b, a) ==
  \/ b[1] = a[1] /\ b[2] = a[2] + 1
  \/ /\ a[2] = file[a[1]].size /\ b[2] = 1
     /\ a[1] < b[1] /\ \A l \in Wanted : l <= a[1] \/ l >= b[1]

\* These bytes are lines as they are in the file, none left out in between:
\* from the first one, unless only the latest were asked for.
InOrder(bytes) ==
  /\ \A i \in 1..Len(bytes) :
       /\ bytes[i][1] \in Wanted /\ bytes[i][2] \in 1..file[bytes[i][1]].size
       /\ i > 1 => Succeeds(bytes[i], bytes[i - 1])
  /\ bytes # <<>> =>
       bytes[1][2] = 1 /\ (opts.tail = 0 => \A l \in Wanted : bytes[1][1] <= l)

LinesOf(bytes) == {bytes[i][1] : i \in 1..Len(bytes)}

\* The last n of these numbers, or all of fewer.
AreLatest(ls, all, n) ==
  /\ ls \subseteq all
  /\ \A l \in all \ ls, m \in ls : l < m
  /\ IF n < Cardinality(all) THEN Cardinality(ls) = n ELSE ls = all

\* All that a request that does not follow is to receive.
Complete(bytes) ==
  LET all == {l \in Wanted : l <= end[1]}
  IN /\ IF opts.tail > 0 THEN AreLatest(LinesOf(bytes), all, opts.tail)
        ELSE LinesOf(bytes) = all
     /\ bytes # <<>> => bytes[Len(bytes)][2] = file[bytes[Len(bytes)][1]].size

Init == opts \in Option /\ file = <<>> /\ end = <<>> /\ out = <<>> /\ caller = "reading"

Write ==
  /\ \E l \in LineKind : file' = Append(file, l)
  /\ UNCHANGED <<opts, end, out, caller>>

FindEnd ==
  /\ ~opts.follow /\ end = <<>> /\ end' = <<Len(file)>>
  /\ UNCHANGED <<opts, file, out, caller>>

Receives == IsPrefix(out, out') /\ InOrder(out')

Deliver == caller = "reading" /\ Receives /\ UNCHANGED <<opts, file, end, caller>>

\* The end may come with the last bytes.  Without a limit it comes when there
\* is nothing more to receive; whoever follows without one sees it never.
Finish ==
  /\ caller = "reading" /\ caller' = "ended" /\ Receives
  /\ opts.limit = 0 => end # <<>> /\ Complete(out')
  /\ UNCHANGED <<opts, file, end>>

Leave == caller = "reading" /\ caller' = "gone" /\ UNCHANGED <<opts, file, end, out>>

Next == Write \/ FindEnd \/ Deliver \/ Finish \/ Leave

Spec == Init /\ [][Next]_vars
=============================================================================
