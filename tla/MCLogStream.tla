---------------------------- MODULE MCLogStream -----------------------------
(* Instances of LogStream for TLC. *)
EXTENDS LogStream

ALine(mine, old, size) == [mine |-> mine, old |-> old, size |-> size]

\* With a buffer of 2, a line of 4 leaves the cache a remainder that fills the buffer.
SomeLines == {ALine(TRUE, FALSE, 4), ALine(TRUE, TRUE, 1), ALine(FALSE, FALSE, 1)}

\* A line of 3 leaves a remainder that does not.
LongLines == {ALine(TRUE, FALSE, 1), ALine(TRUE, FALSE, 3)}

Request(follow, since, n, limit) ==
  [follow |-> follow, since |-> since, tail |-> n, limit |-> limit]

Everything == {Request(FALSE, FALSE, 0, 0)}

\* The tail count overrides the age; the limit is independent of both.
SomeOptions ==
  {Request(f, FALSE, 0, 0) : f \in BOOLEAN} \cup
  {Request(TRUE, FALSE, 0, 2), Request(FALSE, TRUE, 1, 0), Request(TRUE, TRUE, 0, 0)}
=============================================================================
