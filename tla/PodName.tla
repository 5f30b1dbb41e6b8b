------------------------------ MODULE PodName -------------------------------
(***************************************************************************)
(* The name of the Pod of a job (podName and toLowerRFC1123 in             *)
(* controller/pkg/workload/conversion.go), rune by rune.  A rune is a      *)
(* string; one of each class that the code tells apart is enough.          *)
(***************************************************************************)
EXTENDS Integers, Sequences, SequencesExt

CONSTANT MaxLen   \* runes in a Pod name (63 in the code)

ASSUME MaxLenAssumption == MaxLen \in Nat

Letter == {"a"}
Latin  == {"sz"}     \* letters of Latin-1 that are not in ASCII
Digit  == <<"0", "1", "2", "3", "4", "5", "6", "7", "8", "9">>
Digits == {Digit[i] : i \in DOMAIN Digit}
Rune   == {"A", "_"} \cup Letter \cup Latin \cup Digits

\* strings.ToLower
ToLower(c) == IF c = "A" THEN "a" ELSE c

\* What fmt prints for a number below 100.
Decimal(n) == IF n < 10 THEN <<Digit[n + 1]>> ELSE <<Digit[(n \div 10) + 1], Digit[(n % 10) + 1]>>

\* strings.Trim: there is never more than one dash at either end.
TrimDash(s) ==
  LET t == IF s # <<>> /\ Head(s) = "-" THEN Tail(s) ELSE s
  IN IF t # <<>> /\ Last(t) = "-" THEN Front(t) ELSE t

\* One turn of the loop: letters and digits are kept, anything else becomes a
\* dash, several in a row one dash; at maxLen the loop is left.
Convert(result, c, maxLen) ==
  IF maxLen > 0 /\ Len(result) = maxLen THEN result
  ELSE IF ToLower(c) \in Letter \cup Latin \cup Digits THEN Append(result, ToLower(c))
  ELSE IF result # <<>> /\ Last(result) = "-" THEN result
  ELSE Append(result, "-")

\* What the loop has made of the first runes of the input, for each number of them.
Converted(input, maxLen) ==
  LET result[i \in 0..Len(input)] ==
        IF i = 0 THEN <<>> ELSE Convert(result[i - 1], input[i], maxLen)
  IN result

toLowerRFC1123(input, maxLen) == TrimDash(Converted(input, maxLen)[Len(input)])

\* Mutant: the room for the index is forgotten.
podNameTooLong(id, name, index) ==
  LET prefix == toLowerRFC1123(id, -1) \o <<"-">>
  IN prefix \o toLowerRFC1123(name, MaxLen - Len(prefix)) \o <<"-">> \o Decimal(index)

\* Mutant: the whole name is cut to its length.
podNameCut(id, name, index) ==
  LET whole == toLowerRFC1123(id, -1) \o <<"-">> \o toLowerRFC1123(name, -1) \o <<"-">> \o Decimal(index)
  IN IF Len(whole) > MaxLen THEN SubSeq(whole, 1, MaxLen) ELSE whole

podName(id, name, index) ==
  LET prefix == toLowerRFC1123(id, -1) \o <<"-">>
      suffix == <<"-">> \o Decimal(index)
  IN prefix \o toLowerRFC1123(name, MaxLen - Len(prefix) - Len(suffix)) \o suffix

\* What Kubernetes accepts as the name of a Pod: an RFC 1123 label.
IsLabel(s) ==
  /\ Len(s) \in 1..MaxLen
  /\ \A i \in DOMAIN s : s[i] \in Letter \cup Digits \cup {"-"}
  /\ Head(s) # "-" /\ Last(s) # "-"
=============================================================================
