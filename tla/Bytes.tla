------------------------------- MODULE Bytes -------------------------------
(***************************************************************************)
(* Byte strings, as sequences of byte codes, and their decimal readings.   *)
(* The algorithms that look inside a string (number prefixes, patterns,    *)
(* digit arithmetic) work on these.                                        *)
(***************************************************************************)
EXTENDS Integers, Sequences, SequencesExt

Plus == 43
Minus == 45
Dot == 46
Digits == 48..57
Blanks == {9, 10, 11, 12, 13, 32}

\* The first position from i on whose byte is not in C.
SpanEnd(s, i, C) ==
  LET stops == {j \in i..Len(s) : s[j] \notin C}
  IN IF stops = {} THEN Len(s) + 1 ELSE CHOOSE j \in stops : \A k \in stops : j <= k

TrimStart(s) == SubSeq(s, SpanEnd(s, 1, Blanks), Len(s))
Trim(s) == Reverse(TrimStart(Reverse(TrimStart(s))))

AllDigits(s) == \A i \in DOMAIN s : s[i] \in Digits
DigitsValue(s) == FoldLeft(LAMBDA n, d : 10 * n + d - 48, 0, s)

NatBytes(n) ==
  LET places == CHOOSE p \in 1..11 : n < 10 ^ p /\ (p = 1 \/ n >= 10 ^ (p - 1))
  IN [i \in 1..places |-> 48 + ((n \div (10 ^ (places - i))) % 10)]
IntBytes(n) == IF n < 0 THEN <<Minus>> \o NatBytes(-n) ELSE NatBytes(n)

Unsigned(s) == IF s # <<>> /\ s[1] \in {Plus, Minus} THEN Tail(s) ELSE s
Signed(s, n) == IF s # <<>> /\ s[1] = Minus THEN -n ELSE n
============================================================================
