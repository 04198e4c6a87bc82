------------------------------ MODULE CharText ------------------------------
(***************************************************************************)
(* Texts as sequences of characters, which are strings of length one.      *)
(* Chars splits a string, so that test inputs can be written as text; only *)
(* TLC evaluates it.                                                       *)
(***************************************************************************)
EXTENDS Integers, Sequences, SequencesExt, TLC

NoChar == ""
Chars(s) == [i \in 1..Len(s) |-> SubSeq(s, i, i)]

Backtick == "BT"     \* strings cannot hold one
Printable ==
  Chars(" !\"#$%&'(") \o Chars(")*+,-./0123456789:;<=>?@ABCDEFGHIJKLMNOPQRSTUVWXYZ[\\]^_") \o <<Backtick>>
  \o Chars("abcdefghijklmnopqrstuvwxyz{|}~")
Nul == "NUL"
VTab == "VT"
Code == [c \in {Printable[k] : k \in 1..95} |-> CHOOSE n \in 32..126 : Printable[n - 31] = c]
        @@ (Nul :> 0) @@ ("\t" :> 9) @@ ("\n" :> 10) @@ (VTab :> 11) @@ ("\f" :> 12) @@ ("\r" :> 13)
CharOf == [n \in {Code[c] : c \in DOMAIN Code} |-> CHOOSE c \in DOMAIN Code : Code[c] = n]

Digits == {c \in DOMAIN Code : Code[c] \in 48..57}
Uppers == {c \in DOMAIN Code : Code[c] \in 65..90}
Letters == Uppers \cup {c \in DOMAIN Code : Code[c] \in 97..122}
WordChars == Letters \cup Digits \cup {"_"}
Blanks == {" ", "\t", "\n", "\f", "\r"}
LowerOf == [c \in Uppers |-> CharOf[Code[c] + 32]]
Lower(c) == IF c \in Uppers THEN LowerOf[c] ELSE c
UpperOf == [c \in Letters \ Uppers |-> CharOf[Code[c] - 32]]
Upper(c) == IF c \in Letters \ Uppers THEN UpperOf[c] ELSE c

HexDigits == Digits \cup {"a", "b", "c", "d", "e", "f", "A", "B", "C", "D", "E", "F"}
HexDigit(c) == IF c \in Digits THEN Code[c] - 48 ELSE Code[Lower(c)] - 87
HexValue(s) == FoldLeft(LAMBDA n, c : 16 * n + HexDigit(c), 0, s)
NumberOf(s) == FoldLeft(LAMBDA n, c : 10 * n + Code[c] - 48, 0, s)

CharAt(s, i) == IF i \in DOMAIN s THEN s[i] ELSE NoChar
\* The first position from i on whose character is not in C, or is in C.
SpanEnd(s, i, C) ==
  LET stops == {j \in i..Len(s) : s[j] \notin C}
  IN IF stops = {} THEN Len(s) + 1 ELSE CHOOSE j \in stops : \A k \in stops : j <= k
Until(s, i, C) ==
  LET stops == {j \in i..Len(s) : s[j] \in C}
  IN IF stops = {} THEN Len(s) + 1 ELSE CHOOSE j \in stops : \A k \in stops : j <= k
=============================================================================
