------------------------------- MODULE BcMath -------------------------------
(***************************************************************************)
(* Decimal numbers of any length, as bcmath.rs keeps them: a sign, digits   *)
(* with the least significant first, and how many of them are decimals.    *)
(* NoDec is what a text that is no number, a division by zero and a result *)
(* with too many digits give.                                              *)
(***************************************************************************)
EXTENDS CharText

CONSTANTS MaxDigits,        \* MAX_DIGITS
          NewtonRounds      \* iterations of the square root

Dec(neg, digits, scale) == [neg |-> neg, digits |-> digits, scale |-> scale]
NoDec == Dec(FALSE, <<>>, 0)
Zeros(n) == [i \in 1..n |-> 0]
AllZero(digits) == \A i \in DOMAIN digits : digits[i] = 0
IsZero(d) == AllZero(d.digits)
Bigger(m, n) == IF m >= n THEN m ELSE n
Smaller(m, n) == IF m <= n THEN m ELSE n

\* Without leading zeros, but with one digit before the point when there is
\* one; zero has no sign.
Significant(digits, least) ==
  SubSeq(digits, 1, Bigger(least, SelectLastInSeq(digits, LAMBDA g : g # 0)))
Trim(d) ==
  Dec(d.neg /\ ~IsZero(d), Significant(d.digits, Smaller(Len(d.digits), d.scale + 1)), d.scale)

SomeDigits(digits) == IF digits = <<>> THEN <<0>> ELSE digits
WithScale(d, scale) ==
  Trim(Dec(d.neg, IF scale >= d.scale THEN Zeros(scale - d.scale) \o d.digits
                  ELSE SomeDigits(SubSeq(d.digits, d.scale - scale + 1, Len(d.digits))), scale))

----------------------------------------------------------------------------
(* Texts. *)

DigitCodes(s) == [i \in DOMAIN s |-> Code[s[i]] - 48]
Trimmed(s) == SubSeq(s, SpanEnd(s, 1, Blanks), Len(s) - SpanEnd(Reverse(s), 1, Blanks) + 1)
ParseParts(neg, whole, fraction) ==
  LET digits == DigitCodes(Reverse(whole \o fraction))
  IN IF digits = <<>> \/ Len(digits) > MaxDigits \/ ~(Range(whole) \cup Range(fraction) \subseteq Digits)
     THEN NoDec ELSE Trim(Dec(neg, digits, Len(fraction)))
ParseUnsigned(neg, s) ==
  LET dot == Until(s, 1, {"."}) IN ParseParts(neg, SubSeq(s, 1, dot - 1), SubSeq(s, dot + 1, Len(s)))
ParseTrimmed(s) ==
  IF CharAt(s, 1) \in {"-", "+"} THEN ParseUnsigned(s[1] = "-", Tail(s)) ELSE ParseUnsigned(FALSE, s)
Parse(s) == ParseTrimmed(Trimmed(s))

Written(d) ==
  LET chars == [i \in DOMAIN d.digits |-> CharOf[48 + d.digits[i]]]
  IN (IF d.neg THEN <<"-">> ELSE <<>>) \o Reverse(SubSeq(chars, d.scale + 1, Len(chars)))
     \o (IF d.scale > 0 THEN <<".">> \o Reverse(SubSeq(chars, 1, d.scale)) ELSE <<>>)
ToStringScaled(d, scale) == Written(WithScale(d, scale))

----------------------------------------------------------------------------
(* Magnitudes. *)

RECURSIVE CarryDigits(_)
CarryDigits(carry) == IF carry = 0 THEN <<>> ELSE <<carry % 10>> \o CarryDigits(carry \div 10)
\* The digits of a sum whose columns may be anything; a borrow is a carry
\* of -1.
Carried(columns) ==
  LET step(acc, column) == <<Append(acc[1], (column + acc[2]) % 10), (column + acc[2]) \div 10>>
      sum == FoldLeft(step, <<<<>>, 0>>, columns)
  IN sum[1] \o CarryDigits(sum[2])

DigitAt(x, i) == IF i \in DOMAIN x THEN x[i] ELSE 0
Added(x, y, sign) ==
  Carried([i \in 1..Bigger(Len(x), Len(y)) |-> DigitAt(x, i) + sign * DigitAt(y, i)])
Below(x, y) ==
  \E i \in DOMAIN x \cup DOMAIN y :
    /\ DigitAt(x, i) < DigitAt(y, i)
    /\ \A j \in (DOMAIN x \cup DOMAIN y) : j > i => DigitAt(x, j) = DigitAt(y, j)
MulSmall(x, m) == Carried([i \in DOMAIN x |-> x[i] * m])
MulMag(x, y) ==
  Carried([k \in 1..(Len(x) + Len(y)) |->
             MapThenSumSet(LAMBDA i : x[i] * DigitAt(y, k + 1 - i), DOMAIN x)])

\* Long division: the remainder takes the next digit, and the digit of the
\* quotient is the last one whose successor is too much.
QuotientDigit(rem, den) ==
  CHOOSE q \in 0..9 : /\ \A t \in 1..q : ~Below(rem, MulSmall(den, t))
                      /\ q = 9 \/ Below(rem, MulSmall(den, q + 1))
Divided(acc, rem, den, q) == <<<<q>> \o acc, Added(rem, MulSmall(den, q), -1)>>
DivStep(acc, rem, den) == Divided(acc, rem, den, QuotientDigit(rem, den))
DivMag(num, den) ==
  FoldLeft(LAMBDA acc, digit : DivStep(acc[1], Significant(<<digit>> \o acc[2], 1), den),
           <<<<>>, <<>>>>, Reverse(num))[1]

----------------------------------------------------------------------------
(* Operations. *)

\* Mutant: the sign is the first number's, also when the second is larger.
AddAlignedFirst(a, b, scale) ==
  Trim(CASE a.neg = b.neg -> Dec(a.neg, Added(a.digits, b.digits, 1), scale)
         [] a.neg # b.neg /\ Below(a.digits, b.digits) -> Dec(a.neg, Added(b.digits, a.digits, -1), scale)
         [] OTHER -> Dec(a.neg, Added(a.digits, b.digits, -1), scale))
AddAligned(a, b, scale) ==
  Trim(CASE a.neg = b.neg -> Dec(a.neg, Added(a.digits, b.digits, 1), scale)
         [] a.neg # b.neg /\ Below(a.digits, b.digits) -> Dec(b.neg, Added(b.digits, a.digits, -1), scale)
         [] OTHER -> Dec(a.neg, Added(a.digits, b.digits, -1), scale))
AddAt(a, b, scale) == AddAligned(WithScale(a, scale), WithScale(b, scale), scale)
Add(a, b) == AddAt(a, b, Bigger(a.scale, b.scale))
Sub(a, b) == Add(a, [b EXCEPT !.neg = ~@])
Sign(d) == IF IsZero(d) THEN 0 ELSE IF d.neg THEN -1 ELSE 1
Cmp(a, b) == Sign(Sub(a, b))
Mul(a, b) ==
  IF NoDec \in {a, b} \/ Len(a.digits) + Len(b.digits) > MaxDigits THEN NoDec
  ELSE Trim(Dec(a.neg # b.neg, MulMag(a.digits, b.digits), a.scale + b.scale))

\* The numerator shifted so that the quotient has `scale` decimals.
Shifted(digits, shift) ==
  IF shift >= 0 THEN Zeros(shift) \o digits ELSE SomeDigits(SubSeq(digits, 1 - shift, Len(digits)))
Div(a, b, scale) ==
  LET shift == b.scale + scale - a.scale
  IN IF NoDec \in {a, b} \/ IsZero(b) \/ Len(a.digits) + shift > MaxDigits THEN NoDec
     ELSE Trim(Dec(a.neg # b.neg, DivMag(Shifted(a.digits, shift), Significant(b.digits, 1)), scale))
Rest(a, b, product, scale) ==
  IF product = NoDec THEN NoDec
  ELSE WithScale(Sub(a, product), Bigger(scale, Bigger(a.scale, b.scale)))
Modulo(a, b, scale) == Rest(a, b, Mul(Div(a, b, 0), b), scale)

One == Dec(FALSE, <<1>>, 0)
Two == Dec(FALSE, <<2>>, 0)
RECURSIVE PowLoop(_, _, _)
PowLoop(acc, base, n) ==
  IF n = 0 \/ acc = NoDec \/ base = NoDec THEN (IF n = 0 THEN acc ELSE NoDec)
  ELSE PowLoop(IF n % 2 = 1 THEN Mul(acc, base) ELSE acc,
               IF n > 1 THEN Mul(base, base) ELSE base, n \div 2)
PowScaled(acc, a, scale) ==
  IF acc = NoDec THEN NoDec
  ELSE WithScale(acc, Bigger(scale, Smaller(acc.scale, Bigger(scale, a.scale))))
Pow(a, n, scale) ==
  CASE n = 0 -> WithScale(One, scale)
    [] n > 0 /\ Len(a.digits) * n > MaxDigits -> NoDec
    [] OTHER -> PowScaled(PowLoop(One, a, n), a, scale)

RECURSIVE Newton(_, _, _, _)
NewtonNext(a, x, next, work, rounds) ==
  IF next = NoDec \/ Cmp(next, x) = 0 THEN (IF next = NoDec THEN NoDec ELSE x)
  ELSE Newton(a, next, work, rounds - 1)
Halved(sum, work) == IF sum = NoDec THEN NoDec ELSE Div(sum, Two, work)
Newton(a, x, work, rounds) ==
  IF rounds = 0 THEN x
  ELSE LET ax == Div(a, x, work)
       IN NewtonNext(a, x, Halved(IF ax = NoDec THEN NoDec ELSE Add(x, ax), work), work, rounds)
Guess(a, half, work) == IF IsZero(half) THEN WithScale(a, work) ELSE half
SqrtScaled(x, scale) == IF x = NoDec THEN NoDec ELSE WithScale(x, scale)
Sqrt(a, scale) ==
  CASE a.neg -> NoDec
    [] IsZero(a) -> WithScale(Dec(FALSE, <<0>>, 0), scale)
    [] OTHER -> SqrtScaled(Newton(a, Guess(a, Div(a, Two, scale + 2), scale + 2), scale + 2,
                                  NewtonRounds), scale)

FloorFrom(a, t) == IF a.neg /\ Cmp(t, a) # 0 THEN Sub(t, One) ELSE t
Floor(a) == FloorFrom(a, WithScale(a, 0))
CeilFrom(a, t) == IF ~a.neg /\ Cmp(t, a) # 0 THEN Add(t, One) ELSE t
Ceil(a) == CeilFrom(a, WithScale(a, 0))

\* Whether what truncation cut off, against a half, takes the last digit one
\* further from zero.
Bumps(mode, a, t, half) ==
  CASE mode = "TowardsZero" -> FALSE
    [] mode = "AwayFromZero" -> TRUE
    [] mode = "NegativeInfinity" -> a.neg
    [] mode = "PositiveInfinity" -> ~a.neg
    [] mode = "HalfAwayFromZero" -> half # -1
    [] mode = "HalfTowardsZero" -> half = 1
    [] mode \in {"HalfEven", "HalfOdd"} ->
         half = 1 \/ (half = 0 /\ (mode = "HalfEven") # (t.digits[1] % 2 = 0))
RoundFrom(a, t, cut, precision, mode) ==
  IF IsZero(cut) \/ ~Bumps(mode, a, t, Cmp([cut EXCEPT !.neg = FALSE], Dec(FALSE, <<5>>, precision + 1)))
  THEN t ELSE Add(t, Dec(a.neg, <<1>>, precision))
RoundAt(a, t, precision, mode) ==
  IF a.scale <= precision THEN t ELSE RoundFrom(a, t, Sub(a, t), precision, mode)
RoundMode(a, precision, mode) == RoundAt(a, WithScale(a, precision), precision, mode)

RECURSIVE PowModLoop(_, _, _, _)
PowModBy(result, b, e, half, m) ==
  PowModLoop(IF Cmp(Mul(half, Two), e) # 0 THEN Modulo(Mul(result, b), m, 0) ELSE result,
             Modulo(Mul(b, b), m, 0), half, m)
PowModLoop(result, b, e, m) == IF IsZero(e) THEN result ELSE PowModBy(result, b, e, Div(e, Two, 0), m)
PowMod(base, exp, m) ==
  IF IsZero(m) \/ exp.neg THEN NoDec
  ELSE PowModLoop(Modulo(One, WithScale(m, 0), 0), Modulo(WithScale(base, 0), WithScale(m, 0), 0),
                  WithScale(exp, 0), WithScale(m, 0))

----------------------------------------------------------------------------
(* The functions; an error is named by the class that is thrown.  `scale`   *)
(* is the argument or what bcscale() left. *)

Rendered(r, scale, error) == IF r = NoDec THEN <<error>> ELSE ToStringScaled(r, scale)
TooLarge == "ValueError"
ByZero == "DivisionByZeroError"
PowNegative(a, n, scale) ==
  LET p == Pow(a, n, Bigger(scale, a.scale) + 10) IN IF p = NoDec THEN NoDec ELSE Div(One, p, scale)
BcBinary(name, x, y, scale) ==
  CASE name = "bccomp" -> Chars(ToString(Cmp(WithScale(x, scale), WithScale(y, scale))))
    [] name = "bcadd" -> Rendered(Add(x, y), scale, TooLarge)
    [] name = "bcsub" -> Rendered(Sub(x, y), scale, TooLarge)
    [] name = "bcmul" -> Rendered(Mul(x, y), scale, TooLarge)
    [] name = "bcdiv" -> Rendered(Div(x, y, scale), scale, ByZero)
    [] name = "bcmod" -> Rendered(Modulo(x, y, scale), scale, ByZero)
BcUnary(name, x, n, scale) ==
  CASE name = "bcpow" ->
         Rendered(IF n >= 0 THEN Pow(x, n, scale) ELSE PowNegative(x, -n, scale), scale, TooLarge)
    [] name = "bcsqrt" -> Rendered(Sqrt(x, scale), scale, "ValueError")
    [] name = "bcfloor" -> ToStringScaled(Floor(x), 0)
    [] name = "bcceil" -> ToStringScaled(Ceil(x), 0)
    [] OTHER -> ToStringScaled(RoundMode(x, scale, name), scale)
HasFraction(d) == Cmp(d, WithScale(d, 0)) # 0
BcPowMod(b, e, m, scale) ==
  IF HasFraction(b) \/ HasFraction(e) \/ HasFraction(m) \/ e.neg THEN <<"ValueError">>
  ELSE Rendered(PowMod(b, e, m), scale, ByZero)
=============================================================================
