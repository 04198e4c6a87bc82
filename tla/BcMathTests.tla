---------------------------- MODULE BcMathTests ----------------------------
(***************************************************************************)
(* Calls of the bc functions on short numbers, and what the results are as *)
(* exact integers: a number is a numerator n over 10^s.                    *)
(***************************************************************************)
EXTENDS BcMath

Literals == {"0", "1", "-1", "2", "-7", "9", "10", "99", "-100", "105", "0.5", "-0.05", "1.50",
             "9.99", "-9.95", "0.9", "007.0", "+3.1", " 12 ", "-0.0"}
BadLiterals == {"", ".", "1e2", "1.2.3", "--1", "1 2"}
Bases == {"0", "1", "-1", "2", "-7", "10", "0.5", "-0.05", "1.50", "9.9"}
Roots == {"0", "1", "2", "3.61", "10", "99", "144", "0.04", "500", "0.9"}
Wholes == {"0", "1", "2", "7", "-5", "8"}
BinaryNames == {"bcadd", "bcsub", "bcmul", "bcdiv", "bcmod", "bccomp"}
Modes == {"TowardsZero", "AwayFromZero", "NegativeInfinity", "PositiveInfinity",
          "HalfAwayFromZero", "HalfTowardsZero", "HalfEven", "HalfOdd"}
Halves == {"0.05", "-0.15", "2.5", "-3.5", "0.449", "-0.951", "99.95", "7", "-0.5"}

Call(name, x, y, z, scale) == [name |-> name, x |-> x, y |-> y, z |-> z, scale |-> scale]
BcTests ==
  {Call(f, x, y, "0", scale) : f \in BinaryNames, x \in Literals, y \in Literals, scale \in 0..2}
  \cup {Call(f, x, y, "0", 1) : f \in BinaryNames, x \in BadLiterals, y \in {"1"}}
  \cup {Call("bcsqrt", x, "0", "0", scale) : x \in Roots, scale \in 0..2}
  \cup {Call("bcpow", x, n, "0", scale) : x \in Bases, n \in {"0", "1", "2", "3", "-1", "-2"}, scale \in 0..2}
  \cup {Call(f, x, "0", "0", 0) : f \in {"bcfloor", "bcceil"}, x \in Literals}
  \cup {Call(mode, x, "0", "0", scale) : mode \in Modes, x \in Literals \cup Halves, scale \in 0..2}
  \cup {Call("bcpowmod", x, y, z, 0) : x \in Wholes, y \in Wholes \cup {"0.5"}, z \in Wholes}

IntOf(s) == IF s[1] = "-" THEN -NumberOf(Tail(s)) ELSE NumberOf(s)
BcAnswerFor(t, x, y, z) ==
  CASE NoDec \in {x, y, z} -> <<"ValueError">>
    [] t.name \in BinaryNames -> BcBinary(t.name, x, y, t.scale)
    [] t.name = "bcpowmod" -> BcPowMod(x, y, z, t.scale)
    [] OTHER -> BcUnary(t.name, x, IntOf(Chars(t.y)), t.scale)
BcAnswer(t) == BcAnswerFor(t, Parse(Chars(t.x)), Parse(Chars(t.y)), Parse(Chars(t.z)))

----------------------------------------------------------------------------
(* The exact results. *)

\* A literal as <<n, s>>.
Numerator(s) == NumberOf(SelectSeq(s, LAMBDA c : c \in Digits))
Exact(s) ==
  LET dot == Until(s, 1, {"."})
  IN <<IF "-" \in Range(s) THEN -Numerator(s) ELSE Numerator(s),
       IF dot > Len(s) THEN 0 ELSE Len(s) - dot>>
Abs(n) == IF n < 0 THEN -n ELSE n
SignOf(n) == IF n < 0 THEN -1 ELSE IF n = 0 THEN 0 ELSE 1
\* p / q without its fraction.
Quot(p, q) == SignOf(p) * SignOf(q) * (Abs(p) \div Abs(q))
Rem(p, q) == p - q * Quot(p, q)
Scaled(p, q, scale) == Quot(p * 10 ^ scale, q)

\* p / q rounded: among the integers around it, the one the mode picks.
Rounded(p, q, mode) ==
  LET low == p \div q
      high == IF low * q = p THEN low ELSE low + 1
      near == 2 * p - (low + high) * q
      outer == IF p < 0 THEN low ELSE high
      inner == IF p < 0 THEN high ELSE low
  IN CASE mode = "TowardsZero" -> inner
       [] mode = "AwayFromZero" -> outer
       [] mode = "NegativeInfinity" -> low
       [] mode = "PositiveInfinity" -> high
       [] near # 0 -> IF near < 0 THEN low ELSE high
       [] mode = "HalfAwayFromZero" -> outer
       [] mode = "HalfTowardsZero" -> inner
       [] mode = "HalfEven" -> IF low % 2 = 0 THEN low ELSE high
       [] mode = "HalfOdd" -> IF low % 2 = 1 THEN low ELSE high

Power(b, n) == IF n = 0 THEN 1 ELSE b ^ n
\* The result's numerator over 10^scale, with x = nx / dx and y = ny / dy.
BinaryResult(name, nx, dx, ny, dy, scale) ==
  CASE name = "bcadd" -> Scaled(nx * dy + ny * dx, dx * dy, scale)
    [] name = "bcsub" -> Scaled(nx * dy - ny * dx, dx * dy, scale)
    [] name = "bcmul" -> Scaled(nx * ny, dx * dy, scale)
    [] name = "bcdiv" -> Scaled(nx * dy, ny * dx, scale)
    [] name = "bcmod" -> Scaled(Rem(nx * dy, ny * dx), dx * dy, scale)
    [] name = "bccomp" -> SignOf(Scaled(nx, dx, scale) - Scaled(ny, dy, scale))
IsRoot(r, n, d, scale) ==
  r >= 0 /\ r * r * d <= n * 100 ^ scale /\ (r + 1) * (r + 1) * d > n * 100 ^ scale
IsResult(t, r, x, y, z) ==
  LET d == 10 ^ x[2] IN
  CASE t.name \in BinaryNames -> r = BinaryResult(t.name, x[1], d, y[1], 10 ^ y[2], t.scale)
    [] t.name = "bcsqrt" -> IsRoot(r, x[1], d, t.scale)
    [] t.name = "bcpow" -> r = IF y[1] >= 0 THEN Scaled(Power(x[1], y[1]), Power(d, y[1]), t.scale)
                               ELSE Scaled(Power(d, -y[1]), Power(x[1], -y[1]), t.scale)
    [] t.name = "bcpowmod" -> r = Rem(Power(x[1], y[1]), z[1])
    [] t.name = "bcfloor" -> r = x[1] \div d
    [] t.name = "bcceil" -> r = -((-x[1]) \div d)
    [] t.name \in Modes -> r = Rounded(x[1] * 10 ^ t.scale, d, t.name)
IllFormed(t, y) == t.x \in BadLiterals \/ (t.name = "bcpowmod" /\ (y[2] # 0 \/ y[1] < 0))
ByZeroIs(t, y, z) ==
  (t.name \in {"bcdiv", "bcmod"} /\ y[1] = 0) \/ (t.name = "bcpowmod" /\ z[1] = 0)
TooLargeIs(t, x, y) == t.name = "bcpow" /\ y[1] < 0 /\ x[1] = 0
Decimals(t) == IF t.name \in {"bcfloor", "bcceil", "bccomp"} THEN 0 ELSE t.scale
IsWritten(t, answer, r) ==
  r[2] = Decimals(t) /\ (r[1] = 0 => "-" \notin Range(answer))

Agrees(t, answer, x, y, z) ==
  CASE IllFormed(t, y) -> answer = <<"ValueError">>
    [] ~IllFormed(t, y) /\ ByZeroIs(t, y, z) -> answer = <<"DivisionByZeroError">>
    [] TooLargeIs(t, x, y) -> answer = <<"ValueError">>
    [] OTHER -> IsResult(t, Exact(answer)[1], x, y, z) /\ IsWritten(t, answer, Exact(answer))
\* "Pure integer digit math: ... long division truncated to the requested
\* scale": the digits of every function are those of the exact result, cut
\* or rounded as the function says, with exactly `scale` decimals and without
\* a minus sign on zero.
BcExact(t, answer) ==
  Agrees(t, answer, Exact(Chars(t.x)), Exact(Chars(t.y)), Exact(Chars(t.z)))
============================================================================
