-------------------------- MODULE VmCompileProofs --------------------------
(***************************************************************************)
(* Proofs about the compiler: the code of every body it accepts, however   *)
(* large and however nested, is Verified.  The heights of the two stacks   *)
(* before each operation are put together the way the code is: by the      *)
(* construct, from those of its parts.                                     *)
(***************************************************************************)
EXTENDS VmChunks, LeastNumbers, SequenceTheorems

IsSeq(s) == \E S : s \in Seq(S)

\* How many operands there are, and how many iterators.
Height == Nat \X Nat
Nowhere == <<-1, -1>>

\* The heights at which a statement breaks and continues the loop around it.
Leaves == (Height \cup {Nowhere}) \X (Height \cup {Nowhere})

After(op, g, way) == <<g[1] - Operands(op) + Results(op), g[2] + way[2]>>

\* Heights for the operations of a piece of code and for its end.  A way that
\* leads out of the code is among the exits X: how far from its start it leads,
\* and with which height.
Leads(h, t, g, X) == (t \in DOMAIN h /\ h[t] = g) \/ <<t, g>> \in X
Goes(op, k, h, X) ==
  /\ op[1] \notin {"Bail", "Break", "Continue"}
  /\ Proper(op) /\ Served(op, h[k][1], h[k][2])
  /\ \A way \in Ways(op) : way \in Int \X Int /\ Leads(h, k + way[1], After(op, h[k], way), X)
Fits(op, k, h, X, L) ==
  \/ op = <<"Bail">>
  \/ op = <<"Break">> /\ h[k] = L[1]
  \/ op = <<"Continue">> /\ h[k] = L[2]
  \/ Goes(op, k, h, X)
Heights(code, h, X, L) ==
  /\ IsSeq(code) /\ Len(code) \in Nat /\ h \in [1..(Len(code) + 1) -> Height]
  /\ \A k \in 1..Len(code) : Fits(code[k], k, h, X, L)

\* The code takes the stacks from height a to height b.
Takes(code, a, b, X, L) ==
  \E h : Heights(code, h, X, L) /\ h[1] = a /\ h[Len(code) + 1] = b

----------------------------------------------------------------------------
(* Pieces in a row. *)

\* One piece after another.
LEMMA Concatenated ==
  ASSUME NEW s, NEW t, IsSeq(s), IsSeq(t)
  PROVE  /\ IsSeq(s \o t) /\ Len(s) \in Nat /\ Len(t) \in Nat /\ Len(s \o t) = Len(s) + Len(t)
         /\ \A i \in 1..(Len(s) + Len(t)) : (s \o t)[i] = IF i <= Len(s) THEN s[i] ELSE t[i - Len(s)]
<1>1. PICK S : s \in Seq(S)
  BY DEF IsSeq
<1>2. PICK T : t \in Seq(T)
  BY DEF IsSeq
<1>3. s \in Seq(S \cup T) /\ t \in Seq(S \cup T)
  BY <1>1, <1>2, SeqMonotonic
<1> HIDE <1>1, <1>2
<1>4. s \o t \in Seq(S \cup T)
  BY <1>3, ConcatProperties
<1>5. IsSeq(s \o t)
  BY <1>4 DEF IsSeq
<1>6. QED
  BY <1>3, <1>5, ConcatProperties, LenProperties

\* Three pieces in a row, either way.
LEMMA Regrouped ==
  ASSUME NEW s, NEW t, NEW u, IsSeq(s), IsSeq(t), IsSeq(u)
  PROVE  (s \o t) \o u = s \o (t \o u)
<1>1. PICK S : s \in Seq(S)
  BY DEF IsSeq
<1>2. PICK T : t \in Seq(T)
  BY DEF IsSeq
<1>3. PICK U : u \in Seq(U)
  BY DEF IsSeq
<1>4. s \in Seq(S \cup T \cup U) /\ t \in Seq(S \cup T \cup U) /\ u \in Seq(S \cup T \cup U)
  BY <1>1, <1>2, <1>3, SeqMonotonic
<1>5. QED
  BY <1>4, ConcatAssociative

\* The heights of two pieces in a row.
Spliced(h1, n1, h2, n2) == [k \in 1..(n1 + n2 + 1) |-> IF k <= n1 THEN h1[k] ELSE h2[k - n1]]

\* An operation keeps its place in a longer code whose heights h are those of its
\* own code, d further on, and whose exits are the ones that stay open.
LEMMA Moved ==
  ASSUME NEW op, NEW k \in Nat, NEW d \in Int, NEW n \in Nat, NEW g \in [1..(n + 1) -> Height], NEW h, NEW X, NEW Y, NEW L,
         Fits(op, k, g, X, L), k \in 1..n,
         \A i \in 1..(n + 1) : i + d \in DOMAIN h /\ h[i + d] = g[i],
         \A t \in Int : \A a : <<t, a>> \in X => Leads(h, t + d, a, Y)
  PROVE  Fits(op, k + d, h, Y, L)
<1>1. h[k + d] = g[k] /\ k \in 1..(n + 1)
  OBVIOUS
<1>2. CASE Goes(op, k, g, X)
  <2>1. Proper(op) /\ Served(op, h[k + d][1], h[k + d][2]) /\ op[1] \notin {"Bail", "Break", "Continue"}
    BY <1>1, <1>2 DEF Goes
  <2>2. ASSUME NEW way \in Ways(op)
        PROVE  way \in Int \X Int /\ Leads(h, k + d + way[1], After(op, h[k + d], way), Y)
    <3> DEFINE a == After(op, g[k], way)
               t == k + way[1]
    <3>1. way \in Int \X Int /\ Leads(g, t, a, X)
      BY <1>2, <2>2 DEF Goes
    <3>2. t \in Int /\ t + d = k + d + way[1] /\ a = After(op, h[k + d], way)
      BY <1>1, <3>1
    <3> HIDE DEF a, t
    <3>3. CASE t \in DOMAIN g /\ g[t] = a
      <4>1. t \in 1..(n + 1)
        BY <3>3
      <4>2. t + d \in DOMAIN h /\ h[t + d] = a
        BY <4>1, <3>3
      <4>3. QED
        BY <4>2, <3>1, <3>2 DEF Leads
    <3>4. CASE <<t, a>> \in X
      <4>1. Leads(h, t + d, a, Y)
        BY <3>2, <3>4
      <4>2. QED
        BY <4>1, <3>1, <3>2
    <3>5. QED
      BY <3>1, <3>3, <3>4 DEF Leads
  <2>3. QED
    BY <2>1, <2>2 DEF Fits, Goes
<1>3. CASE op = <<"Bail">> \/ (op = <<"Break">> /\ g[k] = L[1]) \/ (op = <<"Continue">> /\ g[k] = L[2])
  BY <1>1, <1>3 DEF Fits
<1>4. QED
  BY <1>2, <1>3 DEF Fits

\* Two pieces in a row.  An exit of one may lead into the other.
LEMMA SplicedHeights ==
  ASSUME NEW s, NEW t, NEW h1, NEW h2, NEW X1, NEW X2, NEW X, NEW L,
         Heights(s, h1, X1, L), Heights(t, h2, X2, L), h1[Len(s) + 1] = h2[1],
         NEW h, h = Spliced(h1, Len(s), h2, Len(t)),
         \A i \in Int : \A a : <<i, a>> \in X1 => Leads(h, i, a, X),
         \A i \in Int : \A a : <<i, a>> \in X2 => Leads(h, i + Len(s), a, X)
  PROVE  Heights(s \o t, h, X, L) /\ h[1] = h1[1] /\ h[Len(s \o t) + 1] = h2[Len(t) + 1]
<1> DEFINE m == Len(s)
           n == Len(t)
<1>1. /\ IsSeq(s \o t) /\ m \in Nat /\ n \in Nat /\ Len(s \o t) = m + n
      /\ \A i \in 1..(m + n) : (s \o t)[i] = IF i <= m THEN s[i] ELSE t[i - m]
  BY Concatenated DEF Heights
<1>2. /\ h1 \in [1..(m + 1) -> Height] /\ (\A k \in 1..m : Fits(s[k], k, h1, X1, L))
      /\ h2 \in [1..(n + 1) -> Height] /\ (\A k \in 1..n : Fits(t[k], k, h2, X2, L))
  BY DEF Heights
<1>a. h = Spliced(h1, m, h2, n) /\ h1[m + 1] = h2[1]
  OBVIOUS
<1>b. /\ \A i \in Int : \A a : <<i, a>> \in X1 => Leads(h, i, a, X)
      /\ \A i \in Int : \A a : <<i, a>> \in X2 => Leads(h, i + m, a, X)
  OBVIOUS
<1> HIDE DEF m, n
<1>3. h \in [1..(m + n + 1) -> Height]
  BY <1>1, <1>2, <1>a DEF Spliced
<1>4. \A i \in 1..(m + 1) : i \in DOMAIN h /\ h[i] = h1[i]
  BY <1>1, <1>2, <1>a DEF Spliced
<1>5. \A i \in 1..(n + 1) : i + m \in DOMAIN h /\ h[i + m] = h2[i]
  BY <1>1, <1>2, <1>a DEF Spliced
<1>6. ASSUME NEW k \in 1..(m + n) PROVE Fits((s \o t)[k], k, h, X, L)
  <2>1. CASE k <= m
    <3>1. Fits(s[k], k, h1, X1, L) /\ k \in 1..m
      BY <1>1, <1>2, <2>1
    <3>2. \A i \in Int : \A a : <<i, a>> \in X1 => Leads(h, i + 0, a, X)
      BY <1>b
    <3>3. \A i \in 1..(m + 1) : i + 0 \in DOMAIN h /\ h[i + 0] = h1[i]
      BY <1>1, <1>4
    <3>4. Fits(s[k], k + 0, h, X, L)
      BY <1>1, <1>2, <3>1, <3>2, <3>3, Moved
    <3>5. QED
      BY <1>1, <2>1, <3>4
  <2>2. CASE k > m
    <3>1. k - m \in 1..n /\ Fits(t[k - m], k - m, h2, X2, L)
      BY <1>1, <1>2, <2>2
    <3>2. Fits(t[k - m], (k - m) + m, h, X, L)
      BY <1>1, <1>2, <1>5, <1>b, <3>1, Moved
    <3>3. (k - m) + m = k /\ (s \o t)[k] = t[k - m]
      BY <1>1, <2>2
    <3>4. QED
      BY <3>2, <3>3
  <2>3. QED
    BY <1>1, <2>1, <2>2
<1>7. Heights(s \o t, h, X, L)
  BY <1>1, <1>3, <1>6 DEF Heights
<1>8. h[1] = h1[1] /\ h[(m + n) + 1] = h2[n + 1]
  <2>1. 1 \in 1..(m + n + 1) /\ (m + n) + 1 \in 1..(m + n + 1)
    BY <1>1
  <2>2. h[1] = IF 1 <= m THEN h1[1] ELSE h2[1 - m]
    BY <1>a, <2>1 DEF Spliced
  <2>3. h[(m + n) + 1] = h2[((m + n) + 1) - m]
    BY <1>1, <1>a, <2>1 DEF Spliced
  <2>4. h[1] = h1[1]
    <3>1. CASE m = 0
      BY <1>a, <2>2, <3>1
    <3>2. CASE m > 0
      BY <1>1, <2>2, <3>2
    <3>3. QED
      BY <1>1, <3>1, <3>2
  <2>5. ((m + n) + 1) - m = n + 1
    BY <1>1
  <2>6. QED
    BY <2>3, <2>4, <2>5
<1>9. QED
  BY <1>1, <1>7, <1>8 DEF m, n

\* Takes for two pieces in a row; exits that stay open are those of the whole.
LEMMA Joined ==
  ASSUME NEW s, NEW t, NEW a, NEW b, NEW d, NEW X1, NEW X2, NEW X, NEW L,
         Takes(s, a, b, X1, L), Takes(t, b, d, X2, L),
         \A i \in Int : \A g : <<i, g>> \in X1 =>
           <<i, g>> \in X \/ (i = Len(s) + Len(t) + 1 /\ g = d),
         \A i \in Int : \A g : <<i, g>> \in X2 =>
           <<i + Len(s), g>> \in X \/ (i = 1 - Len(s) /\ g = a)
  PROVE  Takes(s \o t, a, d, X, L)
<1>1. PICK h1 : Heights(s, h1, X1, L) /\ h1[1] = a /\ h1[Len(s) + 1] = b
  BY DEF Takes
<1>2. PICK h2 : Heights(t, h2, X2, L) /\ h2[1] = b /\ h2[Len(t) + 1] = d
  BY DEF Takes
<1> DEFINE m == Len(s)
           n == Len(t)
           h == Spliced(h1, m, h2, n)
<1>3. m \in Nat /\ n \in Nat /\ h1 \in [1..(m + 1) -> Height] /\ h2 \in [1..(n + 1) -> Height]
  BY <1>1, <1>2 DEF Heights
<1>4. h1[m + 1] = h2[1]
  BY <1>1, <1>2
<1>5. /\ \A i \in Int : \A g : <<i, g>> \in X1 => <<i, g>> \in X \/ (i = m + n + 1 /\ g = d)
      /\ \A i \in Int : \A g : <<i, g>> \in X2 => <<i + m, g>> \in X \/ (i = 1 - m /\ g = a)
  OBVIOUS
<1>6. h1[1] = a /\ h2[n + 1] = d /\ h2[1] = b
  BY <1>1, <1>2
<1> HIDE DEF m, n
<1>7. 1 \in DOMAIN h /\ h[1] = a /\ m + n + 1 \in DOMAIN h /\ h[m + n + 1] = d
  <2>1. 1 \in 1..(m + n + 1) /\ m + n + 1 \in 1..(m + n + 1)
    BY <1>3
  <2>2. h[1] = (IF 1 <= m THEN h1[1] ELSE h2[1 - m])
    BY <2>1 DEF Spliced
  <2>3. h[m + n + 1] = h2[(m + n + 1) - m]
    BY <1>3, <2>1 DEF Spliced
  <2>4. h[1] = a
    <3>1. CASE m = 0
      BY <1>4, <1>6, <2>2, <3>1
    <3>2. CASE m > 0
      BY <1>3, <1>6, <2>2, <3>2
    <3>3. QED
      BY <1>3, <3>1, <3>2
  <2>5. (m + n + 1) - m = n + 1
    BY <1>3
  <2>6. QED
    BY <1>6, <2>1, <2>3, <2>4, <2>5 DEF Spliced
<1> HIDE DEF h
<1>8. \A i \in Int : \A g : <<i, g>> \in X1 => Leads(h, i, g, X)
  BY <1>5, <1>7 DEF Leads
<1>9. \A i \in Int : \A g : <<i, g>> \in X2 => Leads(h, i + m, g, X)
  <2>1. ASSUME NEW i \in Int, NEW g, <<i, g>> \in X2 PROVE Leads(h, i + m, g, X)
    <3>1. CASE <<i + m, g>> \in X
      BY <3>1 DEF Leads
    <3>2. CASE i = 1 - m /\ g = a
      <4>1. i + m = 1
        BY <1>3, <3>2
      <4>2. QED
        BY <1>7, <3>2, <4>1 DEF Leads
    <3>3. QED
      BY <1>5, <2>1, <3>1, <3>2
  <2>2. QED
    BY <2>1
<1>10. h = Spliced(h1, Len(s), h2, Len(t)) /\ h1[Len(s) + 1] = h2[1]
  BY <1>1, <1>2 DEF h, m, n
<1>11. /\ \A i \in Int : \A g : <<i, g>> \in X1 => Leads(h, i, g, X)
       /\ \A i \in Int : \A g : <<i, g>> \in X2 => Leads(h, i + Len(s), g, X)
  BY <1>8, <1>9 DEF m
<1>12. Heights(s \o t, h, X, L) /\ h[1] = h1[1] /\ h[Len(s \o t) + 1] = h2[Len(t) + 1]
  <2>1. Heights(s, h1, X1, L) /\ Heights(t, h2, X2, L)
    BY <1>1, <1>2
  <2>2. /\ h1[Len(s) + 1] = h2[1] /\ h = Spliced(h1, Len(s), h2, Len(t))
        /\ \A i \in Int : \A g : <<i, g>> \in X1 => Leads(h, i, g, X)
        /\ \A i \in Int : \A g : <<i, g>> \in X2 => Leads(h, i + Len(s), g, X)
    BY <1>10, <1>11
  <2>3. QED
    BY ONLY <2>1, <2>2, SplicedHeights
<1>13. h[1] = a /\ h[Len(s \o t) + 1] = d
  BY <1>1, <1>2, <1>12
<1>14. QED
  BY <1>12, <1>13 DEF Takes

\* Nothing stays open.
LEMMA InARow ==
  ASSUME NEW s, NEW t, NEW a, NEW b, NEW d, NEW L, Takes(s, a, b, {}, L), Takes(t, b, d, {}, L)
  PROVE  Takes(s \o t, a, d, {}, L)
BY Joined

\* Its length and its ends.
LEMMA Ends ==
  ASSUME NEW s, NEW a, NEW b, NEW X, NEW L, Takes(s, a, b, X, L)
  PROVE  IsSeq(s) /\ Len(s) \in Nat /\ a \in Height /\ b \in Height
<1>1. PICK h : Heights(s, h, X, L) /\ h[1] = a /\ h[Len(s) + 1] = b
  BY DEF Takes
<1>2. IsSeq(s) /\ Len(s) \in Nat /\ h \in [1..(Len(s) + 1) -> Height]
  BY <1>1 DEF Heights
<1>3. 1 \in 1..(Len(s) + 1) /\ Len(s) + 1 \in 1..(Len(s) + 1)
  BY <1>2
<1>4. QED
  BY <1>1, <1>2, <1>3

----------------------------------------------------------------------------
(* Single operations. *)

\* A single operation as code.
LEMMA OneOperation ==
  ASSUME NEW op
  PROVE  IsSeq(<<op>>) /\ Len(<<op>>) = 1 /\ <<op>>[1] = op
<1>1. <<op>> \in Seq({op})
  OBVIOUS
<1>2. QED
  BY <1>1 DEF IsSeq

\* What a single operation does, from each of its ways.
LEMMA Alone ==
  ASSUME NEW op, NEW a \in Height, NEW b \in Height, NEW X, NEW L,
         op[1] \notin {"Bail", "Break", "Continue"}, Proper(op), Served(op, a[1], a[2]),
         \A way \in Ways(op) :
           /\ way \in Int \X Int
           /\ (way[1] = 1 /\ After(op, a, way) = b) \/ <<1 + way[1], After(op, a, way)>> \in X
  PROVE  Takes(<<op>>, a, b, X, L)
<1> DEFINE h == [k \in 1..2 |-> IF k = 1 THEN a ELSE b]
<1>1. h \in [1..2 -> Height] /\ h[1] = a /\ h[2] = b
  OBVIOUS
<1>2. DOMAIN h = 1..2
  OBVIOUS
<1> HIDE DEF h
<1>3. ASSUME NEW way \in Ways(op)
      PROVE  way \in Int \X Int /\ Leads(h, 1 + way[1], After(op, h[1], way), X)
  <2>1. CASE way[1] = 1 /\ After(op, a, way) = b
    <3>1. 1 + way[1] = 2 /\ 2 \in DOMAIN h
      BY <1>2, <2>1
    <3>2. QED
      BY <1>1, <2>1, <3>1 DEF Leads
  <2>2. CASE <<1 + way[1], After(op, a, way)>> \in X
    BY <1>1, <2>2 DEF Leads
  <2>3. QED
    BY <2>1, <2>2
<1>4. Goes(op, 1, h, X)
  BY <1>1, <1>3 DEF Goes
<1>5. IsSeq(<<op>>) /\ Len(<<op>>) = 1 /\ <<op>>[1] = op
  BY OneOperation
<1>6. Heights(<<op>>, h, X, L)
  <2>1. \A k \in 1..1 : k = 1
    OBVIOUS
  <2>2. 1 + 1 = 2
    OBVIOUS
  <2>3. \A k \in 1..1 : Fits(<<op>>[k], k, h, X, L)
    BY <1>4, <1>5, <2>1 DEF Fits
  <2>4. QED
    BY <1>1, <1>5, <2>2, <2>3 DEF Heights
<1>7. QED
  BY <1>1, <1>5, <1>6 DEF Takes

\* What the compiler refuses never runs.
LEMMA Refused ==
  ASSUME NEW a \in Height, NEW b \in Height, NEW X, NEW L
  PROVE  Takes(Bail, a, b, X, L)
<1> DEFINE h == [k \in 1..2 |-> IF k = 1 THEN a ELSE b]
<1>1. h \in [1..(1 + 1) -> Height] /\ h[1] = a /\ h[1 + 1] = b
  OBVIOUS
<1> HIDE DEF h
<1>2. IsSeq(Bail) /\ Len(Bail) = 1 /\ Bail[1] = <<"Bail">>
  BY OneOperation DEF Bail
<1>3. \A k \in 1..1 : Fits(Bail[k], k, h, X, L)
  BY <1>2 DEF Fits
<1>4. Heights(Bail, h, X, L)
  BY <1>1, <1>2, <1>3 DEF Heights
<1>5. QED
  BY <1>1, <1>2, <1>4 DEF Takes

\* No code changes nothing.
LEMMA NoOperation ==
  ASSUME NEW a \in Height, NEW X, NEW L
  PROVE  Takes(<<>>, a, a, X, L)
<1> DEFINE h == [k \in 1..1 |-> a]
<1>1. h \in [1..(0 + 1) -> Height] /\ h[1] = a /\ h[0 + 1] = a
  OBVIOUS
<1> HIDE DEF h
<1>2. IsSeq(<<>>) /\ Len(<<>>) = 0
  <2>1. <<>> \in Seq({})
    OBVIOUS
  <2>2. QED
    BY <2>1 DEF IsSeq
<1>3. Heights(<<>>, h, X, L)
  BY <1>1, <1>2 DEF Heights
<1>4. QED
  BY <1>1, <1>2, <1>3 DEF Takes

\* A jump: behind it there may be any height, where it leads there is the one before.
LEMMA JmpTakes ==
  ASSUME NEW d \in Int, NEW a \in Height, NEW b \in Height, NEW X, NEW L, <<d + 2, a>> \in X
  PROVE  Takes(Op1("Jmp", d), a, b, X, L)
<1> DEFINE op == <<"Jmp", d>>
<1>1. Operands(op) = 0 /\ Results(op) = 0 /\ Ways(op) = {<<1 + d, 0>>}
  BY DEF Operands, Results, Ways
<1>2. Proper(op) /\ Served(op, a[1], a[2]) /\ op[1] \notin {"Bail", "Break", "Continue"}
  BY <1>1 DEF Proper, Served, Height
<1>3. After(op, a, <<1 + d, 0>>) = a
  BY <1>1 DEF After, Height
<1>4. 1 + (1 + d) = d + 2 /\ <<1 + d, 0>>[1] = 1 + d /\ <<1 + d, 0>> \in Int \X Int
  OBVIOUS
<1> HIDE DEF op
<1>5. Takes(<<op>>, a, b, X, L)
  <2>1. ASSUME NEW way \in Ways(op)
        PROVE  way \in Int \X Int /\ <<1 + way[1], After(op, a, way)>> \in X
    <3>1. way = <<1 + d, 0>>
      BY <1>1
    <3>2. QED
      BY <1>3, <1>4, <3>1
  <2>2. QED
    BY <1>2, <2>1, Alone
<1>6. QED
  BY <1>5 DEF op, Op1

\* A conditional jump takes the condition.
LEMMA JmpIfTakes ==
  ASSUME NEW jump \in {"JmpIfFalse", "JmpIfTrue"}, NEW d \in Int, NEW o \in Nat, NEW i \in Nat,
         NEW X, NEW L, <<d + 2, <<o, i>>>> \in X
  PROVE  Takes(Op1(jump, d), <<o + 1, i>>, <<o, i>>, X, L)
<1> DEFINE op == <<jump, d>>
           a == <<o + 1, i>>
           b == <<o, i>>
<1>1. Operands(op) = 1 /\ Results(op) = 0 /\ Ways(op) = {<<1, 0>>, <<1 + d, 0>>}
  BY DEF Operands, Results, Ways
<1>2. Proper(op) /\ Served(op, a[1], a[2]) /\ op[1] \notin {"Bail", "Break", "Continue"}
  BY <1>1 DEF Proper, Served
<1>3. After(op, a, <<1 + d, 0>>) = b /\ After(op, a, <<1, 0>>) = b
  BY <1>1 DEF After
<1>4. /\ 1 + (1 + d) = d + 2 /\ <<1 + d, 0>>[1] = 1 + d /\ <<1 + d, 0>> \in Int \X Int
      /\ <<1, 0>>[1] = 1 /\ <<1, 0>> \in Int \X Int
  OBVIOUS
<1>5. a \in Height /\ b \in Height
  BY DEF Height
<1>6. <<d + 2, b>> \in X
  OBVIOUS
<1> HIDE DEF op, a, b
<1>7. Takes(<<op>>, a, b, X, L)
  <2>1. ASSUME NEW way \in Ways(op)
        PROVE  /\ way \in Int \X Int
               /\ (way[1] = 1 /\ After(op, a, way) = b) \/ <<1 + way[1], After(op, a, way)>> \in X
    <3>1. CASE way = <<1 + d, 0>>
      BY <1>3, <1>4, <1>6, <3>1
    <3>2. CASE way = <<1, 0>>
      BY <1>3, <1>4, <3>2
    <3>3. QED
      BY <1>1, <3>1, <3>2
  <2>2. QED
    BY <1>2, <1>5, <2>1, Alone
<1>8. QED
  BY <1>7 DEF op, a, b, Op1

----------------------------------------------------------------------------
(* Loops. *)

\* A function on 1..n is a sequence (the code of the parts of a list).
LEMMA FunctionIsSeq ==
  ASSUME NEW n \in Nat, NEW f, f = [i \in 1..n |-> f[i]]
  PROVE  IsSeq(f) /\ Len(f) = n /\ DOMAIN f = 1..n
<1> DEFINE S == {f[i] : i \in 1..n}
<1>1. f \in [1..n -> S]
  OBVIOUS
<1>2. f \in Seq(S)
  BY <1>1, SeqDef
<1>3. DOMAIN f = 1..n /\ DOMAIN f = 1..Len(f) /\ Len(f) \in Nat
  BY <1>1, <1>2, LenProperties
<1>4. Len(f) = n
  BY <1>3
<1>5. QED
  BY <1>2, <1>3, <1>4 DEF IsSeq

\* The domain of a sequence.
LEMMA SeqIsFunction ==
  ASSUME NEW s, IsSeq(s)
  PROVE  DOMAIN s = 1..Len(s) /\ Len(s) \in Nat
<1>1. PICK S : s \in Seq(S)
  BY DEF IsSeq
<1>2. QED
  BY <1>1, LenProperties

\* finish_loop: breaks and continues become jumps to places of their heights.
LEMMA FinishedHeights ==
  ASSUME NEW c, NEW h, NEW X, NEW L, NEW M, NEW p \in Nat, NEW q \in Nat, p <= Len(c), q <= Len(c),
         Heights(c, h, X, L),
         L[1] # Nowhere => h[p + 1] = L[1], L[2] # Nowhere => h[q + 1] = L[2]
  PROVE  Heights(FinishLoop(c, p, q), h, X, M) /\ Len(FinishLoop(c, p, q)) = Len(c)
<1> DEFINE n == Len(c)
           f == FinishLoop(c, p, q)
<1>1. IsSeq(c) /\ n \in Nat /\ h \in [1..(n + 1) -> Height] /\ \A k \in 1..n : Fits(c[k], k, h, X, L)
  BY DEF Heights
<1>2. DOMAIN c = 1..n
  BY <1>1, SeqIsFunction
<1>3. \A k \in 1..n : f[k] = CASE c[k] = <<"Break">> -> <<"Jmp", p - k>>
                               [] c[k] = <<"Continue">> -> <<"Jmp", q - k>>
                               [] OTHER -> c[k]
  BY <1>2 DEF FinishLoop
<1>4. f = [k \in 1..n |-> f[k]]
  BY <1>2 DEF FinishLoop
<1>5. p <= n /\ q <= n
  OBVIOUS
<1> HIDE DEF n, f
<1>6. IsSeq(f) /\ Len(f) = n
  BY <1>1, <1>4, FunctionIsSeq
<1>7. ASSUME NEW k \in 1..n, NEW t \in Nat, t <= n, h[t + 1] = h[k]
      PROVE  Fits(<<"Jmp", t - k>>, k, h, X, M)
  <2> DEFINE op == <<"Jmp", t - k>>
             way == <<1 + (t - k), 0>>
  <2>1. Operands(op) = 0 /\ Results(op) = 0 /\ Ways(op) = {way}
    BY DEF Operands, Results, Ways
  <2>2. h[k] \in Nat \X Nat
    BY <1>1, <1>7 DEF Height
  <2>3. Proper(op) /\ Served(op, h[k][1], h[k][2]) /\ op[1] \notin {"Bail", "Break", "Continue"}
    BY <2>1, <2>2 DEF Proper, Served
  <2>4. After(op, h[k], way) = h[k]
    BY <2>1, <2>2 DEF After
  <2>5. k + way[1] = t + 1 /\ way \in Int \X Int
    BY <1>7
  <2>6. t + 1 \in DOMAIN h
    BY <1>1, <1>7
  <2> HIDE DEF op, way
  <2>7. Leads(h, k + way[1], After(op, h[k], way), X)
    BY <1>7, <2>4, <2>5, <2>6 DEF Leads
  <2>8. Goes(op, k, h, X)
    BY <2>1, <2>3, <2>5, <2>7 DEF Goes
  <2>9. Fits(op, k, h, X, M)
    BY <2>8 DEF Fits
  <2>10. QED
    BY <2>9 DEF op
<1>8. ASSUME NEW k \in 1..n PROVE Fits(f[k], k, h, X, M)
  <2>1. Fits(c[k], k, h, X, L) /\ h[k] \in Height /\ Nowhere \notin Height
    BY <1>1 DEF Height, Nowhere
  <2>2. CASE c[k] = <<"Break">>
    <3>1. h[k] = L[1]
      BY <2>1, <2>2 DEF Fits, Goes
    <3>2. c[k] # <<"Continue">>
      BY <2>2
    <3>3. h[p + 1] = h[k] /\ f[k] = <<"Jmp", p - k>>
      BY <1>3, <2>1, <2>2, <3>1, <3>2
    <3>4. QED
      BY <1>5, <1>7, <3>3
  <2>3. CASE c[k] = <<"Continue">>
    <3>1. h[k] = L[2]
      BY <2>1, <2>3 DEF Fits, Goes
    <3>2. c[k] # <<"Break">>
      BY <2>3
    <3>3. h[q + 1] = h[k] /\ f[k] = <<"Jmp", q - k>>
      BY <1>3, <2>1, <2>3, <3>1, <3>2
    <3>4. QED
      BY <1>5, <1>7, <3>3
  <2>4. CASE c[k] # <<"Break">> /\ c[k] # <<"Continue">>
    <3>1. f[k] = c[k]
      BY <1>3, <2>4
    <3>2. QED
      BY <2>1, <2>4, <3>1 DEF Fits
  <2>5. QED
    BY <2>2, <2>3, <2>4
<1>9. QED
  BY <1>1, <1>6, <1>8 DEF Heights, n, f

\* A loop whose breaks lead to its end and whose continues lead to its second
\* part.
LEMMA Looped ==
  ASSUME NEW s, NEW t, NEW a, NEW b, NEW d, NEW X1, NEW X2, NEW L, NEW M,
         Takes(s, a, b, X1, L), Takes(t, b, d, X2, L),
         \A i \in Int : \A g : <<i, g>> \in X1 => i = Len(s) + Len(t) + 1 /\ g = d,
         \A i \in Int : \A g : <<i, g>> \in X2 => (i = 1 - Len(s) /\ g = a) \/ (i = Len(t) + 1 /\ g = d),
         L[1] \in {d, Nowhere}, L[2] \in {b, Nowhere}
  PROVE  Takes(FinishLoop(s \o t, Len(s \o t), Len(s)), a, d, {}, M)
<1>1. PICK h1 : Heights(s, h1, X1, L) /\ h1[1] = a /\ h1[Len(s) + 1] = b
  BY DEF Takes
<1>2. PICK h2 : Heights(t, h2, X2, L) /\ h2[1] = b /\ h2[Len(t) + 1] = d
  BY DEF Takes
<1> DEFINE m == Len(s)
           n == Len(t)
           h == Spliced(h1, m, h2, n)
<1>3. m \in Nat /\ n \in Nat /\ h1 \in [1..(m + 1) -> Height] /\ h2 \in [1..(n + 1) -> Height]
  BY <1>1, <1>2 DEF Heights
<1>4. h1[m + 1] = h2[1] /\ h1[1] = a /\ h2[n + 1] = d /\ h2[1] = b
  BY <1>1, <1>2
<1>5. /\ \A i \in Int : \A g : <<i, g>> \in X1 => i = m + n + 1 /\ g = d
      /\ \A i \in Int : \A g : <<i, g>> \in X2 => (i = 1 - m /\ g = a) \/ (i = n + 1 /\ g = d)
  OBVIOUS
<1>6. Len(s \o t) = m + n
  BY <1>1, <1>2, Concatenated DEF Heights
<1> HIDE DEF m, n
<1>7. /\ 1 \in DOMAIN h /\ h[1] = a /\ m + n + 1 \in DOMAIN h /\ h[m + n + 1] = d
      /\ h[m + 1] = b
  <2>1. 1 \in 1..(m + n + 1) /\ m + n + 1 \in 1..(m + n + 1) /\ m + 1 \in 1..(m + n + 1)
    BY <1>3
  <2>2. h[1] = (IF 1 <= m THEN h1[1] ELSE h2[1 - m])
    BY <2>1 DEF Spliced
  <2>3. h[m + n + 1] = h2[(m + n + 1) - m] /\ h[m + 1] = h2[(m + 1) - m]
    BY <1>3, <2>1 DEF Spliced
  <2>4. h[1] = a
    <3>1. CASE m = 0
      BY <1>4, <2>2, <3>1
    <3>2. CASE m > 0
      BY <1>3, <1>4, <2>2, <3>2
    <3>3. QED
      BY <1>3, <3>1, <3>2
  <2>5. (m + n + 1) - m = n + 1 /\ (m + 1) - m = 1
    BY <1>3
  <2>6. QED
    BY <1>4, <2>1, <2>3, <2>4, <2>5 DEF Spliced
<1> HIDE DEF h
<1>8. \A i \in Int : \A g : <<i, g>> \in X1 => Leads(h, i, g, {})
  BY <1>5, <1>7 DEF Leads
<1>9. \A i \in Int : \A g : <<i, g>> \in X2 => Leads(h, i + m, g, {})
  <2>1. ASSUME NEW i \in Int, NEW g, <<i, g>> \in X2 PROVE Leads(h, i + m, g, {})
    <3>1. (i + m = 1 /\ g = a) \/ (i + m = m + n + 1 /\ g = d)
      BY <1>3, <1>5, <2>1
    <3>2. QED
      BY <1>7, <3>1 DEF Leads
  <2>2. QED
    BY <2>1
<1>10. Heights(s \o t, h, {}, L)
  <2>1. Heights(s, h1, X1, L) /\ Heights(t, h2, X2, L)
    BY <1>1, <1>2
  <2>2. /\ h1[Len(s) + 1] = h2[1] /\ h = Spliced(h1, Len(s), h2, Len(t))
        /\ \A i \in Int : \A g : <<i, g>> \in X1 => Leads(h, i, g, {})
        /\ \A i \in Int : \A g : <<i, g>> \in X2 => Leads(h, i + Len(s), g, {})
    BY <1>4, <1>8, <1>9 DEF h, m, n
  <2>3. QED
    BY ONLY <2>1, <2>2, SplicedHeights
<1>11. Heights(FinishLoop(s \o t, m + n, m), h, {}, M) /\ Len(FinishLoop(s \o t, m + n, m)) = m + n
  <2> DEFINE c == s \o t
             p == m + n
             none == {}
  <2>1. p \in Nat /\ m \in Nat /\ p <= Len(c) /\ m <= Len(c) /\ Len(c) = p
    BY <1>3, <1>6
  <2>2. /\ L[1] # Nowhere => h[p + 1] = L[1]
        /\ L[2] # Nowhere => h[m + 1] = L[2]
    BY <1>7
  <2>3. Heights(c, h, none, L)
    BY <1>10
  <2> HIDE DEF c, p, none
  <2>4. Heights(FinishLoop(c, p, m), h, none, M) /\ Len(FinishLoop(c, p, m)) = Len(c)
    BY ONLY <2>1, <2>2, <2>3, FinishedHeights, SMTT(60)
  <2>5. QED
    BY <2>1, <2>4 DEF c, p, none
<1>12. QED
  BY <1>6, <1>7, <1>11 DEF Takes, m

----------------------------------------------------------------------------
(* Operations that go on to the next one. *)

\* With n operands it leaves m values for them, and the iterators as they are.
Moves(op, n, m) ==
  /\ op[1] \notin {"Bail", "Break", "Continue", "IterNext", "PopIter", "Line"}
  /\ Proper(op) /\ Operands(op) = n /\ Results(op) = m /\ Ways(op) = {<<1, 0>>}

IsRoot(e) == e \in {"var"} \X Slot \/ e[1] = "prop"

\* Code that does so, wherever it is.
Turns(code, n, m) ==
  \A o \in Nat, i \in Nat, L \in Leaves : Takes(code, <<o + n, i>>, <<o + m, i>>, {}, L)

\* Operations that only push.
LEMMA PushesMove ==
  /\ \A v \in Literal : Moves(<<"Const", v>>, 0, 1)
  /\ \A x \in Slot : Moves(<<"Load", x>>, 0, 1) /\ Moves(<<"LoadQuiet", x>>, 0, 1)
  /\ \A x \in Slot : Moves(<<"IssetSlot", x>>, 0, 1)
  /\ \A p : Moves(<<"LoadThisProp", p>>, 0, 1) /\ Moves(<<"IssetThisProp", p>>, 0, 1)
  /\ Moves(<<"NewArr">>, 0, 1)
BY DEF Moves, Proper, Operands, Results, Ways

\* Operations that replace operands by a result.
LEMMA ChangesMove ==
  /\ Moves(<<"Dup">>, 1, 2) /\ Moves(<<"Not">>, 1, 1) /\ Moves(<<"IsNull">>, 1, 1) /\ Moves(<<"Neg">>, 1, 1)
  /\ \A t \in {"int", "float", "str", "bool"} : Moves(<<"Cast", t>>, 1, 1)
  /\ \A op \in BinOps : Moves(<<"Bin", op>>, 2, 1)
  /\ Moves(<<"ArrPush">>, 2, 1) /\ Moves(<<"ArrSet">>, 3, 1)
  /\ \A x \in Slot : Moves(<<"LoadIndexQuiet", x>>, 1, 1)
BY DEF Moves, Proper, Operands, Results, Ways

\* Operations that store or discard, and those on variables alone.
LEMMA StoresMove ==
  /\ Moves(<<"Pop">>, 1, 0)
  /\ \A x \in Slot : Moves(<<"Store", x>>, 1, 0) /\ Moves(<<"ConcatAssign", x>>, 1, 0)
  /\ \A x \in Slot : Moves(<<"StaticInit", x>>, 1, 0)
  /\ \A x \in Slot : Moves(<<"UnsetSlot", x>>, 0, 0) /\ Moves(<<"BindGlobal", x>>, 0, 0)
  /\ \A p : Moves(<<"StoreThisProp", p>>, 1, 0) /\ Moves(<<"UnsetThisProp", p>>, 0, 0)
BY DEF Moves, Proper, Operands, Results, Ways

\* Operations on $root[k1]...[kn].
LEMMA PathsMove ==
  ASSUME NEW root, IsRoot(root)
  PROVE  /\ Moves(<<"LoadIndex", root>>, 1, 1) /\ Moves(<<"IssetIndex", root>>, 1, 1)
         /\ Moves(<<"UnsetIndex", root>>, 1, 0)
         /\ \A n \in Nat : /\ Moves(<<"LoadPath", root, n>>, n, 1)
                           /\ Moves(<<"StorePath", root, n>>, n + 1, 0)
                           /\ Moves(<<"AppendPath", root, n>>, n + 1, 0)
BY DEF Moves, Proper, Operands, Results, Ways, IsRoot

\* Operations that take as many operands as they say.
LEMMA CallsMove ==
  ASSUME NEW n \in Nat
  PROVE  /\ Moves(<<"Echo", n>>, n, 0)
         /\ n # 0 => Moves(<<"CallFn", n>>, n, 1)
BY DEF Moves, Proper, Operands, Results, Ways

\* A single operation of this kind, at any depth.
LEMMA MovesTurns ==
  ASSUME NEW op, NEW n \in Nat, NEW m \in Nat, Moves(op, n, m)
  PROVE  Turns(<<op>>, n, m)
<1> SUFFICES ASSUME NEW o \in Nat, NEW i \in Nat, NEW L \in Leaves
             PROVE  Takes(<<op>>, <<o + n, i>>, <<o + m, i>>, {}, L)
  BY DEF Turns
<1> DEFINE a == <<o + n, i>>
           b == <<o + m, i>>
           way == <<1, 0>>
<1>1. a \in Height /\ b \in Height
  BY DEF Height
<1>2. Operands(op) = n /\ Results(op) = m /\ Ways(op) = {way} /\ Proper(op)
  BY DEF Moves
<1>3. Served(op, a[1], a[2])
  BY <1>2 DEF Served, Moves
<1>4. After(op, a, way) = b
  BY <1>2 DEF After
<1>5. way \in Int \X Int /\ way[1] = 1
  OBVIOUS
<1>6. op[1] \notin {"Bail", "Break", "Continue"}
  BY DEF Moves
<1> HIDE DEF a, b, way
<1>7. \A w \in Ways(op) :
        /\ w \in Int \X Int
        /\ (w[1] = 1 /\ After(op, a, w) = b) \/ <<1 + w[1], After(op, a, w)>> \in {}
  BY <1>2, <1>4, <1>5
<1>8. Takes(<<op>>, a, b, {}, L)
  BY <1>1, <1>2, <1>3, <1>6, <1>7, Alone
<1>9. QED
  BY <1>8 DEF a, b

\* For code of one operation.
LEMMA OneMoves ==
  ASSUME NEW name, NEW x, NEW n \in Nat, NEW m \in Nat, Moves(<<name, x>>, n, m)
  PROVE  Turns(Op1(name, x), n, m)
BY MovesTurns DEF Op1

\* The code is a sequence.
LEMMA TurnsIsSeq ==
  ASSUME NEW s, NEW n, NEW m, Turns(s, n, m)
  PROVE  IsSeq(s) /\ Len(s) \in Nat
<1> DEFINE L == <<Nowhere, Nowhere>>
<1>1. L \in Leaves /\ 0 \in Nat
  BY DEF Leaves
<1> HIDE DEF L
<1>2. Takes(s, <<0 + n, 0>>, <<0 + m, 0>>, {}, L)
  BY <1>1 DEF Turns
<1>3. QED
  BY <1>2, Ends

\* Two pieces in a row.
LEMMA TurnsInARow ==
  ASSUME NEW s, NEW t, NEW n, NEW m, NEW k, Turns(s, n, m), Turns(t, m, k)
  PROVE  Turns(s \o t, n, k)
<1>1. ASSUME NEW o \in Nat, NEW i \in Nat, NEW L \in Leaves
      PROVE  Takes(s \o t, <<o + n, i>>, <<o + k, i>>, {}, L)
  <2>1. Takes(s, <<o + n, i>>, <<o + m, i>>, {}, L) /\ Takes(t, <<o + m, i>>, <<o + k, i>>, {}, L)
    BY DEF Turns
  <2>2. QED
    BY <2>1, InARow
<1>2. QED
  BY <1>1 DEF Turns

\* The same above more operands.
LEMMA TurnsAbove ==
  ASSUME NEW s, NEW n \in Nat, NEW m \in Nat, NEW d \in Nat, Turns(s, n, m)
  PROVE  Turns(s, n + d, m + d)
<1>1. ASSUME NEW o \in Nat, NEW i \in Nat, NEW L \in Leaves
      PROVE  Takes(s, <<o + (n + d), i>>, <<o + (m + d), i>>, {}, L)
  <2>1. o + d \in Nat /\ (o + d) + n = o + (n + d) /\ (o + d) + m = o + (m + d)
    OBVIOUS
  <2>2. Takes(s, <<(o + d) + n, i>>, <<(o + d) + m, i>>, {}, L)
    BY <2>1 DEF Turns
  <2>3. QED
    BY <2>1, <2>2
<1>2. QED
  BY <1>1 DEF Turns

\* What is refused turns anything into anything.
LEMMA RefusedTurns ==
  ASSUME NEW n \in Nat, NEW m \in Nat
  PROVE  Turns(Bail, n, m)
<1>1. \A o \in Nat, i \in Nat : <<o + n, i>> \in Height /\ <<o + m, i>> \in Height
  BY DEF Height
<1>2. QED
  BY <1>1, Refused DEF Turns

\* A value, and then an operation that takes it, with others before it.
LEMMA ThenOp ==
  ASSUME NEW s, NEW op, NEW n, NEW k \in Nat, NEW m \in Nat,
         Turns(s, n, k), Moves(op, k, m)
  PROVE  Turns(s \o <<op>>, n, m)
BY MovesTurns, TurnsInARow

----------------------------------------------------------------------------
(* FlattenSeq. *)

FlattenedBy(cs, f, n) == f = [i \in 1..n |-> IF i = 1 THEN cs[i] ELSE f[i - 1] \o cs[i]]

\* The recursive function FlattenSeq is made of exists.
LEMMA FlattenExists ==
  ASSUME NEW cs, NEW n \in Nat
  PROVE  \E f : FlattenedBy(cs, f, n)
<1> DEFINE T == {k \in 0..n : \E f : FlattenedBy(cs, f, k)}
<1>1. 0 \in T
  <2>1. FlattenedBy(cs, [i \in 1..0 |-> i], 0)
    BY DEF FlattenedBy
  <2>2. QED
    BY <2>1
<1>2. ASSUME NEW k \in 0..n, k \in T, k + 1 <= n PROVE k + 1 \in T
  <2>1. PICK f : FlattenedBy(cs, f, k)
    BY <1>2
  <2> DEFINE new == IF k = 0 THEN cs[1] ELSE f[k] \o cs[k + 1]
             g == [i \in 1..(k + 1) |-> IF i = k + 1 THEN new ELSE f[i]]
  <2>2. \A i \in 1..k : f[i] = IF i = 1 THEN cs[i] ELSE f[i - 1] \o cs[i]
    BY <2>1 DEF FlattenedBy
  <2>3. \A i \in 1..(k + 1) : g[i] = IF i = 1 THEN cs[i] ELSE g[i - 1] \o cs[i]
    BY <2>2
  <2>4. FlattenedBy(cs, g, k + 1)
    BY <2>3 DEF FlattenedBy
  <2>5. QED
    BY <1>2, <2>4
<1>3. T = 0..n
  <2>1. T \in SUBSET (0..n)
    OBVIOUS
  <2> HIDE DEF T
  <2> QED
    BY <1>1, <1>2, <2>1, InductionUpTo
<1>4. QED
  BY <1>3

\* It depends on the pieces up to there only.
LEMMA FlattenAgrees ==
  ASSUME NEW cs, NEW ds, NEW f, NEW g, NEW n \in Nat, NEW m \in 0..n,
         FlattenedBy(cs, f, n), FlattenedBy(ds, g, m), \A i \in 1..m : cs[i] = ds[i]
  PROVE  \A i \in 1..m : f[i] = g[i]
<1> DEFINE T == {k \in 0..m : k = 0 \/ f[k] = g[k]}
<1>1. /\ \A i \in 1..n : f[i] = IF i = 1 THEN cs[i] ELSE f[i - 1] \o cs[i]
      /\ \A i \in 1..m : g[i] = IF i = 1 THEN ds[i] ELSE g[i - 1] \o ds[i]
  BY DEF FlattenedBy
<1>2. ASSUME NEW k \in 0..m, k \in T, k + 1 <= m PROVE k + 1 \in T
  <2>1. k + 1 \in 1..m /\ k + 1 \in 1..n /\ cs[k + 1] = ds[k + 1] /\ (k + 1) - 1 = k
    BY <1>2
  <2>2. CASE k = 0
    BY <1>1, <2>1, <2>2
  <2>3. CASE k # 0
    <3>1. f[k + 1] = f[k] \o cs[k + 1] /\ g[k + 1] = g[k] \o ds[k + 1]
      <4>1. /\ f[k + 1] = IF k + 1 = 1 THEN cs[k + 1] ELSE f[(k + 1) - 1] \o cs[k + 1]
            /\ g[k + 1] = IF k + 1 = 1 THEN ds[k + 1] ELSE g[(k + 1) - 1] \o ds[k + 1]
        BY <1>1, <2>1
      <4>2. k + 1 # 1
        BY <2>3
      <4>3. QED
        BY <2>1, <4>1, <4>2
    <3>2. f[k] = g[k]
      BY <1>2, <2>3
    <3>3. f[k + 1] = g[k + 1]
      BY <2>1, <3>1, <3>2
    <3>4. QED
      BY <2>1, <3>3
  <2>4. QED
    BY <2>2, <2>3
<1>3. T = 0..m
  <2>1. T \in SUBSET (0..m) /\ 0 \in T /\ m \in Nat
    OBVIOUS
  <2> HIDE DEF T
  <2> QED
    BY <1>2, <2>1, InductionUpTo
<1>4. QED
  BY <1>3

\* FlattenSeq is its last value.
LEMMA FlattenIs ==
  ASSUME NEW cs, NEW n \in Nat \ {0}, Len(cs) = n
  PROVE  \E f : FlattenedBy(cs, f, n) /\ FlattenSeq(cs) = f[n]
<1> DEFINE f == CHOOSE f : FlattenedBy(cs, f, n)
<1>1. FlattenedBy(cs, f, n)
  BY FlattenExists
<1>2. FlattenSeq(cs) = f[n]
  BY DEF FlattenSeq, FlattenedBy
<1>3. QED
  BY <1>1, <1>2

\* The pieces up to each of them.
PiecesOf(cs, f, n) ==
  /\ f[0] = <<>> /\ FlattenSeq(cs) = f[n]
  /\ \A k \in 0..(n - 1) : f[k + 1] = f[k] \o cs[k + 1]
  /\ \A k \in 0..n : FlattenSeq(SubSeq(cs, 1, k)) = f[k]

\* FlattenSeq piece by piece: its beginnings are what flattening the first pieces yields.
LEMMA Pieces ==
  ASSUME NEW cs, NEW n \in Nat, IsSeq(cs), Len(cs) = n, \A i \in 1..n : IsSeq(cs[i])
  PROVE  \E f : PiecesOf(cs, f, n)
<1>1. PICK S : cs \in Seq(S)
  BY DEF IsSeq
<1>2. \A i \in 1..n : cs[i] \in S
  BY <1>1, ElementOfSeq
<1>3. PICK g : FlattenedBy(cs, g, n)
  BY FlattenExists
<1> DEFINE f == [k \in 0..n |-> IF k = 0 THEN <<>> ELSE g[k]]
<1>4. ASSUME NEW k \in 0..n PROVE FlattenSeq(SubSeq(cs, 1, k)) = f[k]
  <2> DEFINE ds == SubSeq(cs, 1, k)
  <2>1. ds \in Seq(S) /\ Len(ds) = k /\ \A i \in 1..k : ds[i] = cs[i]
    <3>1. \A i \in 1..k : cs[i] \in S
      BY <1>2
    <3>2. /\ ds \in Seq(S) /\ Len(ds) = IF 1 <= k THEN k - 1 + 1 ELSE 0
          /\ \A i \in 1..(k - 1 + 1) : ds[i] = cs[1 + i - 1]
      BY <3>1, SubSeqProperties
    <3>3. QED
      BY <3>2
  <2> HIDE DEF ds
  <2>2. CASE k = 0
    <3>1. FlattenSeq(ds) = ds
      BY <2>1, <2>2 DEF FlattenSeq
    <3>2. ds = <<>>
      BY <2>1, <2>2, EmptySeq
    <3>3. QED
      BY <2>2, <3>1, <3>2 DEF ds
  <2>3. CASE k # 0
    <3>1. k \in Nat \ {0}
      BY <2>3
    <3>2. PICK e : FlattenedBy(ds, e, k) /\ FlattenSeq(ds) = e[k]
      BY <2>1, <3>1, FlattenIs
    <3>3. \A i \in 1..k : g[i] = e[i]
      <4>1. \A i \in 1..k : cs[i] = ds[i]
        BY <2>1
      <4>2. QED
        BY <1>3, <3>2, <4>1, FlattenAgrees
    <3>4. g[k] = e[k] /\ f[k] = g[k]
      BY <3>1, <3>3
    <3>5. QED
      BY <3>2, <3>4 DEF ds
  <2>4. QED
    BY <2>2, <2>3
<1>5. ASSUME NEW k \in 0..(n - 1) PROVE f[k + 1] = f[k] \o cs[k + 1]
  <2>2. f[k + 1] = g[k + 1] /\ k + 1 \in 1..n
    OBVIOUS
  <2>1. g[k + 1] = IF k + 1 = 1 THEN cs[k + 1] ELSE g[(k + 1) - 1] \o cs[k + 1]
    <3>1. \A i \in 1..n : g[i] = IF i = 1 THEN cs[i] ELSE g[i - 1] \o cs[i]
      BY <1>3 DEF FlattenedBy
    <3>2. QED
      BY <2>2, <3>1
  <2>3. CASE k = 0
    <3>1. IsSeq(cs[k + 1])
      BY <2>2
    <3>2. PICK U : cs[k + 1] \in Seq(U)
      BY <3>1 DEF IsSeq
    <3>3. <<>> \o cs[k + 1] = cs[k + 1]
      BY <3>2, ConcatEmptySeq
    <3>4. k + 1 = 1 /\ f[k] = <<>>
      BY <2>3
    <3>5. g[k + 1] = cs[k + 1]
      BY <2>1, <3>4
    <3>6. QED
      BY <2>2, <3>3, <3>4, <3>5
  <2>4. CASE k # 0
    <3>1. (k + 1) - 1 = k /\ k + 1 # 1 /\ f[k] = g[k]
      BY <2>4
    <3>2. QED
      BY <2>1, <2>2, <3>1
  <2>5. QED
    BY <2>3, <2>4
<1>6. FlattenSeq(cs) = f[n] /\ f[0] = <<>>
  <2>1. SubSeq(cs, 1, n) = cs
    BY <1>1, SubSeqFull
  <2>2. n \in 0..n /\ 0 \in 0..n
    OBVIOUS
  <2>3. QED
    BY <1>4, <2>1, <2>2
<1> HIDE DEF f
<1>7. PiecesOf(cs, f, n)
  BY <1>4, <1>5, <1>6 DEF PiecesOf
<1>8. QED
  BY <1>7

\* Pieces of code in a row, the heights between them in g.
LEMMA FlattenTurns ==
  ASSUME NEW cs, NEW n \in Nat, IsSeq(cs), Len(cs) = n, NEW g \in [1..(n + 1) -> Nat],
         \A i \in 1..n : Turns(cs[i], g[i], g[i + 1])
  PROVE  Turns(FlattenSeq(cs), g[1], g[n + 1])
<1>1. \A i \in 1..n : IsSeq(cs[i])
  BY TurnsIsSeq
<1>a. PICK f : PiecesOf(cs, f, n)
  BY <1>1, Pieces
<1>2. /\ f[0] = <<>> /\ FlattenSeq(cs) = f[n]
      /\ \A k \in 0..(n - 1) : f[k + 1] = f[k] \o cs[k + 1]
  BY <1>a DEF PiecesOf
<1> DEFINE T == {k \in 0..n : Turns(f[k], g[1], g[k + 1])}
<1>3. 0 \in T
  <2>1. g[1] \in Nat /\ 0 + 1 = 1
    OBVIOUS
  <2>2. \A o \in Nat, i \in Nat : <<o + g[1], i>> \in Height
    BY <2>1 DEF Height
  <2>3. Turns(<<>>, g[1], g[1])
    BY <2>2, NoOperation DEF Turns
  <2>4. QED
    BY <1>2, <2>1, <2>3
<1>4. ASSUME NEW k \in 0..n, k \in T, k + 1 <= n PROVE k + 1 \in T
  <2>1. k \in 0..(n - 1) /\ k + 1 \in 1..n
    BY <1>4
  <2>2. Turns(f[k], g[1], g[k + 1]) /\ Turns(cs[k + 1], g[k + 1], g[(k + 1) + 1])
    BY <1>4, <2>1
  <2>3. Turns(f[k + 1], g[1], g[(k + 1) + 1])
    BY <1>2, <2>1, <2>2, TurnsInARow
  <2>4. QED
    BY <2>1, <2>3
<1>5. T = 0..n
  <2>1. T \in SUBSET (0..n)
    OBVIOUS
  <2> HIDE DEF T
  <2> QED
    BY <1>3, <1>4, <2>1, InductionUpTo
<1>6. n \in T
  BY <1>5
<1>7. QED
  BY <1>2, <1>6

----------------------------------------------------------------------------
(* Jumps forward. *)

\* The exits of the first piece stay open.
LEMMA ExitsKept ==
  ASSUME NEW s, NEW t, NEW a, NEW b, NEW d, NEW X, NEW L,
         Takes(s, a, b, X, L), Takes(t, b, d, {}, L)
  PROVE  Takes(s \o t, a, d, X, L)
<1>1. /\ \A i \in Int : \A g : <<i, g>> \in X => <<i, g>> \in X \/ (i = Len(s) + Len(t) + 1 /\ g = d)
      /\ \A i \in Int : \A g : <<i, g>> \in {} => <<i + Len(s), g>> \in X \/ (i = 1 - Len(s) /\ g = a)
  OBVIOUS
<1>2. QED
  BY ONLY <1>1, Takes(s, a, b, X, L), Takes(t, b, d, {}, L), Joined

\* An exit of the second piece is one of the whole.
LEMMA ExitShared ==
  ASSUME NEW s, NEW t, NEW a, NEW b, NEW d, NEW X1, NEW X, NEW L, NEW e \in Int, NEW f,
         Takes(s, a, b, X1, L), Takes(t, b, d, {<<e, f>>}, L),
         X1 \subseteq X, <<e + Len(s), f>> \in X
  PROVE  Takes(s \o t, a, d, X, L)
<1> DEFINE X2 == {<<e, f>>}
<1>1. \A i \in Int : \A g : <<i, g>> \in X1 => <<i, g>> \in X \/ (i = Len(s) + Len(t) + 1 /\ g = d)
  OBVIOUS
<1>2. \A i \in Int : \A g : <<i, g>> \in X2 => <<i + Len(s), g>> \in X \/ (i = 1 - Len(s) /\ g = a)
  OBVIOUS
<1>3. Takes(s, a, b, X1, L) /\ Takes(t, b, d, X2, L)
  OBVIOUS
<1> HIDE DEF X2
<1>4. QED
  BY ONLY <1>1, <1>2, <1>3, Joined

\* A condition and a jump it decides about.
LEMMA TestTakes ==
  ASSUME NEW s, NEW a, NEW o \in Nat, NEW i \in Nat, NEW X, NEW L, NEW X1,
         NEW jump \in {"JmpIfFalse", "JmpIfTrue"}, NEW d \in Int,
         Takes(s, a, <<o + 1, i>>, X1, L),
         X1 \subseteq X, <<Len(s) + d + 2, <<o, i>>>> \in X
  PROVE  Takes(s \o Op1(jump, d), a, <<o, i>>, X, L)
<1> DEFINE f == <<o, i>>
           e == d + 2
<1>1. Takes(Op1(jump, d), <<o + 1, i>>, f, {<<e, f>>}, L)
  <2> DEFINE E == {<<e, f>>}
  <2>1. <<d + 2, <<o, i>>>> \in E
    OBVIOUS
  <2> HIDE DEF E
  <2>2. Takes(Op1(jump, d), <<o + 1, i>>, <<o, i>>, E, L)
    BY <2>1, JmpIfTakes
  <2>3. QED
    BY <2>2 DEF E
<1>2. e \in Int /\ e + Len(s) = Len(s) + d + 2
  BY Ends
<1>3. <<e + Len(s), f>> \in X
  BY <1>2
<1> HIDE DEF f, e
<1>4. Takes(s \o Op1(jump, d), a, f, X, L)
  BY <1>1, <1>2, <1>3, ExitShared
<1>5. QED
  BY <1>4 DEF f

\* Guard("Jmp", t) after code that ends with what t should end with, or leaves to
\* just behind the jump.
LEMMA EitherTakes ==
  ASSUME NEW s, NEW t, NEW a, NEW b, NEW d, NEW L,
         Takes(s, a, d, {<<Len(s) + 2, b>>}, L), Takes(t, b, d, {}, L)
  PROVE  Takes(s \o Guard("Jmp", t), a, d, {}, L)
<1> DEFINE J == Op1("Jmp", Len(t))
           n == Len(t)
           m == Len(s)
           X1 == {<<m + 2, b>>}
           X2 == {<<n + 2, d>>}
           X == {<<m + n + 2, d>>}
           st == s \o J
           none == {}
<1>1. IsSeq(s) /\ m \in Nat /\ IsSeq(t) /\ n \in Nat /\ b \in Height /\ d \in Height
  BY Ends
<1>2. Takes(J, d, b, X2, L)
  <2>1. <<n + 2, d>> \in X2
    OBVIOUS
  <2> HIDE DEF X2
  <2>2. QED
    BY <1>1, <2>1, JmpTakes
<1>3. IsSeq(J) /\ Len(J) = 1
  BY OneOperation DEF Op1
<1>4. Takes(s, a, d, X1, L)
  OBVIOUS
<1>5. \A i \in Int : \A g : <<i, g>> \in X1 => <<i, g>> \in X \/ (i = m + Len(J) + 1 /\ g = b)
  <2> HIDE DEF m, n, J
  <2>1. m + 2 = m + Len(J) + 1
    <3>1. m \in Nat /\ Len(J) = 1
      BY <1>1, <1>3
    <3>2. QED
      BY <3>1
  <2>2. QED
    BY <2>1
<1>6. \A i \in Int : \A g : <<i, g>> \in X2 => <<i + m, g>> \in X \/ (i = 1 - m /\ g = a)
  BY <1>1
<1>7. Len(st) = m + 1
  BY <1>1, <1>3, Concatenated
<1>8. \A i \in Int : \A g : <<i, g>> \in X => <<i, g>> \in none \/ (i = Len(st) + n + 1 /\ g = d)
  BY <1>1, <1>7
<1>9. Takes(t, b, d, none, L)
  OBVIOUS
<1>10. \A i \in Int : \A g : <<i, g>> \in none => <<i + Len(st), g>> \in none \/ (i = 1 - Len(st) /\ g = a)
  OBVIOUS
<1>11. st \o t = s \o Guard("Jmp", t)
  BY <1>1, <1>3, Regrouped DEF Guard
<1> HIDE DEF X1, X2, X, none, J
<1>12. Takes(st, a, b, X, L)
  BY ONLY <1>2, <1>4, <1>5, <1>6, Joined
<1> HIDE DEF st
<1>13. Takes(st \o t, a, d, none, L)
  BY ONLY <1>8, <1>9, <1>10, <1>12, Joined
<1>14. QED
  BY <1>11, <1>13 DEF none

----------------------------------------------------------------------------
(* What is to be shown of a compiler, if it holds of the one for the parts. *)

IsPath(p) == IsRoot(p.root) /\ IsSeq(p.keys)

\* The stacks before and after a statement, and where it leaves to.
HeightAt(at) == <<0, at.iters>>
LeavesAt(at) ==
  CASE at.loop = "none" -> <<Nowhere, Nowhere>>
    [] at.loop = "loop" -> <<HeightAt(at), HeightAt(at)>>
    [] at.loop = "switch" -> <<HeightAt(at), Nowhere>>
    [] at.loop = "foreach" -> <<<<0, at.iters - 1>>, HeightAt(at)>>
Stays(code, at) == Takes(code, HeightAt(at), HeightAt(at), {}, LeavesAt(at))

\* In a foreach there is an iterator.
Possible(at) == at \in Place /\ (at.loop = "foreach" => at.iters > 0)

Sound(c) ==
  /\ \A e \in Node : Turns(c.expr[e], 0, 1) /\ Turns(c.effect[e], 0, 0)
  /\ \A e \in Node : c.path[e] = NoPath \/ IsPath(c.path[e])
  /\ \A x \in Node \X Place : Possible(x[2]) => Stays(c.stmt[x], x[2])

\* Lists of the syntax are sequences.
LEMMA ListIsSeq ==
  ASSUME NEW s, IsList(s)
  PROVE  IsSeq(s) /\ Len(s) \in Nat /\ DOMAIN s = 1..Len(s)
<1>1. IsSeq(s)
  BY DEF IsList, IsSeq
<1>2. QED
  BY <1>1, SeqIsFunction

\* Small numbers.
LEMMA Zero ==
  0 \in Nat /\ 1 \in Nat /\ 2 \in Nat /\ 3 \in Nat /\ 0 + 1 = 1 /\ 1 + 1 = 2 /\ 2 + 1 = 3
OBVIOUS

\* The parts of a construct, when the compiler of parts is sound.
LEMMA PartTurns ==
  ASSUME NEW c, Sound(c), NEW e
  PROVE  Turns(Expr(c, e), 0, 1) /\ Turns(ExprStmt(c, e), 0, 0)
<1>1. CASE e \in Node
  BY <1>1 DEF Sound, Expr, ExprStmt
<1>2. CASE e \notin Node
  BY <1>2, RefusedTurns DEF Expr, ExprStmt
<1>3. QED
  BY <1>1, <1>2

\* Above d operands.
LEMMA PartAbove ==
  ASSUME NEW c, Sound(c), NEW e, NEW d \in Nat
  PROVE  Turns(Expr(c, e), d, d + 1)
<1>1. Turns(Expr(c, e), 0 + d, 1 + d)
  BY PartTurns, TurnsAbove
<1>2. 0 + d = d /\ 1 + d = d + 1
  OBVIOUS
<1>3. QED
  BY <1>1, <1>2

\* Pieces in a row that each leave the stack as it was.
LEMMA FlattenLevel ==
  ASSUME NEW cs, NEW n \in Nat, cs = [i \in 1..n |-> cs[i]], NEW m \in Nat,
         \A i \in 1..n : Turns(cs[i], m, m)
  PROVE  Turns(FlattenSeq(cs), m, m)
<1> DEFINE g == [i \in 1..(n + 1) |-> m]
<1>1. g \in [1..(n + 1) -> Nat] /\ g[1] = m /\ g[n + 1] = m
  OBVIOUS
<1>2. \A i \in 1..n : g[i] = m /\ g[i + 1] = m
  OBVIOUS
<1>3. IsSeq(cs) /\ Len(cs) = n
  BY FunctionIsSeq
<1> HIDE DEF g
<1>4. Turns(FlattenSeq(cs), g[1], g[n + 1])
  BY <1>1, <1>2, <1>3, FlattenTurns
<1>5. QED
  BY <1>1, <1>4

\* Pieces in a row that each push one value.
LEMMA FlattenUp ==
  ASSUME NEW cs, NEW n \in Nat, cs = [i \in 1..n |-> cs[i]],
         \A i \in 1..n : \A d \in Nat : Turns(cs[i], d, d + 1)
  PROVE  Turns(FlattenSeq(cs), 0, n)
<1> DEFINE g == [i \in 1..(n + 1) |-> i - 1]
<1>1. g \in [1..(n + 1) -> Nat] /\ g[1] = 0 /\ g[n + 1] = n
  OBVIOUS
<1>2. \A i \in 1..n : g[i] \in Nat /\ g[i + 1] = g[i] + 1
  OBVIOUS
<1>3. IsSeq(cs) /\ Len(cs) = n
  BY FunctionIsSeq
<1> HIDE DEF g
<1>4. \A i \in 1..n : Turns(cs[i], g[i], g[i + 1])
  BY <1>2
<1>5. Turns(FlattenSeq(cs), g[1], g[n + 1])
  BY <1>1, <1>3, <1>4, FlattenTurns
<1>6. QED
  BY <1>1, <1>5

\* Each and EachStmt: one value per expression, or none.
LEMMA EachTurns ==
  ASSUME NEW c, Sound(c), NEW es, IsSeq(es)
  PROVE  Turns(Each(c, es), 0, Len(es)) /\ Turns(EachStmt(c, es), 0, 0) /\ Len(es) \in Nat
<1>1. DOMAIN es = 1..Len(es) /\ Len(es) \in Nat
  BY SeqIsFunction
<1> DEFINE n == Len(es)
           cs == [i \in 1..n |-> Expr(c, es[i])]
           ds == [i \in 1..n |-> ExprStmt(c, es[i])]
<1>2. Each(c, es) = FlattenSeq(cs) /\ EachStmt(c, es) = FlattenSeq(ds)
  BY <1>1 DEF Each, EachStmt
<1>3. \A i \in 1..n : (\A d \in Nat : Turns(cs[i], d, d + 1)) /\ Turns(ds[i], 0, 0)
  BY PartAbove, PartTurns
<1>4. cs = [i \in 1..n |-> cs[i]] /\ ds = [i \in 1..n |-> ds[i]] /\ n \in Nat
  BY <1>1
<1> HIDE DEF cs, ds, n
<1>5. Turns(FlattenSeq(cs), 0, n) /\ Turns(FlattenSeq(ds), 0, 0)
  BY <1>3, <1>4, Zero, FlattenUp, FlattenLevel
<1>6. QED
  BY <1>2, <1>4, <1>5 DEF n

\* A literal.
LEMMA LiteralTurns ==
  ASSUME NEW v \in Literal
  PROVE  Turns(Push(v), 0, 1)
BY PushesMove, OneMoves, Zero DEF Push

\* The constants the compiler puts in itself.
LEMMA ConstantsTurn ==
  /\ Turns(Push(Null), 0, 1) /\ Turns(Push(IntVal(0)), 0, 1) /\ Turns(Push(IntVal(1)), 0, 1)
  /\ Turns(Push(StrVal(<<>>)), 0, 1)
  /\ \A b \in BOOLEAN : Turns(Push(BoolVal(b)), 0, 1)
BY LiteralTurns, LiteralsOfTheCompiler

\* Every variable and every subject of a switch has a slot.
LEMMA VariablesAreSlots ==
  /\ VarName \subseteq Slot /\ \A i \in DOMAIN SwitchSlot : SwitchSlot[i] \in Slot
  /\ \A e \in Node : /\ e[1] = "var" => e[2] \in Slot /\ IsRoot(e)
                     /\ e[1] = "prop" => IsRoot(e)
<1>1. VarName \subseteq Slot /\ \A i \in DOMAIN SwitchSlot : SwitchSlot[i] \in Slot
  BY ChunksAreCompiled DEF AllSlots, Range
<1>2. ASSUME NEW e \in Node, e[1] = "var" PROVE e[2] \in Slot /\ IsRoot(e)
  <2>1. e \in {"var"} \X VarName
    BY <1>2, SyntaxIsTyped DEF IsTyped
  <2>2. e \in {"var"} \X Slot
    BY <1>1, <2>1
  <2>3. QED
    BY <2>2 DEF IsRoot
<1>3. QED
  BY <1>1, <1>2 DEF IsRoot

\* ArrayCode leaves one value.
LEMMA ArrayTurns ==
  ASSUME NEW c, Sound(c), NEW items, IsList(items)
  PROVE  Turns(ArrayCode(c, items), 0, 1)
<1>1. IsSeq(items) /\ Len(items) \in Nat /\ DOMAIN items = 1..Len(items)
  BY ListIsSeq
<1> DEFINE n == Len(items)
           cs == [i \in 1..n |->
                    IF items[i][1] = NoExpr THEN Expr(c, items[i][2]) \o <<<<"ArrPush">>>>
                    ELSE Expr(c, items[i][1]) \o Expr(c, items[i][2]) \o <<<<"ArrSet">>>>]
<1>2. ArrayCode(c, items) = <<<<"NewArr">>>> \o FlattenSeq(cs)
  BY <1>1 DEF ArrayCode
<1>3. ASSUME NEW e, NEW f
      PROVE  /\ Turns(Expr(c, e) \o <<<<"ArrPush">>>>, 1, 1)
             /\ Turns(Expr(c, e) \o Expr(c, f) \o <<<<"ArrSet">>>>, 1, 1)
  <2>1. Turns(Expr(c, e), 1, 2) /\ Turns(Expr(c, f), 2, 3)
    BY PartAbove, Zero
  <2>2. Turns(Expr(c, e) \o Expr(c, f), 1, 3)
    BY <2>1, TurnsInARow
  <2>3. QED
    BY <2>1, <2>2, ThenOp, ChangesMove, Zero
<1>4. \A i \in 1..n : Turns(cs[i], 1, 1)
  BY <1>3
<1>5. cs = [i \in 1..n |-> cs[i]] /\ n \in Nat
  BY <1>1
<1> HIDE DEF cs, n
<1>6. Turns(FlattenSeq(cs), 1, 1)
  BY <1>4, <1>5, Zero, FlattenLevel
<1>7. Turns(<<<<"NewArr">>>>, 0, 1)
  BY PushesMove, MovesTurns, Zero
<1>8. QED
  BY <1>2, <1>6, <1>7, TurnsInARow

\* TemplateCode leaves one value.
LEMMA TemplateTurns ==
  ASSUME NEW c, Sound(c), NEW parts, IsList(parts)
  PROVE  Turns(TemplateCode(c, parts), 0, 1)
<1>1. IsSeq(parts) /\ Len(parts) \in Nat
  BY ListIsSeq
<1>2. CASE parts = <<>>
  BY <1>2, ConstantsTurn DEF TemplateCode
<1>3. CASE parts # <<>>
  <2> DEFINE n == Len(parts) - 1
             cs == [i \in 1..n |-> Expr(c, parts[i + 1]) \o Op1("Bin", ".")]
  <2>1. n \in Nat
    <3>1. PICK S : parts \in Seq(S)
      BY <1>1 DEF IsSeq
    <3>2. Len(parts) \in Nat \ {0}
      BY <1>3, <3>1, EmptySeq
    <3>3. QED
      BY <3>2
  <2>2. TemplateCode(c, parts) = Expr(c, parts[1]) \o FlattenSeq(cs)
    BY <1>3 DEF TemplateCode
  <2>3. ASSUME NEW e PROVE Turns(Expr(c, e) \o Op1("Bin", "."), 1, 1)
    <3>1. Turns(Expr(c, e), 1, 2) /\ "." \in BinOps
      BY PartAbove, Zero DEF BinOps
    <3>2. QED
      BY <3>1, ThenOp, ChangesMove, Zero DEF Op1
  <2>4. cs = [i \in 1..n |-> cs[i]] /\ \A i \in 1..n : Turns(cs[i], 1, 1)
    BY <2>3
  <2> HIDE DEF cs, n
  <2>5. Turns(FlattenSeq(cs), 1, 1)
    BY <2>1, <2>4, Zero, FlattenLevel
  <2>6. QED
    BY <2>2, <2>5, PartTurns, TurnsInARow
<1>4. QED
  BY <1>2, <1>3

\* UnaryCode leaves one value.
LEMMA UnaryTurns ==
  ASSUME NEW c, Sound(c), NEW op, NEW e
  PROVE  Turns(UnaryCode(c, op, e), 0, 1)
<1>1. Turns(Expr(c, e), 0, 1) /\ Turns(Expr(c, e), 1, 2)
  BY PartTurns, PartAbove, Zero
<1>2. Turns(Expr(c, e) \o <<<<"Not">>>>, 0, 1) /\ Turns(Expr(c, e) \o <<<<"Neg">>>>, 0, 1)
  BY <1>1, ThenOp, ChangesMove, Zero
<1>3. Turns(Push(IntVal(0)) \o Expr(c, e) \o Op1("Bin", "+"), 0, 1)
  <2>1. Turns(Push(IntVal(0)) \o Expr(c, e), 0, 2) /\ "+" \in BinOps
    BY <1>1, ConstantsTurn, TurnsInARow DEF BinOps
  <2>2. QED
    BY <2>1, ThenOp, ChangesMove, Zero DEF Op1
<1>4. Turns(Bail, 0, 1)
  BY RefusedTurns, Zero
<1>5. QED
  BY <1>2, <1>3, <1>4 DEF UnaryCode

\* The length of two pieces in a row.
LEMMA Measured ==
  ASSUME NEW s, NEW t, IsSeq(s), IsSeq(t)
  PROVE  IsSeq(s \o t) /\ Len(s \o t) = Len(s) + Len(t)
BY Concatenated

\* Op1 is a single operation.
LEMMA IsOperation ==
  ASSUME NEW name, NEW x
  PROVE  IsSeq(Op1(name, x)) /\ Len(Op1(name, x)) = 1
BY OneOperation DEF Op1

\* No code, at any depth.
LEMMA NothingTurns ==
  ASSUME NEW n \in Nat
  PROVE  Turns(<<>>, n, n)
<1>1. \A o \in Nat, i \in Nat : <<o + n, i>> \in Height
  BY DEF Height
<1>2. QED
  BY <1>1, NoOperation DEF Turns

\* The value stays, or the other takes its place.
LEMMA OrElseTurns ==
  ASSUME NEW c, Sound(c), NEW test, Turns(test, 1, 1), NEW e, NEW jump \in {"JmpIfFalse", "JmpIfTrue"}
  PROVE  Turns(OrElse(c, test, jump, e), 1, 1)
<1> DEFINE p == <<<<"Dup">>>> \o test
           s == p \o Op1(jump, 1)
           t == <<<<"Pop">>>> \o Expr(c, e)
<1>1. OrElse(c, test, jump, e) = s \o Guard("Jmp", t)
  BY DEF OrElse
<1>2. Turns(p, 1, 2)
  <2>1. Turns(<<<<"Dup">>>>, 1, 2)
    BY ChangesMove, MovesTurns, Zero
  <2>2. Turns(test, 1 + 1, 1 + 1)
    BY TurnsAbove, Zero
  <2>3. QED
    BY <2>1, <2>2, Zero, TurnsInARow
<1>3. Turns(t, 1, 1)
  <2>1. Turns(<<<<"Pop">>>>, 1, 0)
    BY StoresMove, MovesTurns, Zero
  <2>2. QED
    BY <2>1, PartTurns, TurnsInARow
<1> HIDE DEF p, t
<1>4. Len(s) = Len(p) + 1 /\ Len(p) \in Nat
  <2> DEFINE J == Op1(jump, 1)
  <2>1. IsSeq(p) /\ Len(p) \in Nat
    BY <1>2, TurnsIsSeq
  <2>2. IsSeq(J) /\ Len(J) = 1
    BY IsOperation
  <2> HIDE DEF J
  <2>3. Len(p \o J) = Len(p) + Len(J)
    BY ONLY <2>1, <2>2, Measured
  <2>4. QED
    BY <2>1, <2>2, <2>3 DEF J
<1>5. ASSUME NEW o \in Nat, NEW i \in Nat, NEW L \in Leaves
      PROVE  Takes(s \o Guard("Jmp", t), <<o + 1, i>>, <<o + 1, i>>, {}, L)
  <2> DEFINE a == <<o + 1, i>>
             X == {<<Len(s) + 2, a>>}
             none == {}
  <2>1. Takes(p, a, <<(o + 1) + 1, i>>, none, L)
    <3>1. (o + 1) + 1 = o + 2
      OBVIOUS
    <3>2. QED
      BY <1>2, <3>1 DEF Turns
  <2>2. Len(p) + 1 + 2 = Len(s) + 2
    BY <1>4
  <2>3. <<Len(p) + 1 + 2, <<o + 1, i>>>> \in X /\ none \subseteq X
    BY <2>2
  <2>4. o + 1 \in Nat /\ 1 \in Int
    OBVIOUS
  <2>5. Takes(t, a, a, none, L)
    BY <1>3 DEF Turns
  <2> HIDE DEF X, none
  <2>6. Takes(s, a, <<o + 1, i>>, X, L)
    BY <2>1, <2>3, <2>4, TestTakes
  <2> HIDE DEF s
  <2>7. Takes(s \o Guard("Jmp", t), a, a, {}, L)
    BY <2>5, <2>6, EitherTakes DEF X, none, a
  <2>8. QED
    BY <2>7
<1>6. QED
  BY <1>1, <1>5 DEF Turns

\* Both tests leave to the constant that decides.
LEMMA ShortCircuitTurns ==
  ASSUME NEW c, Sound(c), NEW l, NEW r, NEW jump \in {"JmpIfFalse", "JmpIfTrue"}, NEW decided \in BOOLEAN
  PROVE  Turns(ShortCircuit(c, l, r, jump, decided), 0, 1)
<1> DEFINE P1 == Push(BoolVal(~decided))
           P2 == Push(BoolVal(decided))
           left == Expr(c, l)
           right == Expr(c, r)
           J2 == Op1(jump, 2)
           s2 == (right \o J2) \o P1
           G == Guard("Jmp", P2)
           second == (right \o J2) \o (P1 \o G)
           d1 == Len(second) - 1
           J1 == Op1(jump, d1)
           s1 == left \o J1
           s == s1 \o s2
<1>1. ShortCircuit(c, l, r, jump, decided) = s1 \o second
  BY DEF ShortCircuit
<1>2. Turns(P1, 0, 1) /\ Turns(P2, 0, 1) /\ Turns(left, 0, 1) /\ Turns(right, 0, 1)
  BY ConstantsTurn, PartTurns
<1>3. IsSeq(P1) /\ Len(P1) = 1
  BY IsOperation DEF Push
<1>4. IsSeq(P2) /\ Len(P2) = 1
  BY IsOperation DEF Push
<1>5. IsSeq(J1) /\ Len(J1) = 1
  BY IsOperation
<1>6. IsSeq(J2) /\ Len(J2) = 1
  BY IsOperation
<1>7. IsSeq(left) /\ Len(left) \in Nat
  BY <1>2, TurnsIsSeq
<1>8. IsSeq(right) /\ Len(right) \in Nat
  BY <1>2, TurnsIsSeq
<1>9. IsSeq(G) /\ Len(G) = 2
  <2> DEFINE J == Op1("Jmp", Len(P2))
  <2>1. IsSeq(J) /\ Len(J) = 1
    BY IsOperation
  <2> HIDE DEF J, P2
  <2>2. IsSeq(J \o P2) /\ Len(J \o P2) = Len(J) + Len(P2)
    BY ONLY <1>4, <2>1, Measured
  <2>3. IsSeq(J \o P2) /\ Len(J \o P2) = 2
    BY ONLY <1>4, <2>1, <2>2
  <2>4. QED
    BY <2>3 DEF Guard, J
<1> HIDE DEF P1, P2, left, right, J2, J1, G
<1>10. IsSeq(right \o J2) /\ Len(right \o J2) = Len(right) + 1
  <2>1. IsSeq(right \o J2) /\ Len(right \o J2) = Len(right) + Len(J2)
    BY ONLY <1>6, <1>8, Measured
  <2>2. QED
    BY ONLY <1>6, <2>1
<1>11. IsSeq(s2) /\ Len(s2) = Len(right) + 2
  <2>1. IsSeq(s2) /\ Len(s2) = Len(right \o J2) + Len(P1)
    BY ONLY <1>3, <1>10, Measured DEF s2
  <2> HIDE DEF s2
  <2>2. QED
    BY ONLY <1>3, <1>8, <1>10, <2>1
<1>12. second = s2 \o G
  <2> DEFINE q == right \o J2
  <2>1. IsSeq(q) /\ IsSeq(P1) /\ IsSeq(G)
    BY <1>3, <1>9, <1>10
  <2> HIDE DEF q
  <2>2. (q \o P1) \o G = q \o (P1 \o G)
    BY ONLY <2>1, Regrouped
  <2>3. QED
    BY ONLY <2>2 DEF s2, second, q
<1> HIDE DEF s2, second
<1>13. d1 = Len(right) + 3
  <2>1. Len(s2 \o G) = Len(s2) + Len(G)
    BY ONLY <1>9, <1>11, Measured
  <2>2. QED
    BY ONLY <1>8, <1>9, <1>11, <1>12, <2>1 DEF d1
<1> HIDE DEF d1
<1>14. IsSeq(s1) /\ Len(s1) = Len(left) + 1
  <2>1. IsSeq(left \o J1) /\ Len(left \o J1) = Len(left) + Len(J1)
    BY ONLY <1>5, <1>7, Measured
  <2>2. QED
    BY ONLY <1>5, <2>1 DEF s1
<1> HIDE DEF s1
<1>15. s1 \o second = s \o G /\ Len(s) = Len(left) + Len(right) + 3
  <2>1. (s1 \o s2) \o G = s1 \o (s2 \o G)
    BY ONLY <1>9, <1>11, <1>14, Regrouped
  <2>2. Len(s1 \o s2) = Len(s1) + Len(s2)
    BY ONLY <1>11, <1>14, Measured
  <2>3. Len(s1) + Len(s2) = Len(left) + Len(right) + 3
    BY ONLY <1>7, <1>8, <1>11, <1>14
  <2>4. QED
    BY ONLY <1>12, <2>1, <2>2, <2>3 DEF s
<1> HIDE DEF s
<1>16. ASSUME NEW o \in Nat, NEW i \in Nat, NEW L \in Leaves
       PROVE  Takes(s \o G, <<o + 0, i>>, <<o + 1, i>>, {}, L)
  <2> DEFINE b == <<o, i>>
             d == <<o + 1, i>>
             none == {}
             e == Len(s2) + 2
             X2 == {<<e, b>>}
             X == {<<Len(s) + 2, b>>}
  <2>1. /\ Takes(left, b, d, none, L) /\ Takes(right, b, d, none, L)
        /\ Takes(P1, b, d, none, L) /\ Takes(P2, b, d, none, L)
    BY <1>2 DEF Turns
  <2>2. <<Len(right) + 2 + 2, b>> \in X2 /\ none \subseteq X2
    BY <1>8, <1>11
  <2>3. <<Len(left) + d1 + 2, b>> \in X /\ none \subseteq X
    BY <1>7, <1>8, <1>13, <1>15
  <2>4. e \in Int /\ e + Len(s1) = Len(s) + 2
    BY <1>7, <1>8, <1>11, <1>14, <1>15
  <2>5. <<e + Len(s1), b>> \in X /\ X \subseteq X
    BY <2>4
  <2>6. d1 \in Int /\ 2 \in Int
    BY <1>8, <1>13
  <2> HIDE DEF none, X2, X
  <2>7. Takes(right \o J2, b, b, X2, L)
    BY <2>1, <2>2, <2>6, TestTakes DEF J2
  <2>8. Takes(s2, b, d, X2, L)
    BY <2>1, <2>7, ExitsKept DEF s2, none
  <2>9. Takes(s1, b, b, X, L)
    BY <2>1, <2>3, <2>6, TestTakes DEF s1, J1
  <2> HIDE DEF e, b, d
  <2>10. Takes(s1 \o s2, b, d, X, L)
    BY <2>4, <2>5, <2>8, <2>9, ExitShared DEF X2
  <2>11. Takes(s \o Guard("Jmp", P2), b, d, {}, L)
    BY <2>1, <2>10, EitherTakes DEF X, none, s
  <2>12. QED
    BY <2>11 DEF G, b, d
<1>17. QED
  BY <1>1, <1>15, <1>16 DEF Turns

\* One of two pieces of code, after a condition.
LEMMA ChooseTakes ==
  ASSUME NEW cond, NEW then, NEW els, NEW a, NEW d, NEW o \in Nat, NEW i \in Nat, NEW L,
         Takes(cond, a, <<o + 1, i>>, {}, L), Takes(then, <<o, i>>, d, {}, L),
         Takes(els, <<o, i>>, d, {}, L)
  PROVE  Takes(Choose(cond, then, els), a, d, {}, L)
<1> DEFINE J == Op1("Jmp", Len(els))
           n == Len(then \o J)
           JIF == Op1("JmpIfFalse", n)
           s1 == cond \o JIF
           s == s1 \o then
           b == <<o, i>>
           none == {}
           X == {<<Len(s) + 2, b>>}
<1>1. IsSeq(cond) /\ Len(cond) \in Nat
  BY Ends
<1>2. IsSeq(then) /\ Len(then) \in Nat
  BY Ends
<1>3. IsSeq(els) /\ Len(els) \in Nat
  BY Ends
<1>4. IsSeq(J) /\ Len(J) = 1
  BY IsOperation
<1>5. IsSeq(JIF) /\ Len(JIF) = 1
  BY IsOperation
<1>6. Choose(cond, then, els) = (cond \o (JIF \o (then \o J))) \o els /\ Guard("Jmp", els) = J \o els
  BY DEF Choose, Guard
<1> HIDE DEF J, JIF
<1>7. IsSeq(then \o J) /\ n = Len(then) + 1
  <2>1. IsSeq(then \o J) /\ Len(then \o J) = Len(then) + Len(J)
    BY ONLY <1>2, <1>4, Measured
  <2>2. QED
    BY ONLY <1>4, <2>1 DEF n
<1> HIDE DEF n
<1>a. IsSeq(s1) /\ Len(s1) = Len(cond) + 1
  <2>1. IsSeq(cond \o JIF) /\ Len(cond \o JIF) = Len(cond) + Len(JIF)
    BY ONLY <1>1, <1>5, Measured
  <2>2. QED
    BY ONLY <1>5, <2>1 DEF s1
<1>b. cond \o (JIF \o (then \o J)) = s1 \o (then \o J)
  BY ONLY <1>1, <1>5, <1>7, Regrouped DEF s1
<1> HIDE DEF s1
<1>c. IsSeq(s) /\ Len(s) = Len(cond) + 1 + Len(then)
  <2>1. IsSeq(s1 \o then) /\ Len(s1 \o then) = Len(s1) + Len(then)
    BY ONLY <1>2, <1>a, Measured
  <2>2. QED
    BY ONLY <1>a, <2>1 DEF s
<1>d. s1 \o (then \o J) = s \o J
  <2>1. IsSeq(s1) /\ IsSeq(then) /\ IsSeq(J)
    BY <1>2, <1>4, <1>a
  <2>2. (s1 \o then) \o J = s1 \o (then \o J)
    BY ONLY <2>1, Regrouped
  <2>3. QED
    BY ONLY <2>2 DEF s
<1> HIDE DEF s
<1>e. (s \o J) \o els = s \o (J \o els)
  BY ONLY <1>3, <1>4, <1>c, Regrouped
<1>8. Choose(cond, then, els) = s \o Guard("Jmp", els)
  BY <1>6, <1>b, <1>d, <1>e
<1>9. <<Len(cond) + n + 2, b>> \in X /\ none \subseteq X /\ n \in Int
  <2>1. Len(cond) + n + 2 = Len(s) + 2 /\ n \in Int
    BY <1>1, <1>2, <1>7, <1>c
  <2>2. QED
    BY <2>1
<1>10. Takes(cond, a, <<o + 1, i>>, none, L) /\ Takes(then, b, d, none, L) /\ Takes(els, b, d, none, L)
  OBVIOUS
<1> HIDE DEF X, none
<1>11. Takes(s1, a, b, X, L)
  BY <1>9, <1>10, TestTakes DEF JIF, s1
<1> HIDE DEF b
<1>12. Takes(s, a, d, X, L)
  BY <1>10, <1>11, ExitsKept DEF none, s
<1>13. Takes(s \o Guard("Jmp", els), a, d, {}, L)
  BY <1>10, <1>12, EitherTakes DEF X, none
<1>14. QED
  BY <1>8, <1>13

\* One of two values.
LEMMA ChooseTurns ==
  ASSUME NEW cond, NEW then, NEW els, Turns(cond, 0, 1), Turns(then, 0, 1), Turns(els, 0, 1)
  PROVE  Turns(Choose(cond, then, els), 0, 1)
<1>1. ASSUME NEW o \in Nat, NEW i \in Nat, NEW L \in Leaves
      PROVE  Takes(Choose(cond, then, els), <<o + 0, i>>, <<o + 1, i>>, {}, L)
  <2>1. o + 0 = o
    OBVIOUS
  <2>2. /\ Takes(cond, <<o, i>>, <<o + 1, i>>, {}, L) /\ Takes(then, <<o, i>>, <<o + 1, i>>, {}, L)
        /\ Takes(els, <<o, i>>, <<o + 1, i>>, {}, L)
    BY <2>1 DEF Turns
  <2>3. QED
    BY <2>1, <2>2, ChooseTakes
<1>2. QED
  BY <1>1 DEF Turns

\* CoalesceCode leaves one value.
LEMMA CoalesceTurns ==
  ASSUME NEW c, Sound(c), NEW l \in Node, NEW r
  PROVE  Turns(CoalesceCode(c, l, r), 0, 1)
<1> DEFINE quiet == CASE l[1] = "var" -> Op1("LoadQuiet", l[2])
                      [] l[1] = "index" /\ l[2][1] = "var" /\ l[3] # NoExpr ->
                           Expr(c, l[3]) \o Op1("LoadIndexQuiet", l[2][2])
                      [] OTHER -> Bail
<1>1. CoalesceCode(c, l, r) = quiet \o OrElse(c, <<<<"IsNull">>>>, "JmpIfTrue", r)
  BY DEF CoalesceCode
<1>2. Turns(quiet, 0, 1)
  <2>1. CASE l[1] = "var"
    <3>1. Turns(Op1("LoadQuiet", l[2]), 0, 1)
      BY <2>1, VariablesAreSlots, PushesMove, OneMoves, Zero
    <3>2. quiet = Op1("LoadQuiet", l[2])
      BY <2>1
    <3>3. QED
      BY <3>1, <3>2
  <2>2. CASE l[1] = "index" /\ l[2][1] = "var" /\ l[3] # NoExpr
    <3>1. l[2][2] \in Slot
      BY <2>2, SyntaxIsTyped, VariablesAreSlots DEF IsTyped
    <3>2. Turns(Expr(c, l[3]) \o Op1("LoadIndexQuiet", l[2][2]), 0, 1)
      BY <3>1, PartTurns, ThenOp, ChangesMove, Zero DEF Op1
    <3>3. quiet = Expr(c, l[3]) \o Op1("LoadIndexQuiet", l[2][2])
      BY <2>2
    <3>4. QED
      BY <3>2, <3>3
  <2>3. CASE l[1] # "var" /\ ~ (l[1] = "index" /\ l[2][1] = "var" /\ l[3] # NoExpr)
    <3>1. quiet = Bail
      BY <2>3
    <3>2. QED
      BY <3>1, RefusedTurns, Zero
  <2>4. QED
    BY <2>1, <2>2, <2>3
<1> HIDE DEF quiet
<1>3. Turns(OrElse(c, <<<<"IsNull">>>>, "JmpIfTrue", r), 1, 1)
  <2>1. Turns(<<<<"IsNull">>>>, 1, 1)
    BY ChangesMove, MovesTurns, Zero
  <2>2. QED
    BY <2>1, OrElseTurns
<1>4. QED
  BY <1>1, <1>2, <1>3, TurnsInARow

\* CondCode leaves one value, in its short form too.
LEMMA CondTurns ==
  ASSUME NEW c, Sound(c), NEW cond, NEW mid, NEW els
  PROVE  Turns(CondCode(c, cond, mid, els), 0, 1)
<1>1. Turns(Expr(c, cond), 0, 1) /\ Turns(Expr(c, mid), 0, 1) /\ Turns(Expr(c, els), 0, 1)
  BY PartTurns
<1>2. Turns(Expr(c, cond) \o OrElse(c, <<>>, "JmpIfFalse", els), 0, 1)
  <2>1. Turns(OrElse(c, <<>>, "JmpIfFalse", els), 1, 1)
    BY OrElseTurns, NothingTurns, Zero
  <2>2. QED
    BY <1>1, <2>1, TurnsInARow
<1>3. Turns(Choose(Expr(c, cond), Expr(c, mid), Expr(c, els)), 0, 1)
  BY <1>1, ChooseTurns
<1>4. QED
  BY <1>2, <1>3 DEF CondCode

\* BinaryCode leaves one value.
LEMMA BinaryTurns ==
  ASSUME NEW c, Sound(c), NEW op \in BinOps \cup {"&&", "||", "??"}, NEW l \in Node, NEW r
  PROVE  Turns(BinaryCode(c, op, l, r), 0, 1)
<1>1. Turns(ShortCircuit(c, l, r, "JmpIfFalse", FALSE), 0, 1) /\ Turns(ShortCircuit(c, l, r, "JmpIfTrue", TRUE), 0, 1)
  BY ShortCircuitTurns
<1>2. Turns(CoalesceCode(c, l, r), 0, 1)
  BY CoalesceTurns
<1>3. ASSUME op \notin {"&&", "||", "??"} PROVE Turns(Expr(c, l) \o Expr(c, r) \o Op1("Bin", op), 0, 1)
  <2>1. Turns(Expr(c, l), 0, 1) /\ Turns(Expr(c, r), 1, 2)
    BY PartTurns, PartAbove, Zero
  <2>2. Turns(Expr(c, l) \o Expr(c, r), 0, 2)
    BY <2>1, TurnsInARow
  <2>3. QED
    BY <1>3, <2>2, ThenOp, ChangesMove, Zero DEF Op1
<1>4. QED
  BY <1>1, <1>2, <1>3 DEF BinaryCode

\* IncDecStmt leaves the stack, IncDecCode one value.
LEMMA IncDecTurns ==
  ASSUME NEW by, NEW e \in Node, NEW prefix
  PROVE  Turns(IncDecStmt(by, e), 0, 0) /\ Turns(IncDecCode(prefix, by, e), 0, 1)
<1>1. CASE e[1] # "var"
  BY <1>1, RefusedTurns, Zero DEF IncDecStmt, IncDecCode
<1>2. CASE e[1] = "var"
  <2> DEFINE op == IF by > 0 THEN "+" ELSE "-"
  <2>1. e[2] \in Slot
    BY <1>2, VariablesAreSlots
  <2>2. Turns(Op1("Load", e[2]), 0, 1) /\ Turns(Op1("LoadQuiet", e[2]), 0, 1) /\ Moves(<<"Store", e[2]>>, 1, 0)
    BY <2>1, PushesMove, StoresMove, OneMoves, Zero
  <2>3. op \in BinOps
    BY DEF BinOps
  <2>4. IncDecStmt(by, e) = ((Op1("Load", e[2]) \o Push(IntVal(1))) \o Op1("Bin", op)) \o Op1("Store", e[2])
    BY <1>2 DEF IncDecStmt
  <2>5. IncDecCode(prefix, by, e) =
          IF prefix THEN IncDecStmt(by, e) \o Op1("LoadQuiet", e[2])
          ELSE (((Op1("LoadQuiet", e[2]) \o <<<<"Dup">>>>) \o Push(IntVal(1))) \o Op1("Bin", op)) \o Op1("Store", e[2])
    BY <1>2 DEF IncDecCode
  <2> HIDE DEF op
  <2>6. Turns(Push(IntVal(1)), 0 + 1, 1 + 1) /\ Turns(Push(IntVal(1)), 0 + 2, 1 + 2)
    BY ConstantsTurn, TurnsAbove, Zero
  <2>7. Moves(<<"Bin", op>>, 2, 1) /\ Moves(<<"Dup">>, 1, 2)
    BY <2>3, ChangesMove
  <2>8. Turns(((Op1("Load", e[2]) \o Push(IntVal(1))) \o Op1("Bin", op)) \o Op1("Store", e[2]), 0, 0)
    <3>1. Turns(Op1("Load", e[2]) \o Push(IntVal(1)), 0, 2)
      BY <2>2, <2>6, Zero, TurnsInARow
    <3>2. Turns((Op1("Load", e[2]) \o Push(IntVal(1))) \o Op1("Bin", op), 0, 1)
      BY <2>7, <3>1, ThenOp, Zero DEF Op1
    <3>3. QED
      BY <2>2, <3>2, ThenOp, Zero DEF Op1
  <2>9. Turns((((Op1("LoadQuiet", e[2]) \o <<<<"Dup">>>>) \o Push(IntVal(1))) \o Op1("Bin", op)) \o Op1("Store", e[2]), 0, 1)
    <3>1. Turns(Op1("LoadQuiet", e[2]) \o <<<<"Dup">>>>, 0, 2)
      BY <2>2, <2>7, ThenOp, Zero
    <3>2. Turns((Op1("LoadQuiet", e[2]) \o <<<<"Dup">>>>) \o Push(IntVal(1)), 0, 3)
      BY <2>6, <3>1, Zero, TurnsInARow
    <3>3. Turns(Op1("Bin", op), 2 + 1, 1 + 1)
      BY <2>7, OneMoves, TurnsAbove, Zero
    <3>4. Turns(((Op1("LoadQuiet", e[2]) \o <<<<"Dup">>>>) \o Push(IntVal(1))) \o Op1("Bin", op), 0, 2)
      BY <3>2, <3>3, Zero, TurnsInARow
    <3>5. Turns(Op1("Store", e[2]), 1 + 1, 0 + 1)
      BY <2>2, OneMoves, TurnsAbove, Zero
    <3>6. QED
      BY <3>4, <3>5, Zero, TurnsInARow
  <2>10. QED
    BY <2>2, <2>4, <2>5, <2>8, <2>9, TurnsInARow
<1>3. QED
  BY <1>1, <1>2

\* Append lengthens a sequence by one.
LEMMA Appended ==
  ASSUME NEW s, NEW x, IsSeq(s)
  PROVE  IsSeq(Append(s, x)) /\ Len(Append(s, x)) = Len(s) + 1 /\ Len(s) \in Nat
<1>1. PICK S : s \in Seq(S)
  BY DEF IsSeq
<1>2. s \in Seq(S \cup {x}) /\ x \in S \cup {x}
  BY <1>1
<1>3. Append(s, x) \in Seq(S \cup {x}) /\ Len(Append(s, x)) = Len(s) + 1 /\ Len(s) \in Nat
  BY <1>2
<1>4. QED
  BY <1>3 DEF IsSeq

\* Keys are found one by one, the root is a variable or a property of $this.
LEMMA PathIsPath ==
  ASSUME NEW c, Sound(c), NEW e
  PROVE  /\ Path(c, e) = NoPath \/ IsPath(Path(c, e))
         /\ e \in Node => PathCode(c, e) = NoPath \/ IsPath(PathCode(c, e))
<1>1. \A f : Path(c, f) = NoPath \/ IsPath(Path(c, f))
  BY DEF Sound, Path
<1>2. ASSUME e \in Node, e[1] = "index", e[3] # NoExpr PROVE PathCode(c, e) = NoPath \/ IsPath(PathCode(c, e))
  <2> DEFINE path == Path(c, e[2])
             new == [root |-> path.root, keys |-> Append(path.keys, e[3])]
  <2>1. PathCode(c, e) = IF path = NoPath THEN NoPath ELSE new
    BY <1>2 DEF PathCode
  <2>2. ASSUME path # NoPath PROVE IsPath(new)
    <3>1. IsPath(path)
      BY <1>1, <2>2
    <3>2. IsRoot(path.root) /\ IsSeq(path.keys)
      BY <3>1 DEF IsPath
    <3> HIDE DEF path
    <3>3. IsSeq(Append(path.keys, e[3]))
      BY <3>2, Appended
    <3>4. new.root = path.root /\ new.keys = Append(path.keys, e[3])
      OBVIOUS
    <3>5. QED
      BY <3>2, <3>3, <3>4 DEF IsPath
  <2> HIDE DEF path, new
  <2>3. QED
    BY <2>1, <2>2
<1>3. ASSUME e \in Node, ~ (e[1] = "index" /\ e[3] # NoExpr)
      PROVE PathCode(c, e) = NoPath \/ IsPath(PathCode(c, e))
  <2> DEFINE new == [root |-> e, keys |-> <<>>]
  <2>1. PathCode(c, e) = IF e[1] \in {"var", "prop"} THEN new ELSE NoPath
    BY <1>3 DEF PathCode
  <2>2. ASSUME e[1] \in {"var", "prop"} PROVE IsPath(new)
    <3>1. IsRoot(e)
      BY <1>3, <2>2, VariablesAreSlots
    <3>2. <<>> \in Seq({})
      OBVIOUS
    <3>3. QED
      BY <3>1, <3>2 DEF IsPath, IsSeq
  <2>3. QED
    BY <2>1, <2>2
<1>4. QED
  BY <1>1, <1>2, <1>3

\* IndexCode leaves one value, whatever the number of keys.
LEMMA IndexTurns ==
  ASSUME NEW c, Sound(c), NEW e
  PROVE  Turns(IndexCode(c, e), 0, 1)
<1> DEFINE path == Path(c, e)
           n == Len(path.keys)
<1>1. CASE path = NoPath
  BY <1>1, RefusedTurns, Zero DEF IndexCode
<1>2. CASE path # NoPath
  <2> DEFINE last == IF n = 1 THEN Op1("LoadIndex", path.root) ELSE <<<<"LoadPath", path.root, n>>>>
  <2>1. IndexCode(c, e) = Each(c, path.keys) \o last
    BY <1>2 DEF IndexCode
  <2>2. IsRoot(path.root) /\ IsSeq(path.keys)
    BY <1>2, PathIsPath DEF IsPath
  <2> HIDE DEF path
  <2>3. Turns(Each(c, path.keys), 0, n) /\ n \in Nat
    BY <2>2, EachTurns
  <2> HIDE DEF n
  <2>4. Turns(last, n, 1)
    BY <2>2, <2>3, PathsMove, MovesTurns, Zero DEF Op1
  <2>5. QED
    BY <2>1, <2>3, <2>4, TurnsInARow
<1>3. QED
  BY <1>1, <1>2

\* More exits do no harm.
LEMMA Widened ==
  ASSUME NEW s, NEW a, NEW b, NEW X1, NEW X, NEW L, Takes(s, a, b, X1, L), X1 \subseteq X
  PROVE  Takes(s, a, b, X, L)
<1>1. PICK h : Heights(s, h, X1, L) /\ h[1] = a /\ h[Len(s) + 1] = b
  BY DEF Takes
<1>2. \A k \in 1..Len(s) : Fits(s[k], k, h, X1, L) => Fits(s[k], k, h, X, L)
  BY DEF Fits, Goes, Leads
<1>3. Heights(s, h, X, L)
  BY <1>1, <1>2 DEF Heights
<1>4. QED
  BY <1>1, <1>3 DEF Takes

\* The exits, n further on, are among others.
Carried(Y, n, X) == \A t \in Int : \A g : <<t, g>> \in Y => <<t + n, g>> \in X

\* A test that leaves to so far behind the rest.
LEMMA TestedTakes ==
  ASSUME NEW test, NEW rest, NEW a, NEW d, NEW o \in Nat, NEW i \in Nat, NEW L, NEW Y, NEW X,
         NEW jump \in {"JmpIfFalse", "JmpIfTrue"}, NEW beyond \in Nat,
         Takes(test, a, <<o + 1, i>>, {}, L), Takes(rest, <<o, i>>, d, Y, L),
         Carried(Y, Len(test) + 1, X), <<Len(test) + Len(rest) + beyond + 2, <<o, i>>>> \in X
  PROVE  /\ Takes(Tested(test, jump, beyond, rest), a, d, X, L)
         /\ Len(Tested(test, jump, beyond, rest)) = Len(test) + Len(rest) + 1
<1> DEFINE n == Len(rest) + beyond
           J == Op1(jump, n)
           s == test \o J
           none == {}
<1>1. IsSeq(test) /\ Len(test) \in Nat
  BY Ends
<1>2. IsSeq(rest) /\ Len(rest) \in Nat
  BY Ends
<1>3. IsSeq(J) /\ Len(J) = 1
  BY IsOperation
<1>4. Tested(test, jump, beyond, rest) = s \o rest
  BY DEF Tested
<1>5. n \in Int /\ Len(test) + n + 2 = Len(test) + Len(rest) + beyond + 2
  BY <1>1, <1>2
<1>6. Takes(test, a, <<o + 1, i>>, none, L) /\ none \subseteq X
  OBVIOUS
<1>7. <<Len(test) + n + 2, <<o, i>>>> \in X
  BY <1>5
<1> HIDE DEF n, none
<1>8. Takes(s, a, <<o, i>>, X, L)
  BY <1>5, <1>6, <1>7, TestTakes
<1> HIDE DEF J
<1>9. IsSeq(s) /\ Len(s) = Len(test) + 1
  <2>1. IsSeq(test \o J) /\ Len(test \o J) = Len(test) + Len(J)
    BY ONLY <1>1, <1>3, Measured
  <2>2. QED
    BY ONLY <1>3, <2>1 DEF s
<1> HIDE DEF s
<1>10. \A t \in Int : \A g : <<t, g>> \in X => <<t, g>> \in X \/ (t = Len(s) + Len(rest) + 1 /\ g = d)
  OBVIOUS
<1>11. \A t \in Int : \A g : <<t, g>> \in Y => <<t + Len(s), g>> \in X \/ (t = 1 - Len(s) /\ g = a)
  <2>1. ASSUME NEW t \in Int, NEW g, <<t, g>> \in Y PROVE <<t + Len(s), g>> \in X
    <3>1. t + Len(s) = t + (Len(test) + 1)
      BY <1>1, <1>9
    <3>2. <<t + (Len(test) + 1), g>> \in X
      BY <2>1 DEF Carried
    <3>3. QED
      BY <3>1, <3>2
  <2>2. QED
    BY <2>1
<1>12. Takes(rest, <<o, i>>, d, Y, L)
  OBVIOUS
<1>13. Takes(s \o rest, a, d, X, L)
  BY ONLY <1>8, <1>10, <1>11, <1>12, Joined
<1>14. Len(s \o rest) = Len(s) + Len(rest)
  BY ONLY <1>2, <1>9, Measured
<1>15. QED
  BY <1>1, <1>2, <1>4, <1>9, <1>13, <1>14

\* IssetItem leaves one value.
LEMMA IssetItemTurns ==
  ASSUME NEW c, Sound(c), NEW e \in Node
  PROVE  Turns(IssetItem(c, e), 0, 1)
<1>1. CASE e[1] = "var"
  <2>1. Turns(Op1("IssetSlot", e[2]), 0, 1)
    BY <1>1, VariablesAreSlots, PushesMove, OneMoves, Zero
  <2>2. QED
    BY <1>1, <2>1 DEF IssetItem
<1>2. CASE e[1] = "prop"
  <2>1. Turns(Op1("IssetThisProp", e[2]), 0, 1)
    BY PushesMove, OneMoves, Zero
  <2>2. QED
    BY <1>2, <2>1 DEF IssetItem
<1>3. CASE e[1] = "index" /\ e[2][1] \in {"var", "prop"}
  <2>1. e[2] \in Node
    BY <1>3, SyntaxIsTyped DEF IsTyped
  <2>2. IsRoot(e[2])
    BY <1>3, <2>1, VariablesAreSlots
  <2>3. Turns(Expr(c, e[3]) \o Op1("IssetIndex", e[2]), 0, 1)
    BY <2>2, PartTurns, ThenOp, PathsMove, Zero DEF Op1
  <2>4. QED
    BY <1>3, <2>3 DEF IssetItem
<1>4. CASE e[1] \notin {"var", "prop"} /\ ~ (e[1] = "index" /\ e[2][1] \in {"var", "prop"})
  BY <1>4, RefusedTurns, Zero DEF IssetItem
<1>5. QED
  BY <1>1, <1>2, <1>3, <1>4

\* The tests of the last of n items.
TestsOf(c, items, n, f, m) ==
  f = [k \in 1..m |->
         IF k = 1 THEN IssetItem(c, items[n])
         ELSE Tested(IssetItem(c, items[n - k + 1]), "JmpIfFalse", 1, f[k - 1])]

\* The recursive function of IssetCode exists.
LEMMA TestsExist ==
  ASSUME NEW c, NEW items, NEW n \in Nat
  PROVE  \E f : TestsOf(c, items, n, f, n)
<1> DEFINE T == {k \in 0..n : \E f : TestsOf(c, items, n, f, k)}
<1>1. 0 \in T
  <2>1. TestsOf(c, items, n, [k \in 1..0 |-> k], 0)
    BY DEF TestsOf
  <2>2. QED
    BY <2>1
<1>2. ASSUME NEW k \in 0..n, k \in T, k + 1 <= n PROVE k + 1 \in T
  <2>1. PICK f : TestsOf(c, items, n, f, k)
    BY <1>2
  <2> DEFINE new == IF k = 0 THEN IssetItem(c, items[n])
                    ELSE Tested(IssetItem(c, items[n - (k + 1) + 1]), "JmpIfFalse", 1, f[k])
             g == [i \in 1..(k + 1) |-> IF i = k + 1 THEN new ELSE f[i]]
  <2>2. \A i \in 1..k : f[i] = IF i = 1 THEN IssetItem(c, items[n])
                               ELSE Tested(IssetItem(c, items[n - i + 1]), "JmpIfFalse", 1, f[i - 1])
    BY <2>1 DEF TestsOf
  <2>3. \A i \in 1..(k + 1) : g[i] = IF i = 1 THEN IssetItem(c, items[n])
                                     ELSE Tested(IssetItem(c, items[n - i + 1]), "JmpIfFalse", 1, g[i - 1])
    BY <2>2
  <2>4. TestsOf(c, items, n, g, k + 1)
    BY <2>3 DEF TestsOf
  <2>5. QED
    BY <1>2, <2>4
<1>3. T = 0..n
  <2>1. T \in SUBSET (0..n)
    OBVIOUS
  <2> HIDE DEF T
  <2> QED
    BY <1>1, <1>2, <2>1, InductionUpTo
<1>4. QED
  BY <1>3

\* IssetCode leaves one value: each failing test has jumped to the same constant.
LEMMA IssetTurns ==
  ASSUME NEW c, Sound(c), NEW items, IsList(items), items # <<>>, \A i \in DOMAIN items : items[i] \in Node
  PROVE  Turns(IssetCode(c, items), 0, 1)
<1> DEFINE n == Len(items)
           f == CHOOSE f : TestsOf(c, items, n, f, n)
<1>1. n \in Nat \ {0} /\ \A i \in 1..n : items[i] \in Node
  <2>1. IsSeq(items) /\ Len(items) \in Nat /\ DOMAIN items = 1..Len(items)
    BY ListIsSeq
  <2>2. PICK S : items \in Seq(S)
    BY <2>1 DEF IsSeq
  <2>3. Len(items) # 0
    BY <2>2, EmptySeq
  <2>4. QED
    BY <2>1, <2>3
<1>2. IssetCode(c, items) = IF n = 1 THEN IssetItem(c, items[1]) ELSE f[n] \o Guard("Jmp", Push(BoolVal(FALSE)))
  BY DEF IssetCode, TestsOf
<1> HIDE DEF n
<1>3. TestsOf(c, items, n, f, n)
  BY <1>1, TestsExist
<1> HIDE DEF f
<1>4. /\ f[1] = IssetItem(c, items[n])
      /\ \A k \in 2..n : f[k] = Tested(IssetItem(c, items[n - k + 1]), "JmpIfFalse", 1, f[k - 1])
  BY <1>1, <1>3 DEF TestsOf
<1>5. \A i \in 1..n : Turns(IssetItem(c, items[i]), 0, 1)
  BY <1>1, IssetItemTurns
<1>6. ASSUME NEW o \in Nat, NEW i \in Nat, NEW L \in Leaves
      PROVE  Takes(f[n] \o Guard("Jmp", Push(BoolVal(FALSE))), <<o + 0, i>>, <<o + 1, i>>, {}, L)
  <2> DEFINE b == <<o, i>>
             d == <<o + 1, i>>
             Holds(k) == Takes(f[k], b, d, {<<Len(f[k]) + 2, b>>}, L)
             T == {k \in 0..(n - 1) : Holds(k + 1)}
  <2>a. \A k \in 1..n : Takes(IssetItem(c, items[k]), b, d, {}, L)
    <3>1. o + 0 = o
      OBVIOUS
    <3>2. QED
      BY <1>5, <3>1 DEF Turns
  <2>1. 0 \in T
    <3>a. n \in 1..n
      BY <1>1
    <3>b. Takes(IssetItem(c, items[n]), b, d, {}, L)
      BY <2>a, <3>a
    <3>1. Takes(f[1], b, d, {}, L)
      BY <1>4, <3>b
    <3>2. Holds(1)
      BY <3>1, Widened
    <3>3. QED
      BY <1>1, <3>2
  <2>2. ASSUME NEW k \in 0..(n - 1), k \in T, k + 1 <= n - 1 PROVE k + 1 \in T
    <3> DEFINE test == IssetItem(c, items[n - (k + 2) + 1])
               rest == f[k + 1]
               whole == f[k + 2]
               Y == {<<Len(rest) + 2, b>>}
               one == 1
               X == {<<Len(test) + Len(rest) + one + 2, b>>}
    <3>1. Takes(rest, b, d, Y, L)
      BY <2>2
    <3>2. Takes(test, b, d, {}, L)
      BY <1>1, <2>2, <2>a
    <3>3. whole = Tested(test, "JmpIfFalse", 1, rest)
      <4>1. k + 2 \in 2..n /\ (k + 2) - 1 = k + 1
        BY <1>1, <2>2
      <4>2. QED
        BY <1>4, <4>1
    <3> HIDE DEF test, rest, whole
    <3>4. Len(test) \in Nat /\ Len(rest) \in Nat
      BY <3>1, <3>2, Ends
    <3>5. Carried(Y, Len(test) + 1, X)
      BY <3>4 DEF Carried
    <3>6. <<Len(test) + Len(rest) + one + 2, <<o, i>>>> \in X
      OBVIOUS
    <3>7. /\ Takes(test, b, <<o + 1, i>>, {}, L) /\ Takes(rest, <<o, i>>, d, Y, L)
          /\ one \in Nat /\ o \in Nat /\ i \in Nat /\ "JmpIfFalse" \in {"JmpIfFalse", "JmpIfTrue"}
      BY <3>1, <3>2
    <3> HIDE DEF X, Y, b, d, one
    <3>8. /\ Takes(Tested(test, "JmpIfFalse", one, rest), b, d, X, L)
          /\ Len(Tested(test, "JmpIfFalse", one, rest)) = Len(test) + Len(rest) + 1
      BY ONLY <3>5, <3>6, <3>7, TestedTakes
    <3>9. X = {<<Len(whole) + 2, b>>}
      BY <3>3, <3>4, <3>8 DEF X, one
    <3>10. Takes(whole, b, d, {<<Len(whole) + 2, b>>}, L)
      BY <3>3, <3>8, <3>9 DEF one
    <3>11. (k + 1) + 1 = k + 2 /\ k + 1 \in 0..(n - 1)
      BY <2>2
    <3>12. QED
      BY <3>10, <3>11 DEF whole
  <2>3. T = 0..(n - 1)
    <3>1. T \in SUBSET (0..(n - 1)) /\ n - 1 \in Nat
      BY <1>1
    <3> HIDE DEF T
    <3>2. QED
      BY <2>1, <2>2, <3>1, InductionUpTo
  <2>4. Takes(f[n], b, d, {<<Len(f[n]) + 2, b>>}, L)
    <3>1. n - 1 \in T /\ (n - 1) + 1 = n
      <4> HIDE DEF T
      <4> QED
        BY <1>1, <2>3
    <3>2. QED
      BY <3>1
  <2>z. o + 0 = o
    OBVIOUS
  <2>5. Takes(Push(BoolVal(FALSE)), b, d, {}, L)
    <3>1. Turns(Push(BoolVal(FALSE)), 0, 1)
      BY ConstantsTurn
    <3>2. QED
      BY <2>z, <3>1 DEF Turns
  <2> HIDE DEF b, d
  <2>6. Takes(f[n] \o Guard("Jmp", Push(BoolVal(FALSE))), b, d, {}, L)
    BY <2>4, <2>5, EitherTakes
  <2>7. QED
    BY <2>6, <2>z DEF b, d
<1>7. Turns(f[n] \o Guard("Jmp", Push(BoolVal(FALSE))), 0, 1)
  BY <1>6 DEF Turns
<1>8. 1 \in 1..n
  BY <1>1
<1>9. Turns(IssetItem(c, items[1]), 0, 1)
  BY <1>5, <1>8
<1>10. QED
  BY <1>2, <1>7, <1>9

\* AssignedValue leaves one value.
LEMMA AssignedTurns ==
  ASSUME NEW c, Sound(c), NEW e, NEW lhs \in Node
  PROVE  Turns(AssignedValue(c, e, lhs), 0, 1)
<1>1. CASE lhs[1] = "var"
  <2>1. Turns(Op1("LoadQuiet", lhs[2]), 0, 1)
    BY <1>1, VariablesAreSlots, PushesMove, OneMoves, Zero
  <2>2. QED
    BY <1>1, <2>1, PartTurns, TurnsInARow DEF AssignedValue
<1>2. CASE lhs[1] # "var"
  BY <1>2, RefusedTurns, Zero DEF AssignedValue
<1>3. QED
  BY <1>1, <1>2

\* ExprCode leaves one value, for every expression.
LEMMA ExprTurns ==
  ASSUME NEW c, Sound(c), NEW e \in Node
  PROVE  Turns(ExprCode(c, e), 0, 1)
<1>0. IsTyped(e)
  BY SyntaxIsTyped
<1>1. CASE e[1] = "lit"
  <2>1. Turns(Push(e[2]), 0, 1)
    BY <1>0, <1>1, LiteralTurns DEF IsTyped
  <2>2. QED
    BY <1>1, <2>1 DEF ExprCode
<1>2. CASE e[1] = "var"
  <2>1. Turns(Op1("Load", e[2]), 0, 1)
    BY <1>2, VariablesAreSlots, PushesMove, OneMoves, Zero
  <2>2. QED
    BY <1>2, <2>1 DEF ExprCode
<1>3. CASE e[1] = "prop"
  <2>1. Turns(Op1("LoadThisProp", e[2]), 0, 1)
    BY PushesMove, OneMoves, Zero
  <2>2. QED
    BY <1>3, <2>1 DEF ExprCode
<1>4. CASE e[1] = "array"
  <2>1. Turns(ArrayCode(c, e[2]), 0, 1)
    BY <1>0, <1>4, ArrayTurns DEF IsTyped
  <2>2. QED
    BY <1>4, <2>1 DEF ExprCode
<1>5. CASE e[1] = "template"
  <2>1. Turns(TemplateCode(c, e[2]), 0, 1)
    BY <1>0, <1>5, TemplateTurns DEF IsTyped
  <2>2. QED
    BY <1>5, <2>1 DEF ExprCode
<1>6. CASE e[1] = "unary"
  <2>1. Turns(UnaryCode(c, e[2], e[3]), 0, 1)
    BY UnaryTurns
  <2>2. QED
    BY <1>6, <2>1 DEF ExprCode
<1>7. CASE e[1] = "binary"
  <2>1. Turns(BinaryCode(c, e[2], e[3], e[4]), 0, 1)
    BY <1>0, <1>7, BinaryTurns DEF IsTyped
  <2>2. QED
    BY <1>7, <2>1 DEF ExprCode
<1>8. CASE e[1] = "cond"
  <2>1. Turns(CondCode(c, e[2], e[3], e[4]), 0, 1)
    BY CondTurns
  <2>2. QED
    BY <1>8, <2>1 DEF ExprCode
<1>9. CASE e[1] = "assign"
  <2>1. Turns(AssignedValue(c, e, e[2]), 0, 1)
    BY <1>0, <1>9, AssignedTurns DEF IsTyped
  <2>2. QED
    BY <1>9, <2>1 DEF ExprCode
<1>10. CASE e[1] = "assignop"
  <2>1. Turns(AssignedValue(c, e, e[3]), 0, 1)
    BY <1>0, <1>10, AssignedTurns DEF IsTyped
  <2>2. QED
    BY <1>10, <2>1 DEF ExprCode
<1>11. CASE e[1] = "incdec"
  <2>1. Turns(IncDecCode(e[2], e[3], e[4]), 0, 1)
    BY <1>0, <1>11, IncDecTurns DEF IsTyped
  <2>2. QED
    BY <1>11, <2>1 DEF ExprCode
<1>12. CASE e[1] = "index"
  <2>1. Turns(IndexCode(c, e), 0, 1)
    BY IndexTurns
  <2>2. QED
    BY <1>12, <2>1 DEF ExprCode
<1>13. CASE e[1] = "isset"
  <2>1. IsList(e[2]) /\ e[2] # <<>> /\ \A i \in DOMAIN e[2] : e[2][i] \in Node
    BY <1>0, <1>13 DEF IsTyped
  <2>2. Turns(IssetCode(c, e[2]), 0, 1)
    BY <2>1, IssetTurns
  <2>3. QED
    BY <1>13, <2>2 DEF ExprCode
<1>14. CASE e[1] = "empty"
  <2>1. ASSUME e[2][1] = "var" PROVE Turns(Op1("LoadQuiet", e[2][2]) \o <<<<"Not">>>>, 0, 1)
    <3>1. e[2][2] \in Slot
      BY <1>0, <1>14, <2>1, VariablesAreSlots DEF IsTyped
    <3>2. QED
      BY <3>1, PushesMove, OneMoves, ChangesMove, ThenOp, Zero
  <2>2. QED
    BY <1>14, <2>1, RefusedTurns, Zero DEF ExprCode
<1>15. CASE e[1] = "cast"
  <2>1. Turns(Expr(c, e[3]) \o Op1("Cast", e[2]), 0, 1)
    BY <1>0, <1>15, PartTurns, ThenOp, ChangesMove, Zero DEF IsTyped, Op1
  <2>2. QED
    BY <1>15, <2>1 DEF ExprCode
<1>16. CASE e[1] = "call"
  <2> DEFINE n == Len(e[2])
  <2>1. IsSeq(e[2]) /\ e[2] # <<>>
    BY <1>0, <1>16, ListIsSeq DEF IsTyped
  <2>2. PICK S : e[2] \in Seq(S)
    BY <2>1 DEF IsSeq
  <2>3. n # 0
    BY <2>1, <2>2, EmptySeq
  <2>4. Turns(Each(c, e[2]), 0, n) /\ n \in Nat
    BY <2>1, EachTurns
  <2> HIDE DEF n
  <2>5. Turns(Op1("CallFn", n), n, 1)
    BY <2>3, <2>4, CallsMove, OneMoves, Zero
  <2>6. QED
    BY <1>16, <2>4, <2>5, TurnsInARow DEF ExprCode, n
<1>17. CASE e[1] \notin {"lit", "var", "prop", "array", "template", "unary", "binary", "cond", "assign",
                         "assignop", "incdec", "index", "isset", "empty", "cast", "call"}
  BY <1>17, RefusedTurns, Zero DEF ExprCode
<1>18. QED
  BY <1>1, <1>2, <1>3, <1>4, <1>5, <1>6, <1>7, <1>8, <1>9, <1>10, <1>11, <1>12, <1>13, <1>14, <1>15,
     <1>16, <1>17

\* AssignStmt leaves the stack as it was.
LEMMA AssignTurns ==
  ASSUME NEW c, Sound(c), NEW lhs \in Node, NEW rhs
  PROVE  Turns(AssignStmt(c, lhs, rhs), 0, 0)
<1>0. Turns(Expr(c, rhs), 0, 1)
  BY PartTurns
<1>1. CASE lhs[1] = "var"
  <2>1. Moves(<<"Store", lhs[2]>>, 1, 0)
    BY <1>1, VariablesAreSlots, StoresMove
  <2>2. QED
    BY <1>0, <1>1, <2>1, ThenOp, Zero DEF AssignStmt, Op1
<1>2. CASE lhs[1] = "prop"
  <2>1. Moves(<<"StoreThisProp", lhs[2]>>, 1, 0)
    BY StoresMove
  <2>2. QED
    BY <1>0, <1>2, <2>1, ThenOp, Zero DEF AssignStmt, Op1
<1>3. CASE lhs[1] = "index"
  <2> DEFINE path == Path(c, lhs[2])
             more == IF lhs[3] = NoExpr THEN <<>> ELSE <<lhs[3]>>
             keys == path.keys \o more
             n == Len(keys)
             op == <<IF lhs[3] = NoExpr THEN "AppendPath" ELSE "StorePath", path.root, n>>
  <2>1. AssignStmt(c, lhs, rhs) = IF path = NoPath THEN Bail ELSE (Each(c, keys) \o Expr(c, rhs)) \o <<op>>
    BY <1>3 DEF AssignStmt
  <2>2. ASSUME path # NoPath PROVE Turns((Each(c, keys) \o Expr(c, rhs)) \o <<op>>, 0, 0)
    <3>1. IsPath(path)
      BY <2>2, PathIsPath
    <3>2. IsSeq(more)
      <4>1. IsSeq(<<lhs[3]>>)
        BY OneOperation
      <4>2. <<>> \in Seq({})
        OBVIOUS
      <4>3. QED
        BY <4>1, <4>2 DEF IsSeq
    <3> HIDE DEF path, more
    <3>3. IsRoot(path.root) /\ IsSeq(path.keys)
      BY <3>1 DEF IsPath
    <3>4. IsSeq(keys)
      BY <3>2, <3>3, Concatenated
    <3> HIDE DEF keys
    <3>5. Turns(Each(c, keys), 0, n) /\ n \in Nat
      BY <3>4, EachTurns
    <3> HIDE DEF n
    <3>6. Moves(op, n + 1, 0)
      BY <3>3, <3>5, PathsMove
    <3>7. Turns(Expr(c, rhs), n, n + 1) /\ n + 1 \in Nat
      BY <3>5, PartAbove
    <3>8. Turns(Each(c, keys) \o Expr(c, rhs), 0, n + 1)
      BY <3>5, <3>7, TurnsInARow
    <3> HIDE DEF op
    <3>9. QED
      BY <3>6, <3>7, <3>8, ThenOp, Zero
  <2> HIDE DEF path, keys, op
  <2>3. QED
    BY <2>1, <2>2, RefusedTurns, Zero
<1>4. CASE lhs[1] \notin {"var", "prop", "index"}
  BY <1>4, RefusedTurns, Zero DEF AssignStmt
<1>5. QED
  BY <1>1, <1>2, <1>3, <1>4

\* AssignOpStmt leaves the stack as it was.
LEMMA AssignOpTurns ==
  ASSUME NEW c, Sound(c), NEW op \in BinOps, NEW lhs \in Node, NEW rhs
  PROVE  Turns(AssignOpStmt(c, op, lhs, rhs), 0, 0)
<1>0. Turns(Expr(c, rhs), 0, 1) /\ Turns(Expr(c, rhs), 1, 2)
  BY PartTurns, PartAbove, Zero
<1>1. CASE lhs[1] = "prop"
  <2>1. Turns(Op1("LoadThisProp", lhs[2]), 0, 1) /\ Moves(<<"StoreThisProp", lhs[2]>>, 1, 0)
    BY PushesMove, StoresMove, OneMoves, Zero
  <2>2. Turns(Op1("LoadThisProp", lhs[2]) \o Expr(c, rhs), 0, 2)
    BY <1>0, <2>1, TurnsInARow
  <2>3. Turns((Op1("LoadThisProp", lhs[2]) \o Expr(c, rhs)) \o Op1("Bin", op), 0, 1)
    BY <2>2, ThenOp, ChangesMove, Zero DEF Op1
  <2>4. Turns(((Op1("LoadThisProp", lhs[2]) \o Expr(c, rhs)) \o Op1("Bin", op)) \o Op1("StoreThisProp", lhs[2]), 0, 0)
    BY <2>1, <2>3, ThenOp, Zero DEF Op1
  <2>5. QED
    BY <1>1, <2>4 DEF AssignOpStmt
<1>2. CASE lhs[1] = "var"
  <2>1. /\ Turns(Op1("Load", lhs[2]), 0, 1) /\ Moves(<<"Store", lhs[2]>>, 1, 0)
        /\ Moves(<<"ConcatAssign", lhs[2]>>, 1, 0)
    BY <1>2, VariablesAreSlots, PushesMove, StoresMove, OneMoves, Zero
  <2>2. Turns(Op1("Load", lhs[2]) \o Expr(c, rhs), 0, 2)
    BY <1>0, <2>1, TurnsInARow
  <2>3. Turns((Op1("Load", lhs[2]) \o Expr(c, rhs)) \o Op1("Bin", op), 0, 1)
    BY <2>2, ThenOp, ChangesMove, Zero DEF Op1
  <2>4. Turns(((Op1("Load", lhs[2]) \o Expr(c, rhs)) \o Op1("Bin", op)) \o Op1("Store", lhs[2]), 0, 0)
    BY <2>1, <2>3, ThenOp, Zero DEF Op1
  <2>5. Turns(Expr(c, rhs) \o Op1("ConcatAssign", lhs[2]), 0, 0)
    BY <1>0, <2>1, ThenOp, Zero DEF Op1
  <2>6. QED
    BY <1>2, <2>4, <2>5 DEF AssignOpStmt
<1>3. CASE lhs[1] \notin {"var", "prop"}
  BY <1>3, RefusedTurns, Zero DEF AssignOpStmt
<1>4. QED
  BY <1>1, <1>2, <1>3

\* EffectCode leaves the stack as it was, for every expression.
LEMMA EffectTurns ==
  ASSUME NEW c, Sound(c), NEW e \in Node
  PROVE  Turns(EffectCode(c, e), 0, 0)
<1>0. IsTyped(e)
  BY SyntaxIsTyped
<1>1. CASE e[1] = "assign"
  <2>1. Turns(AssignStmt(c, e[2], e[3]), 0, 0)
    BY <1>0, <1>1, AssignTurns DEF IsTyped
  <2>2. QED
    BY <1>1, <2>1 DEF EffectCode
<1>2. CASE e[1] = "assignop"
  <2>1. Turns(AssignOpStmt(c, e[2], e[3], e[4]), 0, 0)
    BY <1>0, <1>2, AssignOpTurns DEF IsTyped
  <2>2. QED
    BY <1>2, <2>1 DEF EffectCode
<1>3. CASE e[1] = "incdec"
  <2>1. Turns(IncDecStmt(e[3], e[4]), 0, 0)
    BY <1>0, <1>3, IncDecTurns DEF IsTyped
  <2>2. QED
    BY <1>3, <2>1 DEF EffectCode
<1>4. CASE e[1] \notin {"assign", "assignop", "incdec"}
  <2>1. Turns(Expr(c, e) \o <<<<"Pop">>>>, 0, 0)
    BY PartTurns, ThenOp, StoresMove, Zero
  <2>2. QED
    BY <1>4, <2>1 DEF EffectCode
<1>5. QED
  BY <1>1, <1>2, <1>3, <1>4

----------------------------------------------------------------------------
(* Statements. *)

\* The heights at a place a statement can be at.
LEMMA PlaceHeights ==
  ASSUME NEW at, Possible(at)
  PROVE  /\ at \in Place /\ at.iters \in Nat /\ HeightAt(at) = <<0, at.iters>>
         /\ HeightAt(at) \in Height /\ LeavesAt(at) \in Leaves
<1>1. /\ at \in Place /\ at.iters \in Nat /\ at.loop \in {"none", "loop", "foreach", "switch"}
      /\ at.loop = "foreach" => at.iters > 0
  BY DEF Possible, Place
<1>2. HeightAt(at) = <<0, at.iters>> /\ HeightAt(at) \in Height
  BY <1>1 DEF HeightAt, Height
<1>3. at.loop = "foreach" => <<0, at.iters - 1>> \in Height
  BY <1>1 DEF Height
<1>4. LeavesAt(at) \in Leaves
  BY <1>1, <1>2, <1>3 DEF LeavesAt, Leaves
<1>5. QED
  BY <1>1, <1>2, <1>4

\* Code without an effect on the stack is fine as a statement.
LEMMA TurnsStays ==
  ASSUME NEW code, Turns(code, 0, 0), NEW at, Possible(at)
  PROVE  Stays(code, at)
<1>1. 0 \in Nat /\ at.iters \in Nat /\ HeightAt(at) = <<0 + 0, at.iters>> /\ LeavesAt(at) \in Leaves
  BY PlaceHeights
<1>2. QED
  BY <1>1 DEF Turns, Stays

\* An expression in a statement.
LEMMA ValueTakes ==
  ASSUME NEW code, Turns(code, 0, 1), NEW at, Possible(at), NEW L \in Leaves
  PROVE  Takes(code, HeightAt(at), <<0 + 1, at.iters>>, {}, L)
<1>1. 0 \in Nat /\ at.iters \in Nat /\ HeightAt(at) = <<0 + 0, at.iters>>
  BY PlaceHeights
<1>2. QED
  BY <1>1 DEF Turns

\* So is what is refused.
LEMMA RefusedStays ==
  ASSUME NEW at, Possible(at)
  PROVE  Stays(Bail, at)
BY RefusedTurns, TurnsStays, Zero

\* And a part that is a statement, when the compiler of parts is sound.
LEMMA StmtStays ==
  ASSUME NEW c, Sound(c), NEW s, NEW at, Possible(at)
  PROVE  Stays(Stmt(c, s, at), at)
<1>1. CASE s \in Node
  <2> DEFINE x == <<s, at>>
  <2>1. x \in Node \X Place /\ x[2] = at
    BY <1>1, PlaceHeights
  <2>2. Stmt(c, s, at) = c.stmt[x]
    BY <1>1, PlaceHeights DEF Stmt
  <2> HIDE DEF x
  <2>3. Stays(c.stmt[x], x[2])
    BY <2>1 DEF Sound
  <2>4. QED
    BY <2>1, <2>2, <2>3
<1>2. CASE s \notin Node
  BY <1>2, RefusedStays DEF Stmt
<1>3. QED
  BY <1>1, <1>2

\* Pieces in a row that all begin and end at the same height: so does each of them
\* in the whole.
Steady(f, k, h, a, L) ==
  /\ Heights(f[k], h, {}, L)
  /\ \A j \in 0..k : Len(f[j]) \in 0..Len(f[k]) /\ h[Len(f[j]) + 1] = a

\* Heights for pieces in a row: the same before each of them.
LEMMA PiecesSteady ==
  ASSUME NEW cs, NEW n \in Nat, NEW f, PiecesOf(cs, f, n), NEW a \in Height, NEW L,
         \A i \in 1..n : Takes(cs[i], a, a, {}, L)
  PROVE  \E h : Steady(f, n, h, a, L)
<1>1. f[0] = <<>> /\ \A k \in 0..(n - 1) : f[k + 1] = f[k] \o cs[k + 1]
  BY DEF PiecesOf
<1> DEFINE T == {k \in 0..n : \E h : Steady(f, k, h, a, L)}
<1>2. 0 \in T
  <2>1. Takes(<<>>, a, a, {}, L)
    BY NoOperation
  <2>2. PICK h : Heights(<<>>, h, {}, L) /\ h[1] = a
    BY <2>1 DEF Takes
  <2>3. \A j \in 0..0 : Len(f[j]) \in 0..Len(f[0]) /\ h[Len(f[j]) + 1] = a
    <3>1. Len(<<>>) = 0 /\ 0 + 1 = 1
      OBVIOUS
    <3>2. QED
      BY <1>1, <2>2, <3>1
  <2>4. Steady(f, 0, h, a, L)
    BY <1>1, <2>2, <2>3 DEF Steady
  <2>5. QED
    BY <2>4
<1>3. ASSUME NEW k \in 0..n, k \in T, k + 1 <= n PROVE k + 1 \in T
  <2> DEFINE s == f[k]
             t == cs[k + 1]
             m == Len(s)
             l == Len(t)
  <2>1. PICK h1 : Steady(f, k, h1, a, L)
    BY <1>3
  <2>2. k + 1 \in 1..n /\ k \in 0..(n - 1)
    BY <1>3
  <2>3. PICK h2 : Heights(t, h2, {}, L) /\ h2[1] = a /\ h2[l + 1] = a
    BY <2>2 DEF Takes
  <2>4. /\ Heights(s, h1, {}, L) /\ h1[m + 1] = a
        /\ \A j \in 0..k : Len(f[j]) \in 0..m /\ h1[Len(f[j]) + 1] = a
    BY <2>1 DEF Steady
  <2>5. f[k + 1] = s \o t
    BY <1>1, <2>2
  <2>6. m \in Nat /\ l \in Nat
    BY <2>3, <2>4 DEF Heights
  <2>7. Len(s \o t) = m + l
    BY <2>3, <2>4, Concatenated DEF Heights
  <2> DEFINE h == Spliced(h1, m, h2, l)
             none == {}
  <2>8. Heights(s \o t, h, none, L)
    <3>1. Heights(s, h1, none, L) /\ Heights(t, h2, none, L)
      BY <2>3, <2>4
    <3>2. /\ h1[Len(s) + 1] = h2[1] /\ h = Spliced(h1, Len(s), h2, Len(t))
          /\ \A i \in Int : \A g : <<i, g>> \in none => Leads(h, i, g, none)
          /\ \A i \in Int : \A g : <<i, g>> \in none => Leads(h, i + Len(s), g, none)
      BY <2>3, <2>4
    <3> HIDE DEF s, t, m, l, h, none
    <3>3. QED
      BY ONLY <3>1, <3>2, SplicedHeights
  <2> HIDE DEF s, t, m, l
  <2>9. \A i \in 1..(m + l + 1) : h[i] = IF i <= m THEN h1[i] ELSE h2[i - m]
    BY <2>6 DEF Spliced
  <2> HIDE DEF h
  <2>10. ASSUME NEW j \in 0..(k + 1) PROVE Len(f[j]) \in 0..(m + l) /\ h[Len(f[j]) + 1] = a
    <3>1. CASE j = k + 1
      <4>1. Len(f[j]) = m + l
        BY <2>5, <2>7, <3>1
      <4>2. m + l + 1 \in 1..(m + l + 1) /\ ~ (m + l + 1 <= m) /\ (m + l + 1) - m = l + 1
        BY <2>6
      <4>3. h[m + l + 1] = h2[l + 1]
        BY <2>9, <4>2
      <4>4. QED
        BY <2>3, <2>6, <4>1, <4>3
    <3>2. CASE j # k + 1
      <4>1. j \in 0..k
        BY <3>2
      <4> DEFINE p == Len(f[j])
      <4>2. p \in 0..m /\ h1[p + 1] = a
        BY <2>4, <4>1
      <4> HIDE DEF p
      <4>3. p + 1 \in 1..(m + l + 1)
        BY <2>6, <4>2
      <4>4. h[p + 1] = IF p + 1 <= m THEN h1[p + 1] ELSE h2[(p + 1) - m]
        BY <2>9, <4>3
      <4>5. CASE p = m
        <5>1. ~ (p + 1 <= m) /\ (p + 1) - m = 1
          BY <2>6, <4>5
        <5>2. QED
          BY <2>3, <2>6, <4>2, <4>4, <5>1 DEF p
      <4>6. CASE p # m
        <5>1. p + 1 <= m
          BY <2>6, <4>2, <4>6
        <5>2. QED
          BY <2>6, <4>2, <4>4, <5>1 DEF p
      <4>7. QED
        BY <4>5, <4>6
    <3>3. QED
      BY <3>1, <3>2
  <2>11. Steady(f, k + 1, h, a, L)
    BY <2>5, <2>7, <2>8, <2>10 DEF Steady, none
  <2>12. QED
    BY <2>2, <2>11
<1>4. T = 0..n
  <2>1. T \in SUBSET (0..n)
    OBVIOUS
  <2> HIDE DEF T
  <2> QED
    BY <1>2, <1>3, <2>1, InductionUpTo
<1>5. n \in T
  <2> HIDE DEF T
  <2> QED
    BY <1>4
<1>6. QED
  BY <1>5

\* With them the pieces in a row take the stacks from a to a.
LEMMA SteadyTakes ==
  ASSUME NEW f, NEW n \in Nat, NEW h, NEW a, NEW L, Steady(f, n, h, a, L), f[0] = <<>>
  PROVE  Takes(f[n], a, a, {}, L)
<1>1. /\ Heights(f[n], h, {}, L) /\ h[Len(f[0]) + 1] = a /\ h[Len(f[n]) + 1] = a
  BY DEF Steady
<1>2. Len(f[0]) + 1 = 1
  OBVIOUS
<1>3. QED
  BY <1>1, <1>2 DEF Takes

\* Block leaves the stacks as they were.
LEMMA BlockStays ==
  ASSUME NEW c, Sound(c), NEW stmts, IsList(stmts), NEW at, Possible(at)
  PROVE  Stays(Block(c, stmts, at), at)
<1> DEFINE n == Len(stmts)
           cs == [i \in 1..n |-> Stmt(c, stmts[i], at)]
           a == HeightAt(at)
           L == LeavesAt(at)
<1>1. n \in Nat /\ Block(c, stmts, at) = FlattenSeq(cs)
  BY ListIsSeq DEF Block
<1>2. cs = [i \in 1..n |-> cs[i]] /\ \A i \in 1..n : Takes(cs[i], a, a, {}, L)
  BY StmtStays DEF Stays
<1>3. a \in Height
  BY PlaceHeights
<1> HIDE DEF cs, n, a, L
<1>4. IsSeq(cs) /\ Len(cs) = n /\ \A i \in 1..n : IsSeq(cs[i])
  BY <1>1, <1>2, FunctionIsSeq, Ends
<1>5. PICK f : PiecesOf(cs, f, n)
  BY <1>1, <1>4, Pieces
<1>6. PICK h : Steady(f, n, h, a, L)
  BY <1>1, <1>2, <1>3, <1>5, PiecesSteady
<1>7. f[0] = <<>> /\ FlattenSeq(cs) = f[n]
  BY <1>5 DEF PiecesOf
<1>8. Takes(f[n], a, a, {}, L)
  BY <1>1, <1>6, <1>7, SteadyTakes
<1>9. QED
  BY <1>1, <1>7, <1>8 DEF Stays, a, L

\* The code of the last of n arms, and of the else.
ArmsOf(c, arms, els, at, n, f, m) ==
  f = [k \in 0..m |->
         IF k = 0 THEN Block(c, els, at)
         ELSE LET arm == arms[n - k + 1]
              IN Choose(Expr(c, arm[1]), Block(c, arm[2], at), f[k - 1])]

\* The recursive function of IfCode exists.
LEMMA ArmsExist ==
  ASSUME NEW c, NEW arms, NEW els, NEW at, NEW n \in Nat
  PROVE  \E f : ArmsOf(c, arms, els, at, n, f, n)
<1> DEFINE Arm(k, x) == Choose(Expr(c, arms[n - k + 1][1]), Block(c, arms[n - k + 1][2], at), x)
           els1 == Block(c, els, at)
           T == {k \in 0..n : \E f : ArmsOf(c, arms, els, at, n, f, k)}
<1>a. \A f : \A m \in Nat :
        ArmsOf(c, arms, els, at, n, f, m) <=> f = [k \in 0..m |-> IF k = 0 THEN els1 ELSE Arm(k, f[k - 1])]
  BY DEF ArmsOf
<1> HIDE DEF Arm, els1
<1>1. 0 \in T
  <2> DEFINE g == [k \in 0..0 |-> els1]
  <2>1. g = [k \in 0..0 |-> IF k = 0 THEN els1 ELSE Arm(k, g[k - 1])]
    OBVIOUS
  <2>2. 0 \in Nat /\ 0 \in 0..n
    OBVIOUS
  <2>3. ArmsOf(c, arms, els, at, n, g, 0)
    BY <1>a, <2>1, <2>2
  <2>4. QED
    BY <2>2, <2>3
<1>2. ASSUME NEW k \in 0..n, k \in T, k + 1 <= n PROVE k + 1 \in T
  <2>1. PICK f : ArmsOf(c, arms, els, at, n, f, k)
    BY <1>2
  <2> DEFINE g == [i \in 0..(k + 1) |-> IF i = k + 1 THEN Arm(k + 1, f[k]) ELSE f[i]]
  <2>2. \A i \in 0..k : f[i] = IF i = 0 THEN els1 ELSE Arm(i, f[i - 1])
    BY <1>a, <2>1
  <2>3. \A i \in 0..(k + 1) : g[i] = IF i = 0 THEN els1 ELSE Arm(i, g[i - 1])
    <3>1. ASSUME NEW i \in 0..(k + 1) PROVE g[i] = IF i = 0 THEN els1 ELSE Arm(i, g[i - 1])
      <4>1. CASE i = k + 1
        <5>1. i - 1 = k /\ i # 0 /\ k \in 0..(k + 1) /\ k # k + 1
          BY <4>1
        <5>2. g[i] = Arm(k + 1, f[k]) /\ g[k] = f[k]
          BY <4>1, <5>1
        <5>3. QED
          BY <4>1, <5>1, <5>2
      <4>2. CASE i # k + 1
        <5>1. i \in 0..k /\ g[i] = f[i]
          BY <4>2
        <5>2. i # 0 => g[i - 1] = f[i - 1]
          BY <5>1
        <5>3. QED
          BY <2>2, <5>1, <5>2
      <4>3. QED
        BY <4>1, <4>2
    <3>2. QED
      BY <3>1
  <2>4. g = [i \in 0..(k + 1) |-> IF i = 0 THEN els1 ELSE Arm(i, g[i - 1])]
    BY <2>3
  <2>5. ArmsOf(c, arms, els, at, n, g, k + 1)
    BY <1>a, <2>4
  <2>6. QED
    BY <1>2, <2>5
<1>3. T = 0..n
  <2>1. T \in SUBSET (0..n)
    OBVIOUS
  <2> HIDE DEF T
  <2> QED
    BY <1>1, <1>2, <2>1, InductionUpTo
<1>4. QED
  BY <1>3

\* One of two statements.
LEMMA ChooseStays ==
  ASSUME NEW c, Sound(c), NEW e, NEW then, NEW els, NEW at, Possible(at), Stays(then, at), Stays(els, at)
  PROVE  Stays(Choose(Expr(c, e), then, els), at)
<1> DEFINE L == LeavesAt(at)
           a == HeightAt(at)
           i == at.iters
           cond == Expr(c, e)
<1>1. a = <<0, i>> /\ i \in Nat /\ L \in Leaves /\ 0 \in Nat
  BY PlaceHeights
<1>2. Takes(cond, a, <<0 + 1, i>>, {}, L)
  BY PartTurns, PlaceHeights, ValueTakes
<1>3. Takes(then, <<0, i>>, a, {}, L) /\ Takes(els, <<0, i>>, a, {}, L)
  BY <1>1 DEF Stays
<1> HIDE DEF L, a, i, cond
<1>4. Takes(Choose(cond, then, els), a, a, {}, L)
  BY <1>1, <1>2, <1>3, ChooseTakes
<1>5. QED
  BY <1>4 DEF Stays, L, a, cond

\* IfCode leaves the stacks as they were, whatever the number of arms.
LEMMA IfStays ==
  ASSUME NEW c, Sound(c), NEW arms, IsList(arms), \A i \in DOMAIN arms : IsList(arms[i][2]),
         NEW els, IsList(els), NEW at, Possible(at)
  PROVE  Stays(IfCode(c, arms, els, at), at)
<1> DEFINE n == Len(arms)
           f == CHOOSE f : ArmsOf(c, arms, els, at, n, f, n)
<1>1. n \in Nat /\ DOMAIN arms = 1..n
  BY ListIsSeq
<1>2. IfCode(c, arms, els, at) = f[n]
  BY DEF IfCode, ArmsOf
<1> HIDE DEF n
<1>3. ArmsOf(c, arms, els, at, n, f, n)
  BY <1>1, ArmsExist
<1> HIDE DEF f
<1>4. /\ f[0] = Block(c, els, at)
      /\ \A k \in 1..n : f[k] = Choose(Expr(c, arms[n - k + 1][1]), Block(c, arms[n - k + 1][2], at), f[k - 1])
  <2>1. \A k \in 0..n : f[k] = IF k = 0 THEN Block(c, els, at)
                               ELSE Choose(Expr(c, arms[n - k + 1][1]), Block(c, arms[n - k + 1][2], at), f[k - 1])
    BY <1>3 DEF ArmsOf
  <2>2. 0 \in 0..n /\ \A k \in 1..n : k \in 0..n /\ k # 0
    BY <1>1
  <2>3. QED
    BY <2>1, <2>2
<1> DEFINE T == {k \in 0..n : Stays(f[k], at)}
<1>5. 0 \in T
  BY <1>1, <1>4, BlockStays
<1>6. ASSUME NEW k \in 0..n, k \in T, k + 1 <= n PROVE k + 1 \in T
  <2> DEFINE arm == arms[n - (k + 1) + 1]
             then == Block(c, arm[2], at)
  <2>1. k + 1 \in 1..n /\ (k + 1) - 1 = k /\ n - (k + 1) + 1 \in 1..n /\ k + 1 \in 0..n
    BY <1>1, <1>6
  <2>2. f[k + 1] = Choose(Expr(c, arm[1]), then, f[(k + 1) - 1])
    BY <1>4, <2>1
  <2>3. IsList(arm[2])
    BY <1>1, <2>1
  <2>4. Stays(then, at)
    BY <2>3, BlockStays
  <2>5. Stays(f[k], at)
    BY <1>6
  <2> HIDE DEF then, arm
  <2>6. Stays(Choose(Expr(c, arm[1]), then, f[k]), at)
    BY <2>4, <2>5, ChooseStays
  <2>7. QED
    BY <2>1, <2>2, <2>6
<1>7. T = 0..n
  <2>1. T \in SUBSET (0..n)
    OBVIOUS
  <2> HIDE DEF T
  <2> QED
    BY <1>1, <1>5, <1>6, <2>1, InductionUpTo
<1>8. n \in T
  <2> HIDE DEF T
  <2> QED
    BY <1>1, <1>7
<1>9. QED
  BY <1>2, <1>8

----------------------------------------------------------------------------
(* Loops as statements. *)

\* The places inside loops and switches, and the heights there.
LEMMA InsidePossible ==
  ASSUME NEW at, Possible(at)
  PROVE  /\ Possible(Inside(at, "loop")) /\ Possible(Inside(at, "foreach"))
         /\ at.switches # Len(SwitchSlot) => Possible(Inside(at, "switch"))
         /\ HeightAt(Inside(at, "loop")) = HeightAt(at) /\ HeightAt(Inside(at, "switch")) = HeightAt(at)
         /\ HeightAt(Inside(at, "foreach")) = <<0, at.iters + 1>>
         /\ LeavesAt(Inside(at, "loop")) = <<HeightAt(at), HeightAt(at)>>
         /\ LeavesAt(Inside(at, "switch")) = <<HeightAt(at), Nowhere>>
         /\ LeavesAt(Inside(at, "foreach")) = <<HeightAt(at), <<0, at.iters + 1>>>>
<1>1. at \in Place /\ at.iters \in Nat /\ at.switches \in 0..Len(SwitchSlot) /\ Len(SwitchSlot) = 3
  BY DEF Possible, Place, SwitchSlot
<1>2. Inside(at, "loop") = [loop |-> "loop", iters |-> at.iters + 0, switches |-> at.switches + 0]
  BY DEF Inside
<1>3. Inside(at, "foreach") = [loop |-> "foreach", iters |-> at.iters + 1, switches |-> at.switches + 0]
  BY DEF Inside
<1>4. Inside(at, "switch") = [loop |-> "switch", iters |-> at.iters + 0, switches |-> at.switches + 1]
  BY DEF Inside
<1>5. at.iters + 0 = at.iters /\ at.switches + 0 = at.switches /\ (at.iters + 1) - 1 = at.iters
  BY <1>1
<1>6. Possible(Inside(at, "loop")) /\ Possible(Inside(at, "foreach"))
  BY <1>1, <1>2, <1>3, <1>5 DEF Possible, Place
<1>7. at.switches # Len(SwitchSlot) => Possible(Inside(at, "switch"))
  BY <1>1, <1>4, <1>5 DEF Possible, Place
<1>8. /\ HeightAt(Inside(at, "loop")) = HeightAt(at) /\ HeightAt(Inside(at, "switch")) = HeightAt(at)
      /\ HeightAt(Inside(at, "foreach")) = <<0, at.iters + 1>>
  BY <1>2, <1>3, <1>4, <1>5 DEF HeightAt
<1>9. /\ Inside(at, "loop").loop = "loop" /\ Inside(at, "switch").loop = "switch"
      /\ Inside(at, "foreach").loop = "foreach" /\ Inside(at, "foreach").iters - 1 = at.iters
  BY <1>2, <1>3, <1>4, <1>5
<1>10. /\ LeavesAt(Inside(at, "loop")) = <<HeightAt(at), HeightAt(at)>>
       /\ LeavesAt(Inside(at, "switch")) = <<HeightAt(at), Nowhere>>
  BY <1>8, <1>9 DEF LeavesAt
<1>11. LeavesAt(Inside(at, "foreach")) = <<HeightAt(at), <<0, at.iters + 1>>>>
  BY <1>8, <1>9 DEF LeavesAt, HeightAt
<1>12. QED
  BY <1>6, <1>7, <1>8, <1>10, <1>11

\* Patching leaves the length of the code.
LEMMA FinishedLen ==
  ASSUME NEW code, IsSeq(code), NEW p, NEW q
  PROVE  Len(FinishLoop(code, p, q)) = Len(code)
<1> DEFINE f == FinishLoop(code, p, q)
           n == Len(code)
<1>1. DOMAIN code = 1..n /\ n \in Nat
  BY SeqIsFunction
<1>2. f = [k \in 1..n |-> f[k]]
  BY <1>1 DEF FinishLoop
<1> HIDE DEF f, n
<1>3. Len(f) = n
  BY <1>1, <1>2, FunctionIsSeq
<1>4. QED
  BY <1>3 DEF f, n

\* A jump back to the start, behind code that leaves to just behind the jump.
LEMMA BackTakes ==
  ASSUME NEW u, NEW a, NEW d \in Height, NEW L, Takes(u, a, a, {<<Len(u) + 2, d>>}, L)
  PROVE  Takes(JmpBack(u), a, d, {}, L)
<1> DEFINE n == -(Len(u) + 1)
           J == Op1("Jmp", n)
           X1 == {<<Len(u) + 2, d>>}
           X2 == {<<n + 2, a>>}
           none == {}
<1>1. IsSeq(u) /\ Len(u) \in Nat /\ a \in Height
  BY Ends
<1>2. n \in Int /\ (n + 2) = 1 - Len(u) /\ Len(u) + 2 = Len(u) + 1 + 1 /\ <<n + 2, a>> \in X2
  BY <1>1
<1>3. IsSeq(J) /\ Len(J) = 1
  BY IsOperation
<1>4. Takes(u, a, a, X1, L)
  OBVIOUS
<1>5. \A i \in Int : \A g : <<i, g>> \in X1 => <<i, g>> \in none \/ (i = Len(u) + Len(J) + 1 /\ g = d)
  <2> HIDE DEF J
  <2> QED
    BY <1>2, <1>3
<1>6. \A i \in Int : \A g : <<i, g>> \in X2 => <<i + Len(u), g>> \in none \/ (i = 1 - Len(u) /\ g = a)
  <2> HIDE DEF n
  <2> QED
    BY <1>2
<1> HIDE DEF n, X1, X2, none
<1>7. Takes(J, a, d, X2, L)
  BY <1>1, <1>2, JmpTakes
<1> HIDE DEF J
<1>8. Takes(u \o J, a, d, none, L)
  BY ONLY <1>4, <1>5, <1>6, <1>7, Joined
<1>9. QED
  BY <1>8 DEF JmpBack, J, n, none

\* Its breaks lead to the end, its continues to the start.
LEMMA BackLooped ==
  ASSUME NEW t, NEW a, NEW d, NEW L, NEW M, Takes(t, a, d, {}, L), L[1] \in {d, Nowhere}, L[2] \in {a, Nowhere}
  PROVE  Takes(FinishLoop(t, Len(t), 0), a, d, {}, M)
<1> DEFINE s == <<>>
           none == {}
<1>1. Len(s) = 0 /\ IsSeq(t) /\ Len(t) \in Nat /\ a \in Height
  BY Ends
<1>2. s \o t = t
  <2>1. PICK S : t \in Seq(S)
    BY <1>1 DEF IsSeq
  <2>2. QED
    BY <2>1, ConcatEmptySeq
<1>3. Takes(s, a, a, none, L)
  BY <1>1, NoOperation
<1>4. Takes(t, a, d, none, L)
  OBVIOUS
<1>5. /\ \A i \in Int : \A g : <<i, g>> \in none => i = Len(s) + Len(t) + 1 /\ g = d
      /\ \A i \in Int : \A g : <<i, g>> \in none => (i = 1 - Len(s) /\ g = a) \/ (i = Len(t) + 1 /\ g = d)
      /\ L[1] \in {d, Nowhere} /\ L[2] \in {a, Nowhere}
  OBVIOUS
<1> HIDE DEF s, none
<1>6. Takes(FinishLoop(s \o t, Len(s \o t), Len(s)), a, d, {}, M)
  BY ONLY <1>3, <1>4, <1>5, Looped, SMTT(60)
<1>7. QED
  BY <1>1, <1>2, <1>6

\* A condition in a statement, and a jump it decides about.
LEMMA TestStays ==
  ASSUME NEW test, Turns(test, 0, 1), NEW at, Possible(at), NEW L \in Leaves,
         NEW jump \in {"JmpIfFalse", "JmpIfTrue"}, NEW d \in Int, NEW X,
         <<Len(test) + d + 2, HeightAt(at)>> \in X
  PROVE  Takes(test \o Op1(jump, d), HeightAt(at), HeightAt(at), X, L)
<1> DEFINE o == 0
           i == at.iters
           a == HeightAt(at)
           none == {}
<1>1. o \in Nat /\ i \in Nat /\ a = <<o, i>>
  BY PlaceHeights
<1>2. Takes(test, a, <<o + 1, i>>, none, L)
  BY ValueTakes
<1>3. none \subseteq X /\ <<Len(test) + d + 2, <<o, i>>>> \in X
  BY <1>1
<1> HIDE DEF o, i, a, none
<1>4. Takes(test \o Op1(jump, d), a, <<o, i>>, X, L)
  BY <1>1, <1>2, <1>3, TestTakes
<1>5. QED
  BY <1>1, <1>4 DEF a

\* WhileCode leaves the stacks as they were, also by break and continue.
LEMMA WhileStays ==
  ASSUME NEW c, Sound(c), NEW cond, NEW body, IsList(body), NEW at, Possible(at)
  PROVE  Stays(WhileCode(c, cond, body, at), at)
<1> DEFINE in == Inside(at, "loop")
           stmts == Block(c, body, in)
           a == HeightAt(at)
           L == LeavesAt(in)
           test == Expr(c, cond)
           n == Len(stmts) + 1
           J == Op1("JmpIfFalse", n)
           s == test \o J
           u == s \o stmts
           X == {<<Len(u) + 2, a>>}
           none == {}
<1>1. /\ Possible(in) /\ HeightAt(in) = a /\ L = <<a, a>>
      /\ a \in Height
  BY InsidePossible, PlaceHeights
<1>2. L \in Leaves
  BY <1>1, PlaceHeights
<1>3. Takes(stmts, a, a, none, L)
  BY <1>1, BlockStays DEF Stays
<1>4. Turns(test, 0, 1)
  BY PartTurns
<1>5. WhileCode(c, cond, body, at) = FinishLoop(JmpBack(u), Len(JmpBack(u)), 0)
  BY DEF WhileCode
<1> HIDE DEF in, stmts, L, test
<1>6. IsSeq(test) /\ Len(test) \in Nat
  BY <1>4, TurnsIsSeq
<1>7. IsSeq(stmts) /\ Len(stmts) \in Nat
  BY <1>3, Ends
<1>8. IsSeq(J) /\ Len(J) = 1
  BY IsOperation
<1> HIDE DEF J
<1>9. IsSeq(s) /\ Len(s) = Len(test) + 1
  <2>1. IsSeq(test \o J) /\ Len(test \o J) = Len(test) + Len(J)
    BY ONLY <1>6, <1>8, Measured
  <2>2. QED
    BY ONLY <1>8, <2>1 DEF s
<1> HIDE DEF s
<1>10. Len(u) = Len(test) + 1 + Len(stmts)
  <2>1. Len(s \o stmts) = Len(s) + Len(stmts)
    BY ONLY <1>7, <1>9, Measured
  <2>2. QED
    BY ONLY <1>9, <2>1 DEF u
<1> HIDE DEF u
<1>11. n \in Int /\ <<Len(test) + n + 2, a>> \in X
  <2>1. Len(test) + n + 2 = Len(u) + 2
    BY <1>6, <1>7, <1>10
  <2>2. QED
    BY <1>1, <1>7, <2>1
<1> HIDE DEF n, X
<1>13. Takes(s, a, a, X, L)
  BY <1>2, <1>4, <1>11, TestStays DEF s, J
<1> HIDE DEF a
<1>14. Takes(u, a, a, X, L)
  BY <1>3, <1>13, ExitsKept DEF u, none
<1>15. Takes(JmpBack(u), a, a, {}, L)
  BY <1>1, <1>14, BackTakes DEF X
<1>16. L[1] \in {a, Nowhere} /\ L[2] \in {a, Nowhere}
  BY <1>1
<1>17. Takes(FinishLoop(JmpBack(u), Len(JmpBack(u)), 0), a, a, {}, LeavesAt(at))
  BY <1>15, <1>16, BackLooped
<1>18. QED
  BY <1>5, <1>17 DEF Stays, a

\* DoWhileCode, with continue going to the test.
LEMMA DoWhileStays ==
  ASSUME NEW c, Sound(c), NEW cond, NEW body, IsList(body), NEW at, Possible(at)
  PROVE  Stays(DoWhileCode(c, body, cond, at), at)
<1> DEFINE in == Inside(at, "loop")
           s == Block(c, body, in)
           a == HeightAt(at)
           L == LeavesAt(in)
           test == Expr(c, cond)
           d == -(Len(s \o test) + 1)
           J == Op1("JmpIfTrue", d)
           t == test \o J
           X1 == {}
           X2 == {<<Len(test) + d + 2, a>>}
<1>1. /\ Possible(in) /\ HeightAt(in) = a /\ L = <<a, a>> /\ a \in Height
  BY InsidePossible, PlaceHeights
<1>2. L \in Leaves
  BY <1>1, PlaceHeights
<1>3. Takes(s, a, a, X1, L)
  BY <1>1, BlockStays DEF Stays
<1>4. Turns(test, 0, 1)
  BY PartTurns
<1>5. DoWhileCode(c, body, cond, at) =
        FinishLoop((s \o test) \o J, Len((s \o test) \o J), Len(s))
  BY DEF DoWhileCode
<1>6. IsSeq(J)
  BY IsOperation
<1> HIDE DEF in, s, L, test, J
<1>7. IsSeq(test) /\ Len(test) \in Nat
  BY <1>4, TurnsIsSeq
<1>8. IsSeq(s) /\ Len(s) \in Nat
  BY <1>3, Ends
<1>9. (s \o test) \o J = s \o t
  BY ONLY <1>6, <1>7, <1>8, Regrouped DEF t
<1>10. d \in Int /\ Len(test) + d + 2 = 1 - Len(s)
  <2>1. Len(s \o test) = Len(s) + Len(test)
    BY ONLY <1>7, <1>8, Measured
  <2>2. QED
    BY ONLY <1>7, <1>8, <2>1 DEF d
<1> HIDE DEF d
<1>11. Takes(t, a, a, X2, L)
  BY <1>2, <1>4, <1>10, TestStays DEF t, J
<1> HIDE DEF t
<1>12. \A i \in Int : \A g : <<i, g>> \in X1 => i = Len(s) + Len(t) + 1 /\ g = a
  OBVIOUS
<1>13. \A i \in Int : \A g : <<i, g>> \in X2 => (i = 1 - Len(s) /\ g = a) \/ (i = Len(t) + 1 /\ g = a)
  BY <1>10
<1>14. L[1] \in {a, Nowhere} /\ L[2] \in {a, Nowhere}
  BY <1>1
<1> HIDE DEF X1, X2, a
<1>15. Takes(FinishLoop(s \o t, Len(s \o t), Len(s)), a, a, {}, LeavesAt(at))
  BY ONLY <1>3, <1>11, <1>12, <1>13, <1>14, Looped, SMTT(60)
<1>16. QED
  BY <1>5, <1>9, <1>15 DEF Stays, a

\* The conditions of a for statement: the value of the last one is left.
LEMMA ConditionsTurn ==
  ASSUME NEW c, Sound(c), NEW cond, IsList(cond), cond # <<>>
  PROVE  Turns(FlattenSeq([i \in DOMAIN cond |->
                 Expr(c, cond[i]) \o (IF i < Len(cond) THEN <<<<"Pop">>>> ELSE <<>>)]), 0, 1)
<1> DEFINE n == Len(cond)
           cs == [i \in 1..n |-> Expr(c, cond[i]) \o (IF i < n THEN <<<<"Pop">>>> ELSE <<>>)]
           g == [i \in 1..(n + 1) |-> IF i = n + 1 THEN 1 ELSE 0]
<1>1. n \in Nat \ {0} /\ DOMAIN cond = 1..n
  <2>1. IsSeq(cond) /\ Len(cond) \in Nat /\ DOMAIN cond = 1..Len(cond)
    BY ListIsSeq
  <2>2. PICK S : cond \in Seq(S)
    BY <2>1 DEF IsSeq
  <2>3. Len(cond) # 0
    BY <2>2, EmptySeq
  <2>4. QED
    BY <2>1, <2>3
<1>2. \A e : Turns(Expr(c, e) \o <<<<"Pop">>>>, 0, 0) /\ Turns(Expr(c, e) \o <<>>, 0, 1)
  BY PartTurns, ThenOp, StoresMove, NothingTurns, TurnsInARow, Zero
<1>3. g \in [1..(n + 1) -> Nat] /\ g[1] = 0 /\ g[n + 1] = 1
  BY <1>1
<1>4. \A i \in 1..n : g[i] = 0 /\ g[i + 1] = IF i < n THEN 0 ELSE 1
  BY <1>1
<1>5. ASSUME NEW i \in 1..n PROVE Turns(cs[i], g[i], g[i + 1])
  <2>1. CASE i < n
    <3>1. cs[i] = Expr(c, cond[i]) \o <<<<"Pop">>>> /\ g[i] = 0 /\ g[i + 1] = 0
      BY <1>4, <2>1
    <3>2. QED
      BY <1>2, <3>1
  <2>2. CASE ~ (i < n)
    <3>1. cs[i] = Expr(c, cond[i]) \o <<>> /\ g[i] = 0 /\ g[i + 1] = 1
      BY <1>4, <2>2
    <3>2. QED
      BY <1>2, <3>1
  <2>3. QED
    BY <2>1, <2>2
<1>6. cs = [i \in 1..n |-> cs[i]]
  OBVIOUS
<1>7. [i \in DOMAIN cond |-> Expr(c, cond[i]) \o (IF i < Len(cond) THEN <<<<"Pop">>>> ELSE <<>>)] = cs
  BY <1>1
<1> HIDE DEF cs, g, n
<1>8. IsSeq(cs) /\ Len(cs) = n
  BY <1>1, <1>6, FunctionIsSeq
<1>9. Turns(FlattenSeq(cs), g[1], g[n + 1])
  BY <1>1, <1>3, <1>5, <1>8, FlattenTurns
<1>10. QED
  BY <1>3, <1>7, <1>9

\* Nothing, flattened.
LEMMA NoCodeTurns ==
  Turns(FlattenSeq(<<>>), 0, 0)
<1>1. FlattenSeq(<<>>) = <<>>
  BY DEF FlattenSeq
<1>2. QED
  BY <1>1, NothingTurns, Zero

\* ForCode, with continue going to the step, and with or without a condition.
LEMMA ForStays ==
  ASSUME NEW c, Sound(c), NEW init, IsList(init), NEW cond, IsList(cond), NEW step, IsList(step),
         NEW body, IsList(body), NEW at, Possible(at)
  PROVE  Stays(ForCode(c, init, cond, step, body, at), at)
<1> DEFINE in == Inside(at, "loop")
           stmts == Block(c, body, in)
           steps == EachStmt(c, step)
           a == HeightAt(at)
           L == LeavesAt(in)
           test == FlattenSeq([i \in DOMAIN cond |->
                     Expr(c, cond[i]) \o (IF i < Len(cond) THEN <<<<"Pop">>>> ELSE <<>>)])
           n == Len(stmts \o steps) + 1
           exit == IF cond = <<>> THEN <<>> ELSE Op1("JmpIfFalse", n)
           p == test \o exit
           q == p \o (stmts \o steps)
           d == -(Len(q) + 1)
           J == Op1("Jmp", d)
           s == p \o stmts
           t == steps \o J
           X1 == {<<Len(s) + Len(t) + 1, a>>}
           X2 == {<<1 - Len(s), a>>}
           none == {}
<1>1. /\ Possible(in) /\ HeightAt(in) = a /\ L = <<a, a>> /\ a \in Height
  BY InsidePossible, PlaceHeights
<1>2. L \in Leaves
  BY <1>1, PlaceHeights
<1>3. Takes(stmts, a, a, none, L)
  BY <1>1, BlockStays DEF Stays
<1>4. Takes(steps, a, a, none, L) /\ Stays(EachStmt(c, init), at)
  <2>1. Turns(EachStmt(c, step), 0, 0) /\ Turns(EachStmt(c, init), 0, 0)
    BY ListIsSeq, EachTurns
  <2>2. Stays(EachStmt(c, step), in) /\ Stays(EachStmt(c, init), at)
    BY <1>1, <2>1, TurnsStays
  <2>3. QED
    BY <1>1, <2>2 DEF Stays
<1>5. ForCode(c, init, cond, step, body, at) = EachStmt(c, init) \o FinishLoop(q \o J, Len(q \o J), Len(s))
  BY DEF ForCode, JmpBack
<1>6. cond # <<>> => Turns(test, 0, 1)
  BY ConditionsTurn
<1>7. cond = <<>> => Turns(test, 0, 0)
  <2>1. ASSUME cond = <<>> PROVE test = FlattenSeq(<<>>)
    <3>1. [i \in DOMAIN cond |->
             Expr(c, cond[i]) \o (IF i < Len(cond) THEN <<<<"Pop">>>> ELSE <<>>)] = <<>>
      BY <2>1
    <3>2. QED
      BY <3>1
  <2>2. QED
    BY <2>1, NoCodeTurns
<1>8. IsSeq(J) /\ Len(J) = 1
  BY IsOperation
<1>9. IsSeq(stmts) /\ Len(stmts) \in Nat
  BY <1>3, Ends
<1>10. IsSeq(steps) /\ Len(steps) \in Nat
  BY <1>4, Ends
<1>11. IsSeq(test) /\ Len(test) \in Nat
  BY <1>6, <1>7, TurnsIsSeq
<1>12. cond # <<>> => exit = Op1("JmpIfFalse", n)
  OBVIOUS
<1>13. cond = <<>> => exit = <<>>
  OBVIOUS
<1>14. IsSeq(exit) /\ Len(exit) \in Nat /\ (cond # <<>> => Len(exit) = 1)
  <2> HIDE DEF n, exit
  <2>1. IsSeq(<<>>) /\ Len(<<>>) = 0
    BY NoCodeTurns, TurnsIsSeq, NothingTurns, Zero
  <2>2. QED
    BY <1>12, <1>13, <2>1, IsOperation
<1> HIDE DEF in, stmts, steps, L, test, exit, J
<1>15. IsSeq(p) /\ Len(p) = Len(test) + Len(exit)
  BY ONLY <1>11, <1>14, Measured DEF p
<1>16. IsSeq(stmts \o steps) /\ Len(stmts \o steps) = Len(stmts) + Len(steps)
  BY ONLY <1>9, <1>10, Measured
<1> HIDE DEF p
<1>17. IsSeq(s) /\ Len(s) = Len(p) + Len(stmts)
  BY ONLY <1>9, <1>15, Measured DEF s
<1>18. Len(t) = Len(steps) + 1
  <2>1. Len(steps \o J) = Len(steps) + Len(J)
    BY ONLY <1>8, <1>10, Measured
  <2>2. QED
    BY ONLY <1>8, <2>1 DEF t
<1>19. Len(q) = Len(s) + Len(steps) /\ q = s \o steps
  <2>1. Len(p \o (stmts \o steps)) = Len(p) + Len(stmts \o steps)
    BY ONLY <1>15, <1>16, Measured
  <2>2. (p \o stmts) \o steps = p \o (stmts \o steps)
    BY ONLY <1>9, <1>10, <1>15, Regrouped
  <2>3. Len(p) \in Nat /\ Len(p) + (Len(stmts) + Len(steps)) = (Len(p) + Len(stmts)) + Len(steps)
    BY ONLY <1>9, <1>10, <1>11, <1>14, <1>15
  <2>4. Len(q) = Len(s) + Len(steps)
    BY ONLY <1>16, <1>17, <2>1, <2>3 DEF q
  <2>5. QED
    BY ONLY <2>2, <2>4 DEF q, s
<1> HIDE DEF q
<1>20. q \o J = s \o t
  <2> HIDE DEF s
  <2>1. (s \o steps) \o J = s \o (steps \o J)
    BY ONLY <1>8, <1>10, <1>17, Regrouped
  <2>2. QED
    BY ONLY <1>19, <2>1 DEF t
<1> HIDE DEF s, t
<1>21. Takes(p, a, a, X1, L)
  <2>1. CASE cond # <<>>
    <3>a. n = Len(stmts) + Len(steps) + 1
      BY ONLY <1>16 DEF n
    <3>b. Len(exit) = 1
      BY <1>14, <2>1
    <3>1. n \in Int /\ Len(test) + n + 2 = Len(s) + Len(t) + 1
      <4> HIDE DEF n
      <4> QED
        BY ONLY <1>9, <1>10, <1>11, <1>15, <1>17, <1>18, <3>a, <3>b
    <3>2. <<Len(test) + n + 2, a>> \in X1
      BY <3>1
    <3> HIDE DEF n, X1
    <3>3. Takes(test \o Op1("JmpIfFalse", n), a, a, X1, L)
      BY <1>2, <1>6, <2>1, <3>1, <3>2, TestStays
    <3>4. QED
      BY <1>12, <2>1, <3>3 DEF p
  <2>2. CASE cond = <<>>
    <3>1. Turns(p, 0, 0)
      BY <1>7, <1>13, <2>2, NothingTurns, TurnsInARow, Zero DEF p
    <3>2. Stays(p, in)
      BY <1>1, <3>1, TurnsStays
    <3>3. Takes(p, a, a, none, L)
      BY <1>1, <3>2 DEF Stays, L
    <3>4. none \subseteq X1
      OBVIOUS
    <3> HIDE DEF none, X1
    <3>5. QED
      BY <3>3, <3>4, Widened
  <2>3. QED
    BY <2>1, <2>2
<1>22. d + 2 + Len(steps) = 1 - Len(s) /\ d \in Int
  <2>1. Len(s) \in Nat
    BY ONLY <1>9, <1>11, <1>14, <1>15, <1>17
  <2>2. QED
    BY ONLY <1>10, <1>19, <2>1 DEF d
<1>23. Takes(J, a, a, {<<d + 2, a>>}, L)
  <2> DEFINE Y == {<<d + 2, a>>}
  <2>1. <<d + 2, a>> \in Y
    OBVIOUS
  <2> HIDE DEF Y, d, a
  <2>2. Takes(Op1("Jmp", d), a, a, Y, L)
    BY <1>1, <1>22, <2>1, JmpTakes
  <2>3. QED
    BY <2>2 DEF Y, J
<1>24. Takes(t, a, a, X2, L)
  <2> DEFINE e == d + 2
  <2>1. e \in Int /\ e + Len(steps) = 1 - Len(s)
    BY <1>22
  <2>2. <<e + Len(steps), a>> \in X2 /\ none \subseteq X2
    BY <2>1
  <2>3. Takes(J, a, a, {<<e, a>>}, L)
    BY <1>23
  <2> HIDE DEF e, none, X2, a
  <2>4. Takes(steps \o J, a, a, X2, L)
    BY <1>4, <2>1, <2>2, <2>3, ExitShared
  <2>5. QED
    BY <2>4 DEF t
<1>25. Takes(s, a, a, X1, L)
  <2> HIDE DEF X1, a
  <2> QED
    BY <1>3, <1>21, ExitsKept DEF s, none
<1>26. \A i \in Int : \A g : <<i, g>> \in X1 => i = Len(s) + Len(t) + 1 /\ g = a
  OBVIOUS
<1>27. \A i \in Int : \A g : <<i, g>> \in X2 => (i = 1 - Len(s) /\ g = a) \/ (i = Len(t) + 1 /\ g = a)
  OBVIOUS
<1>28. L[1] \in {a, Nowhere} /\ L[2] \in {a, Nowhere}
  BY <1>1
<1> HIDE DEF X1, X2, a
<1>29. Takes(FinishLoop(s \o t, Len(s \o t), Len(s)), a, a, {}, LeavesAt(at))
  BY ONLY <1>24, <1>25, <1>26, <1>27, <1>28, Looped, SMTT(60)
<1>30. Takes(EachStmt(c, init), a, a, {}, LeavesAt(at))
  BY <1>4 DEF Stays, a
<1>31. Takes(EachStmt(c, init) \o FinishLoop(s \o t, Len(s \o t), Len(s)), a, a, {}, LeavesAt(at))
  BY <1>29, <1>30, InARow
<1>32. QED
  BY <1>5, <1>20, <1>31 DEF Stays, a

----------------------------------------------------------------------------
(* The other statements. *)

\* An operation that may skip the code after it.
LEMMA SkipTakes ==
  ASSUME NEW op, NEW code, NEW a, NEW b, NEW d, NEW L,
         Takes(<<op>>, a, b, {<<Len(code) + 2, d>>}, L), Takes(code, b, d, {}, L)
  PROVE  Takes(<<op>> \o code, a, d, {}, L)
<1> DEFINE s == <<op>>
           X1 == {<<Len(code) + 2, d>>}
           none == {}
<1>1. Len(s) = 1
  BY OneOperation
<1>2. Len(code) \in Nat
  BY Ends
<1>3. Takes(s, a, b, X1, L) /\ Takes(code, b, d, none, L)
  OBVIOUS
<1> HIDE DEF s
<1>4. \A i \in Int : \A g : <<i, g>> \in X1 => <<i, g>> \in none \/ (i = Len(s) + Len(code) + 1 /\ g = d)
  BY <1>1, <1>2
<1>5. \A i \in Int : \A g : <<i, g>> \in none => <<i + Len(s), g>> \in none \/ (i = 1 - Len(s) /\ g = a)
  OBVIOUS
<1> HIDE DEF X1, none
<1>6. Takes(s \o code, a, d, none, L)
  BY ONLY <1>3, <1>4, <1>5, Joined
<1>7. QED
  BY <1>6 DEF s, none

\* A body with its iterator is made, run, and given up or left.
LEMMA ForeachStays ==
  ASSUME NEW c, Sound(c), NEW array \in Node, NEW key, NEW value \in Node, NEW body, IsList(body),
         NEW at, Possible(at)
  PROVE  Stays(ForeachCode(c, array, key, value, body, at), at)
<1> DEFINE in == Inside(at, "foreach")
           stmts == Block(c, body, in)
           a == HeightAt(at)
           b == <<0, at.iters + 1>>
           L == LeavesAt(in)
           M == LeavesAt(at)
           l == Len(stmts)
           next == <<"IterNext", value[2], IF key = NoExpr THEN NoSlot ELSE key[2], l + 1>>
           u == <<next>> \o stmts
           code == JmpBack(u)
           loop == FinishLoop(code, Len(code), 0)
           start == <<"IterInit", array[2], Len(code)>>
<1>1. ForeachCode(c, array, key, value, body, at) =
        IF array[1] # "var" \/ value[1] # "var" \/ key[1] \notin {"none", "var"} THEN Bail
        ELSE <<start>> \o loop
  BY DEF ForeachCode
<1>2. /\ Possible(in) /\ HeightAt(in) = b /\ L = <<a, b>> /\ at.iters \in Nat
      /\ a = <<0, at.iters>> /\ a \in Height /\ b \in Height
  BY InsidePossible, PlaceHeights
<1>3. Takes(stmts, b, b, {}, L)
  BY <1>2, BlockStays DEF Stays
<1> HIDE DEF in, stmts, L, M
<1>4. IsSeq(stmts) /\ l \in Nat
  BY <1>3, Ends
<1>5. ASSUME array[1] = "var", value[1] = "var" PROVE Takes(<<start>> \o loop, a, a, {}, M)
  <2>1. array[2] \in Slot /\ value[2] \in Slot
    BY <1>5, VariablesAreSlots
  <2>2. Takes(<<next>>, b, b, {<<l + 3, a>>}, L)
    <3> DEFINE X == {<<l + 3, a>>}
               on == <<1, 0>>
               past == <<1 + (l + 1), -1>>
    <3>1. Operands(next) = 0 /\ Results(next) = 0 /\ Ways(next) = {on, past}
      BY DEF Operands, Results, Ways
    <3>2. Proper(next) /\ Served(next, b[1], b[2]) /\ next[1] \notin {"Bail", "Break", "Continue"}
      BY <1>2, <2>1, <3>1 DEF Proper, Served
    <3>3. After(next, b, on) = b /\ After(next, b, past) = a
      BY <1>2, <3>1 DEF After
    <3>4. on \in Int \X Int /\ on[1] = 1 /\ past \in Int \X Int /\ 1 + past[1] = l + 3
      BY <1>4
    <3>5. <<l + 3, a>> \in X
      OBVIOUS
    <3> HIDE DEF next, a, b, on, past, X
    <3>6. \A way \in Ways(next) :
            /\ way \in Int \X Int
            /\ (way[1] = 1 /\ After(next, b, way) = b) \/ <<1 + way[1], After(next, b, way)>> \in X
      BY <3>1, <3>3, <3>4, <3>5
    <3>7. Takes(<<next>>, b, b, X, L)
      BY <1>2, <3>2, <3>6, Alone
    <3>8. QED
      BY <3>7 DEF X
  <2> HIDE DEF l
  <2>3. Len(u) + 2 = l + 3
    <3> DEFINE s == <<next>>
    <3>1. IsSeq(s) /\ Len(s) = 1
      BY OneOperation
    <3> HIDE DEF s
    <3>2. Len(s \o stmts) = Len(s) + Len(stmts)
      BY ONLY <1>4, <3>1, Measured
    <3>3. Len(u) = 1 + l
      BY ONLY <3>1, <3>2 DEF u, s, l
    <3>4. QED
      BY <1>4, <3>3
  <2>4. Takes(u, b, b, {<<Len(u) + 2, a>>}, L)
    <3> DEFINE X == {<<l + 3, a>>}
    <3>1. Takes(<<next>>, b, b, X, L)
      BY <2>2
    <3> HIDE DEF X, next, a, b
    <3>2. Takes(<<next>> \o stmts, b, b, X, L)
      BY <1>3, <3>1, ExitsKept
    <3>3. X = {<<Len(u) + 2, a>>}
      BY <2>3 DEF X
    <3>4. QED
      BY <3>2, <3>3 DEF u
  <2> HIDE DEF u, a, b
  <2>5. Takes(code, b, a, {}, L)
    BY <1>2, <2>4, BackTakes
  <2>6. IsSeq(code) /\ Len(code) \in Nat
    BY <2>5, Ends
  <2> HIDE DEF code
  <2>7. L[1] \in {a, Nowhere} /\ L[2] \in {b, Nowhere}
    BY <1>2
  <2>8. Takes(loop, b, a, {}, M)
    BY <2>5, <2>7, BackLooped
  <2>9. Len(loop) = Len(code)
    BY <2>6, FinishedLen
  <2> DEFINE n == Len(code)
             X == {<<n + 2, a>>}
             on == <<1, 1>>
             over == <<1 + n, 0>>
  <2>10. Operands(start) = 0 /\ Results(start) = 0 /\ Ways(start) = {on, over}
    BY DEF Operands, Results, Ways
  <2>11. Proper(start) /\ Served(start, a[1], a[2]) /\ start[1] \notin {"Bail", "Break", "Continue"}
    BY <1>2, <2>1, <2>10 DEF Proper, Served
  <2>12. After(start, a, on) = b /\ After(start, a, over) = a
    BY <1>2, <2>10 DEF After, b
  <2>13. on \in Int \X Int /\ on[1] = 1 /\ over \in Int \X Int /\ 1 + over[1] = n + 2
    BY <2>6
  <2>14. <<n + 2, a>> \in X
    OBVIOUS
  <2> HIDE DEF start, on, over, X, loop
  <2>15. \A way \in Ways(start) :
           /\ way \in Int \X Int
           /\ (way[1] = 1 /\ After(start, a, way) = b) \/ <<1 + way[1], After(start, a, way)>> \in X
    BY <2>10, <2>12, <2>13, <2>14
  <2>16. Takes(<<start>>, a, b, X, M)
    BY <1>2, <2>11, <2>15, Alone
  <2>17. X = {<<Len(loop) + 2, a>>}
    BY <2>9 DEF X
  <2>18. QED
    BY <2>8, <2>16, <2>17, SkipTakes
<1>6. Stays(Bail, at)
  BY RefusedStays
<1> HIDE DEF loop, start
<1>7. QED
  BY <1>1, <1>5, <1>6 DEF Stays, a, M

\* StaticCode leaves the stacks as they were, whether the initialiser runs or not.
LEMMA StaticStays ==
  ASSUME NEW c, Sound(c), NEW x \in VarName, NEW init, NEW at, Possible(at)
  PROVE  Stays(StaticCode(c, x, init), at)
<1> DEFINE code == (IF init = NoExpr THEN Push(Null) ELSE Expr(c, init)) \o Op1("StaticInit", x)
           n == Len(code)
           op == <<"StaticCheck", x, n>>
           a == HeightAt(at)
           L == LeavesAt(at)
           X == {<<n + 2, a>>}
           on == <<1, 0>>
           over == <<1 + n, 0>>
<1>1. StaticCode(c, x, init) = <<op>> \o code
  BY DEF StaticCode
<1>2. x \in Slot
  BY VariablesAreSlots
<1>3. Turns(code, 0, 0)
  <2>1. Turns(IF init = NoExpr THEN Push(Null) ELSE Expr(c, init), 0, 1)
    BY ConstantsTurn, PartTurns
  <2>2. QED
    BY <1>2, <2>1, StoresMove, ThenOp, Zero DEF Op1
<1> HIDE DEF code
<1>4. Takes(code, a, a, {}, L) /\ a \in Height /\ a = <<0, at.iters>> /\ at.iters \in Nat
  BY <1>3, TurnsStays, PlaceHeights DEF Stays
<1>5. n \in Nat
  BY <1>3, TurnsIsSeq
<1> HIDE DEF n
<1>6. Operands(op) = 0 /\ Results(op) = 0 /\ Ways(op) = {on, over}
  BY DEF Operands, Results, Ways
<1>7. Proper(op) /\ Served(op, a[1], a[2]) /\ op[1] \notin {"Bail", "Break", "Continue"}
  BY <1>2, <1>4, <1>6 DEF Proper, Served
<1> HIDE DEF a
<1>8. After(op, a, on) = a /\ After(op, a, over) = a
  BY <1>4, <1>6 DEF After
<1>9. on \in Int \X Int /\ on[1] = 1 /\ over \in Int \X Int /\ 1 + over[1] = n + 2
  BY <1>5
<1>10. <<n + 2, a>> \in X
  OBVIOUS
<1> HIDE DEF op, on, over, X
<1>11. \A way \in Ways(op) :
         /\ way \in Int \X Int
         /\ (way[1] = 1 /\ After(op, a, way) = a) \/ <<1 + way[1], After(op, a, way)>> \in X
  BY <1>6, <1>8, <1>9, <1>10
<1>12. Takes(<<op>>, a, a, X, L)
  BY <1>4, <1>7, <1>11, Alone
<1>13. X = {<<Len(code) + 2, a>>}
  BY DEF X, n
<1>14. Takes(<<op>> \o code, a, a, {}, L)
  BY <1>4, <1>12, <1>13, SkipTakes
<1>15. QED
  BY <1>1, <1>14 DEF Stays, a

\* The tests for the last of n cases of a switch.
CaseTests(c, cases, tmp, bodies, otherwise, n, f, m) ==
  f = [k \in 0..m |->
         IF k = 0 THEN Op1("Jmp", otherwise)
         ELSE LET i == n - k + 1
              IN IF i \in {j \in 1..n : cases[j][1] = NoExpr} THEN f[k - 1]
                 ELSE Tested(Op1("LoadQuiet", tmp) \o Expr(c, cases[i][1]) \o Op1("Bin", "=="),
                             "JmpIfTrue", Len(FlattenSeq(SubSeq(bodies, 1, i - 1))), f[k - 1])]

\* The recursive function of SwitchCode exists.
LEMMA CaseTestsExist ==
  ASSUME NEW c, NEW cases, NEW tmp, NEW bodies, NEW otherwise, NEW n \in Nat
  PROVE  \E f : CaseTests(c, cases, tmp, bodies, otherwise, n, f, n)
<1> DEFINE Case(k, x) ==
             IF n - k + 1 \in {j \in 1..n : cases[j][1] = NoExpr} THEN x
             ELSE Tested(Op1("LoadQuiet", tmp) \o Expr(c, cases[n - k + 1][1]) \o Op1("Bin", "=="),
                         "JmpIfTrue", Len(FlattenSeq(SubSeq(bodies, 1, (n - k + 1) - 1))), x)
           last == Op1("Jmp", otherwise)
           T == {k \in 0..n : \E f : CaseTests(c, cases, tmp, bodies, otherwise, n, f, k)}
<1>a. \A f : \A m \in Nat :
        CaseTests(c, cases, tmp, bodies, otherwise, n, f, m)
          <=> f = [k \in 0..m |-> IF k = 0 THEN last ELSE Case(k, f[k - 1])]
  BY DEF CaseTests
<1> HIDE DEF Case, last
<1>1. 0 \in T
  <2> DEFINE g == [k \in 0..0 |-> last]
  <2>1. g = [k \in 0..0 |-> IF k = 0 THEN last ELSE Case(k, g[k - 1])]
    OBVIOUS
  <2>2. 0 \in Nat /\ 0 \in 0..n
    OBVIOUS
  <2>3. CaseTests(c, cases, tmp, bodies, otherwise, n, g, 0)
    BY <1>a, <2>1, <2>2
  <2>4. QED
    BY <2>2, <2>3
<1>2. ASSUME NEW k \in 0..n, k \in T, k + 1 <= n PROVE k + 1 \in T
  <2>1. PICK f : CaseTests(c, cases, tmp, bodies, otherwise, n, f, k)
    BY <1>2
  <2> DEFINE g == [i \in 0..(k + 1) |-> IF i = k + 1 THEN Case(k + 1, f[k]) ELSE f[i]]
  <2>2. \A i \in 0..k : f[i] = IF i = 0 THEN last ELSE Case(i, f[i - 1])
    BY <1>a, <2>1
  <2>3. \A i \in 0..(k + 1) : g[i] = IF i = 0 THEN last ELSE Case(i, g[i - 1])
    <3>1. ASSUME NEW i \in 0..(k + 1) PROVE g[i] = IF i = 0 THEN last ELSE Case(i, g[i - 1])
      <4>1. CASE i = k + 1
        <5>1. i - 1 = k /\ i # 0 /\ k \in 0..(k + 1) /\ k # k + 1
          BY <4>1
        <5>2. g[i] = Case(k + 1, f[k]) /\ g[k] = f[k]
          BY <4>1, <5>1
        <5>3. QED
          BY <4>1, <5>1, <5>2
      <4>2. CASE i # k + 1
        <5>1. i \in 0..k /\ g[i] = f[i]
          BY <4>2
        <5>2. i # 0 => g[i - 1] = f[i - 1]
          BY <5>1
        <5>3. QED
          BY <2>2, <5>1, <5>2
      <4>3. QED
        BY <4>1, <4>2
    <3>2. QED
      BY <3>1
  <2>4. g = [i \in 0..(k + 1) |-> IF i = 0 THEN last ELSE Case(i, g[i - 1])]
    BY <2>3
  <2>5. CaseTests(c, cases, tmp, bodies, otherwise, n, g, k + 1)
    BY <1>a, <2>4
  <2>6. QED
    BY <1>2, <2>5
<1>3. T = 0..n
  <2>1. T \in SUBSET (0..n)
    OBVIOUS
  <2> HIDE DEF T
  <2> QED
    BY <1>1, <1>2, <2>1, InductionUpTo
<1>4. QED
  BY <1>3

\* The exits of code of length m to places in the code behind it.
ExitsTo(m, S, a) == {<<m + s + 1, a>> : s \in S}

\* The test for one case leaves its result.
LEMMA CaseTestTurns ==
  ASSUME NEW c, Sound(c), NEW tmp \in Slot, NEW e
  PROVE  Turns(Op1("LoadQuiet", tmp) \o Expr(c, e) \o Op1("Bin", "=="), 0, 1)
<1>1. Turns(Op1("LoadQuiet", tmp), 0, 1) /\ Turns(Expr(c, e), 1, 2)
  BY PushesMove, OneMoves, PartAbove, Zero
<1>2. Turns(Op1("LoadQuiet", tmp) \o Expr(c, e), 0, 2) /\ "==" \in BinOps
  BY <1>1, TurnsInARow DEF BinOps
<1>3. QED
  BY <1>2, ThenOp, ChangesMove, Zero DEF Op1

\* The length of a test before the rest.
LEMMA TestedLen ==
  ASSUME NEW test, NEW rest, IsSeq(test), IsSeq(rest), NEW jump, NEW beyond
  PROVE  Len(Tested(test, jump, beyond, rest)) = Len(test) + Len(rest) + 1
<1> DEFINE J == Op1(jump, Len(rest) + beyond)
           s == test \o J
<1>1. IsSeq(J) /\ Len(J) = 1
  BY IsOperation
<1>2. Tested(test, jump, beyond, rest) = s \o rest
  BY DEF Tested
<1>3. IsSeq(test) /\ IsSeq(rest)
  OBVIOUS
<1> HIDE DEF J
<1>4. IsSeq(test \o J) /\ Len(test \o J) = Len(test) + Len(J)
  BY ONLY <1>1, <1>3, Measured
<1>5. IsSeq(s) /\ Len(s) = Len(test) + 1
  BY ONLY <1>1, <1>4 DEF s
<1> HIDE DEF s
<1>6. Len(s \o rest) = Len(s) + Len(rest)
  BY ONLY <1>3, <1>5, Measured
<1>7. Len(test) \in Nat /\ Len(rest) \in Nat
  BY <1>3, SeqIsFunction
<1>8. QED
  BY <1>2, <1>5, <1>6, <1>7

\* A test in a statement, before the rest of it.
LEMMA TestedStays ==
  ASSUME NEW test, Turns(test, 0, 1), NEW at, Possible(at), NEW L \in Leaves, NEW rest, NEW X, NEW Y,
         NEW jump \in {"JmpIfFalse", "JmpIfTrue"}, NEW beyond \in Nat,
         Takes(rest, HeightAt(at), HeightAt(at), Y, L), Carried(Y, Len(test) + 1, X),
         <<Len(test) + Len(rest) + beyond + 2, HeightAt(at)>> \in X
  PROVE  /\ Takes(Tested(test, jump, beyond, rest), HeightAt(at), HeightAt(at), X, L)
         /\ Len(Tested(test, jump, beyond, rest)) = Len(test) + Len(rest) + 1
<1> DEFINE a == HeightAt(at)
           d == HeightAt(at)
<1>1. PICK o \in Nat, i \in Nat : a = <<o, i>> /\ Takes(test, a, <<o + 1, i>>, {}, L)
  BY PlaceHeights, ValueTakes, Zero
<1>2. Takes(test, a, <<o + 1, i>>, {}, L) /\ Takes(rest, <<o, i>>, d, Y, L)
  BY <1>1
<1>3. Carried(Y, Len(test) + 1, X) /\ <<Len(test) + Len(rest) + beyond + 2, <<o, i>>>> \in X
  BY <1>1
<1>4. jump \in {"JmpIfFalse", "JmpIfTrue"} /\ beyond \in Nat /\ o \in Nat /\ i \in Nat
  OBVIOUS
<1> HIDE DEF a, d
<1>5. Takes(Tested(test, jump, beyond, rest), a, d, X, L)
  BY ONLY <1>2, <1>3, <1>4, TestedTakes
<1>7. Len(Tested(test, jump, beyond, rest)) = Len(test) + Len(rest) + 1
  BY TurnsIsSeq, Ends, TestedLen
<1>6. QED
  BY <1>5, <1>7 DEF a, d

\* The tests of a switch: they leave into the bodies, at the height of the statement.
LEMMA CaseTestsTake ==
  ASSUME NEW c, Sound(c), NEW cases, NEW tmp \in Slot, NEW bodies, NEW n \in Nat, NEW f,
         NEW S \in SUBSET Nat, NEW otherwise \in S,
         CaseTests(c, cases, tmp, bodies, otherwise, n, f, n),
         \A i \in 1..n : Len(FlattenSeq(SubSeq(bodies, 1, i - 1))) \in S,
         NEW at, Possible(at), NEW L \in Leaves
  PROVE  Takes(f[n], HeightAt(at), HeightAt(at), ExitsTo(Len(f[n]), S, HeightAt(at)), L)
<1> DEFINE a == HeightAt(at)
           Start(i) == Len(FlattenSeq(SubSeq(bodies, 1, i - 1)))
           Test(i) == Op1("LoadQuiet", tmp) \o Expr(c, cases[i][1]) \o Op1("Bin", "==")
           defaults == {j \in 1..n : cases[j][1] = NoExpr}
           T == {k \in 0..n : Takes(f[k], a, a, ExitsTo(Len(f[k]), S, a), L)}
<1>1. \A k \in 0..n : f[k] = IF k = 0 THEN Op1("Jmp", otherwise)
                             ELSE IF n - k + 1 \in defaults THEN f[k - 1]
                             ELSE Tested(Test(n - k + 1), "JmpIfTrue", Start(n - k + 1), f[k - 1])
  BY DEF CaseTests
<1>2. \A i \in 1..n : Start(i) \in S /\ Start(i) \in Nat
  OBVIOUS
<1>3. \A i : Turns(Test(i), 0, 1)
  BY CaseTestTurns
<1>4. a \in Height
  BY PlaceHeights
<1> HIDE DEF Start, Test, defaults
<1>5. 0 \in T
  <2> DEFINE J == Op1("Jmp", otherwise)
             X == ExitsTo(Len(J), S, a)
  <2>1. Len(J) = 1 /\ otherwise \in Int
    BY IsOperation
  <2>2. otherwise + 2 = 1 + otherwise + 1
    BY <2>1
  <2>3. <<otherwise + 2, a>> \in X
    <3> HIDE DEF J
    <3> QED
      BY <2>1, <2>2 DEF ExitsTo
  <2> HIDE DEF X, a
  <2>4. Takes(J, a, a, X, L)
    BY <1>4, <2>1, <2>3, JmpTakes
  <2>5. 0 \in 0..n
    OBVIOUS
  <2>6. f[0] = J
    BY <1>1, <2>5
  <2>7. QED
    BY <2>4, <2>5, <2>6 DEF X
<1>6. ASSUME NEW k \in 0..n, k \in T, k + 1 <= n PROVE k + 1 \in T
  <2> DEFINE i == n - (k + 1) + 1
             test == Test(i)
             rest == f[k]
             whole == f[k + 1]
             beyond == Start(i)
             Y == ExitsTo(Len(rest), S, a)
             X == ExitsTo(Len(test) + Len(rest) + 1, S, a)
  <2>1. k + 1 \in 0..n /\ k + 1 # 0 /\ (k + 1) - 1 = k /\ i \in 1..n
    BY <1>6
  <2>2. whole = IF i \in defaults THEN rest ELSE Tested(test, "JmpIfTrue", beyond, rest)
    BY <1>1, <2>1
  <2>3. Takes(rest, a, a, Y, L)
    BY <1>6
  <2>4. Turns(test, 0, 1) /\ beyond \in S /\ beyond \in Nat
    BY <1>2, <1>3, <2>1
  <2> HIDE DEF test, rest, whole, beyond, i
  <2>5. Len(test) \in Nat /\ Len(rest) \in Nat
    BY <2>3, <2>4, Ends, TurnsIsSeq
  <2>6. CASE i \in defaults
    <3>1. whole = rest
      BY <2>2, <2>6
    <3>2. Takes(whole, a, a, ExitsTo(Len(whole), S, a), L)
      BY <2>3, <3>1
    <3>3. QED
      BY <2>1, <3>2 DEF whole
  <2>7. CASE i \notin defaults
    <3>1. Carried(Y, Len(test) + 1, X)
      <4>1. ASSUME NEW t \in Int, NEW g, <<t, g>> \in Y PROVE <<t + (Len(test) + 1), g>> \in X
        <5>1. PICK s \in S : t = Len(rest) + s + 1 /\ g = a
          BY <4>1 DEF ExitsTo
        <5>2. t + (Len(test) + 1) = (Len(test) + Len(rest) + 1) + s + 1
          BY <2>5, <5>1
        <5>3. QED
          BY <5>1, <5>2 DEF ExitsTo
      <4>2. QED
        BY <4>1 DEF Carried
    <3>2. <<Len(test) + Len(rest) + beyond + 2, a>> \in X
      <4>1. Len(test) + Len(rest) + beyond + 2 = (Len(test) + Len(rest) + 1) + beyond + 1
        BY <2>4, <2>5
      <4>2. <<(Len(test) + Len(rest) + 1) + beyond + 1, a>> \in X
        BY <2>4 DEF ExitsTo
      <4>3. QED
        BY <4>1, <4>2
    <3>3. Takes(rest, HeightAt(at), HeightAt(at), Y, L)
      BY <2>3
    <3>4. <<Len(test) + Len(rest) + beyond + 2, HeightAt(at)>> \in X
      BY <3>2
    <3> HIDE DEF X, Y
    <3>5. /\ Takes(Tested(test, "JmpIfTrue", beyond, rest), a, a, X, L)
          /\ Len(Tested(test, "JmpIfTrue", beyond, rest)) = Len(test) + Len(rest) + 1
      BY <2>4, <3>1, <3>3, <3>4, TestedStays
    <3>6. whole = Tested(test, "JmpIfTrue", beyond, rest)
      BY <2>2, <2>7
    <3>7. X = ExitsTo(Len(whole), S, a)
      BY <3>5, <3>6 DEF X
    <3>8. Takes(whole, a, a, ExitsTo(Len(whole), S, a), L)
      BY <3>5, <3>6, <3>7
    <3>9. QED
      BY <2>1, <3>8 DEF whole
  <2>8. QED
    BY <2>6, <2>7
<1>7. T = 0..n
  <2>1. T \in SUBSET (0..n)
    OBVIOUS
  <2> HIDE DEF T
  <2> QED
    BY <1>5, <1>6, <2>1, InductionUpTo
<1>8. n \in T
  <2> HIDE DEF T
  <2> QED
    BY <1>7
<1>9. QED
  BY <1>8

\* Code whose exits lead to places in the code behind it.
LEMMA IntoTakes ==
  ASSUME NEW s, NEW t, NEW a, NEW S \in SUBSET Nat, NEW L, NEW h,
         Takes(s, a, a, ExitsTo(Len(s), S, a), L),
         Heights(t, h, {}, L), h[1] = a, h[Len(t) + 1] = a,
         \A i \in S : i <= Len(t) /\ h[i + 1] = a
  PROVE  Takes(s \o t, a, a, {}, L)
<1> DEFINE m == Len(s)
           n == Len(t)
           X1 == ExitsTo(m, S, a)
           none == {}
<1>1. PICK g : Heights(s, g, X1, L) /\ g[1] = a /\ g[m + 1] = a
  BY DEF Takes
<1>2. m \in Nat /\ n \in Nat
  BY <1>1 DEF Heights
<1>3. \A i \in S : i \in Nat /\ i <= n /\ h[i + 1] = a
  OBVIOUS
<1> DEFINE w == Spliced(g, m, h, n)
<1>4. ASSUME NEW i \in Int, NEW b, <<i, b>> \in X1 PROVE Leads(w, i, b, none)
  <2>1. PICK p \in S : i = m + p + 1 /\ b = a
    BY <1>4 DEF ExitsTo
  <2> HIDE DEF m, n
  <2>2. p \in Nat /\ p <= n /\ h[p + 1] = a
    BY <1>3
  <2>3. i \in 1..(m + n + 1) /\ ~ (i <= m) /\ i - m = p + 1
    BY <1>2, <2>1, <2>2
  <2>4. i \in DOMAIN w /\ w[i] = h[i - m]
    BY <2>3 DEF Spliced
  <2>5. QED
    BY <2>1, <2>2, <2>3, <2>4 DEF Leads
<1>5. /\ g[Len(s) + 1] = h[1] /\ w = Spliced(g, Len(s), h, Len(t))
      /\ \A i \in Int : \A b : <<i, b>> \in X1 => Leads(w, i, b, none)
      /\ \A i \in Int : \A b : <<i, b>> \in none => Leads(w, i + Len(s), b, none)
  BY <1>1, <1>4
<1>6. Heights(s, g, X1, L) /\ Heights(t, h, none, L)
  BY <1>1
<1> HIDE DEF m, n, X1, none, w
<1>7. Heights(s \o t, w, none, L) /\ w[1] = g[1] /\ w[Len(s \o t) + 1] = h[Len(t) + 1]
  BY ONLY <1>5, <1>6, SplicedHeights
<1>8. QED
  BY <1>1, <1>7 DEF Takes, none

\* Heights for the bodies of a switch with n cases, done with their breaks.
SwitchHeights(done, bodies, n, h, at) ==
  /\ Heights(done, h, {}, LeavesAt(at)) /\ h[1] = HeightAt(at) /\ h[Len(done) + 1] = HeightAt(at)
  /\ Len(done) = Len(FlattenSeq(bodies)) /\ Len(done) = Len(FlattenSeq(SubSeq(bodies, 1, n)))
  /\ \A k \in 0..n :
       LET s == Len(FlattenSeq(SubSeq(bodies, 1, k)))
       IN s \in Nat /\ s <= Len(done) /\ h[s + 1] = HeightAt(at)

\* The bodies of a switch, in a row: a test may jump to the start of each of them,
\* or behind the last.
LEMMA BodiesStay ==
  ASSUME NEW c, Sound(c), NEW cases, IsList(cases), \A i \in DOMAIN cases : IsList(cases[i][2]),
         NEW at, Possible(at), at.switches # Len(SwitchSlot),
         NEW bodies, bodies = [i \in 1..Len(cases) |-> Block(c, cases[i][2], Inside(at, "switch"))],
         NEW whole, whole = FlattenSeq(bodies)
  PROVE  \E h : SwitchHeights(FinishLoop(whole, Len(whole), 0), bodies, Len(cases), h, at)
<1> DEFINE n == Len(cases)
           in == Inside(at, "switch")
           a == HeightAt(at)
           L == LeavesAt(in)
           M == LeavesAt(at)
           done == FinishLoop(whole, Len(whole), 0)
           S(k) == Len(FlattenSeq(SubSeq(bodies, 1, k)))
           none == {}
<1>1. n \in Nat /\ DOMAIN cases = 1..n
  BY ListIsSeq
<1>2. Possible(in) /\ HeightAt(in) = a /\ L = <<a, Nowhere>> /\ a \in Height
  BY InsidePossible, PlaceHeights
<1>3. bodies = [i \in 1..n |-> bodies[i]]
  OBVIOUS
<1>4. \A i \in 1..n : Takes(bodies[i], a, a, none, L)
  <2>1. ASSUME NEW i \in 1..n PROVE Takes(bodies[i], a, a, none, L)
    <3>1. bodies[i] = Block(c, cases[i][2], in) /\ IsList(cases[i][2])
      BY <1>1
    <3>2. Stays(Block(c, cases[i][2], in), in)
      BY <1>2, <3>1, BlockStays
    <3>3. QED
      BY <1>2, <3>1, <3>2 DEF Stays
  <2>2. QED
    BY <2>1
<1> HIDE DEF n, in, a, L, M
<1>5. IsSeq(bodies) /\ Len(bodies) = n /\ \A i \in 1..n : IsSeq(bodies[i])
  BY <1>1, <1>3, <1>4, FunctionIsSeq, Ends
<1>6. PICK f : PiecesOf(bodies, f, n)
  BY <1>1, <1>5, Pieces
<1>7. PICK h : Steady(f, n, h, a, L)
  BY <1>1, <1>2, <1>4, <1>6, PiecesSteady DEF none
<1>8. /\ f[0] = <<>> /\ whole = f[n]
      /\ \A k \in 0..n : FlattenSeq(SubSeq(bodies, 1, k)) = f[k]
  BY <1>6 DEF PiecesOf
<1>9. /\ Heights(whole, h, none, L)
      /\ \A k \in 0..n : S(k) \in 0..Len(whole) /\ h[S(k) + 1] = a
  BY <1>7, <1>8 DEF Steady
<1>10. IsSeq(whole) /\ Len(whole) \in Nat
  BY <1>9 DEF Heights
<1>11. S(0) = 0 /\ S(n) = Len(whole) /\ 0 \in 0..n /\ n \in 0..n
  BY <1>1, <1>8
<1> HIDE DEF S
<1>12. h[0 + 1] = a /\ h[1] = a /\ h[Len(whole) + 1] = a
  BY <1>9, <1>11
<1>13. Heights(done, h, none, M) /\ Len(done) = Len(whole)
  <2>1. L[1] = a /\ L[2] = Nowhere
    BY <1>2
  <2>2. /\ L[1] # Nowhere => h[Len(whole) + 1] = L[1]
        /\ L[2] # Nowhere => h[0 + 1] = L[2]
    BY <1>12, <2>1
  <2>3. 0 \in Nat /\ 0 <= Len(whole) /\ Len(whole) <= Len(whole)
    BY <1>10
  <2>4. QED
    BY <1>9, <1>10, <2>2, <2>3, FinishedHeights
<1>14. \A k \in 0..n : S(k) \in Nat /\ S(k) <= Len(done) /\ h[S(k) + 1] = a
  BY <1>9, <1>10, <1>13
<1> HIDE DEF done
<1>15. h[Len(done) + 1] = a
  BY <1>12, <1>13
<1>16. QED
  BY <1>11, <1>12, <1>13, <1>14, <1>15 DEF SwitchHeights, done, S, n, a, M, none

\* The last default is one of the cases.
LEMMA MaxIsAmong ==
  ASSUME NEW n \in Nat, NEW T \in SUBSET (1..n), T # {}
  PROVE  Max(T) \in T
<1>1. \E m \in T : \A k \in T : k <= m
  <2>1. T \in SUBSET (0..n)
    OBVIOUS
  <2>2. QED
    BY <2>1, GreatestNumber
<1>2. \E m \in T : \A k \in T : m >= k
  BY <1>1
<1>3. QED
  BY <1>2 DEF Max

\* SwitchCode leaves the stacks as they were.
LEMMA SwitchStays ==
  ASSUME NEW c, Sound(c), NEW subject, NEW cases, IsList(cases), \A i \in DOMAIN cases : IsList(cases[i][2]),
         NEW at, Possible(at)
  PROVE  Stays(SwitchCode(c, subject, cases, at), at)
<1> DEFINE n == Len(cases)
           tmp == SwitchSlot[at.switches + 1]
           bodies == [i \in 1..n |-> Block(c, cases[i][2], Inside(at, "switch"))]
           whole == FlattenSeq(bodies)
           done == FinishLoop(whole, Len(whole), 0)
           Start(k) == Len(FlattenSeq(SubSeq(bodies, 1, k)))
           defaults == {i \in 1..n : cases[i][1] = NoExpr}
           otherwise == IF defaults = {} THEN Len(whole) ELSE Start(Max(defaults) - 1)
           f == CHOOSE f : CaseTests(c, cases, tmp, bodies, otherwise, n, f, n)
           S == {Start(k) : k \in 0..n}
           front == Expr(c, subject) \o Op1("Store", tmp)
           a == HeightAt(at)
           M == LeavesAt(at)
<1>1. SwitchCode(c, subject, cases, at) =
        IF at.switches = Len(SwitchSlot) THEN Bail ELSE front \o f[n] \o done
  BY DEF SwitchCode, CaseTests
<1>2. n \in Nat
  BY ListIsSeq
<1>3. Stays(Bail, at) /\ a \in Height /\ M \in Leaves
  BY RefusedStays, PlaceHeights
<1>4. ASSUME at.switches # Len(SwitchSlot) PROVE Takes(front \o f[n] \o done, a, a, {}, M)
  <2>1. tmp \in Slot
    <3>1. Len(SwitchSlot) = 3 /\ DOMAIN SwitchSlot = 1..3
      BY DEF SwitchSlot
    <3>2. at.switches \in 0..Len(SwitchSlot)
      BY DEF Possible, Place
    <3>3. at.switches + 1 \in DOMAIN SwitchSlot
      BY <1>4, <3>1, <3>2
    <3>4. QED
      BY <3>3, VariablesAreSlots
  <2>a. bodies = [i \in 1..Len(cases) |-> Block(c, cases[i][2], Inside(at, "switch"))] /\ whole = FlattenSeq(bodies)
    OBVIOUS
  <2>b. PICK h : SwitchHeights(done, bodies, n, h, at)
    <3> HIDE DEF bodies, whole
    <3> QED
      BY <1>4, <2>a, BodiesStay
  <2>2. /\ Heights(done, h, {}, M) /\ h[1] = a /\ h[Len(done) + 1] = a
        /\ Len(done) = Len(whole) /\ Len(whole) = Start(n)
        /\ \A k \in 0..n : Start(k) \in Nat /\ Start(k) <= Len(done) /\ h[Start(k) + 1] = a
    BY <2>b DEF SwitchHeights
  <2>3. S \in SUBSET Nat /\ \A i \in S : i <= Len(done) /\ h[i + 1] = a
    BY <2>2
  <2>4. \A i \in 1..n : Start(i - 1) \in S
    <3> HIDE DEF Start
    <3> QED
      BY <1>2
  <2>5. otherwise \in S
    <3>1. CASE defaults = {}
      <4>1. otherwise = Start(n) /\ n \in 0..n
        BY <1>2, <2>2, <3>1
      <4> HIDE DEF Start, otherwise
      <4> QED
        BY <4>1
    <3>2. CASE defaults # {}
      <4>1. Max(defaults) \in 1..n
        <5>1. defaults \in SUBSET (1..n)
          OBVIOUS
        <5> HIDE DEF defaults
        <5>2. Max(defaults) \in defaults
          BY <1>2, <3>2, <5>1, MaxIsAmong
        <5>3. QED
          BY <5>1, <5>2
      <4>2. otherwise = Start(Max(defaults) - 1)
        BY <3>2
      <4>3. QED
        BY <2>4, <4>1, <4>2
    <3>3. QED
      BY <3>1, <3>2
  <2>6. CaseTests(c, cases, tmp, bodies, otherwise, n, f, n)
    <3> HIDE DEF tmp, bodies, otherwise, n
    <3> QED
      BY <1>2, CaseTestsExist
  <2>7. Takes(f[n], a, a, ExitsTo(Len(f[n]), S, a), M)
    <3>1. \A i \in 1..n : Len(FlattenSeq(SubSeq(bodies, 1, i - 1))) \in S
      BY <2>4
    <3> HIDE DEF tmp, bodies, otherwise, n, f, S, M
    <3> QED
      BY <1>2, <1>3, <2>1, <2>3, <2>5, <2>6, <3>1, CaseTestsTake
  <2>8. Takes(front, a, a, {}, M)
    <3> HIDE DEF tmp
    <3>1. Turns(front, 0, 0)
      BY <2>1, PartTurns, StoresMove, ThenOp, Zero DEF Op1
    <3>2. QED
      BY <3>1, TurnsStays DEF Stays
  <2> DEFINE tests == f[n]
             s == front \o tests
             Y == ExitsTo(Len(tests), S, a)
             X == ExitsTo(Len(s), S, a)
             none == {}
  <2>9. Takes(front, a, a, none, M) /\ Takes(tests, a, a, Y, M)
    BY <2>7, <2>8
  <2> HIDE DEF front, f, done, S, M, tests, a
  <2>10. IsSeq(front) /\ Len(front) \in Nat /\ IsSeq(tests) /\ Len(tests) \in Nat
    BY <2>9, Ends
  <2>11. Len(front \o tests) = Len(front) + Len(tests)
    BY ONLY <2>10, Measured
  <2>12. \A i \in Int : \A g : <<i, g>> \in none => <<i, g>> \in X \/ (i = Len(front) + Len(tests) + 1 /\ g = a)
    OBVIOUS
  <2>13. \A i \in Int : \A g : <<i, g>> \in Y => <<i + Len(front), g>> \in X \/ (i = 1 - Len(front) /\ g = a)
    <3>1. ASSUME NEW i \in Int, NEW g, <<i, g>> \in Y PROVE <<i + Len(front), g>> \in X
      <4>1. PICK p \in S : i = Len(tests) + p + 1 /\ g = a
        BY <3>1 DEF ExitsTo
      <4>2. p \in Nat
        BY <2>3
      <4>3. i + Len(front) = Len(s) + p + 1
        BY <2>10, <2>11, <4>1, <4>2
      <4>4. QED
        BY <4>1, <4>3 DEF ExitsTo
    <3>2. QED
      BY <3>1
  <2> HIDE DEF X, Y, none
  <2>14. Takes(front \o tests, a, a, X, M)
    BY ONLY <2>9, <2>12, <2>13, Joined
  <2>15. Takes(s, a, a, ExitsTo(Len(s), S, a), M) /\ Heights(done, h, {}, M)
    BY <2>2, <2>14 DEF X
  <2>16. S \in SUBSET Nat /\ h[1] = a /\ h[Len(done) + 1] = a /\ \A i \in S : i <= Len(done) /\ h[i + 1] = a
    BY <2>2, <2>3
  <2> HIDE DEF s
  <2>17. Takes(s \o done, a, a, {}, M)
    BY ONLY <2>15, <2>16, IntoTakes
  <2>18. QED
    BY <2>17 DEF s, tests
<1>5. QED
  BY <1>1, <1>3, <1>4 DEF Stays

\* UnsetItem leaves the stack as it was.
LEMMA UnsetTurns ==
  ASSUME NEW c, Sound(c), NEW e \in Node
  PROVE  Turns(UnsetItem(c, e), 0, 0)
<1>1. CASE e[1] = "var"
  <2>1. Turns(Op1("UnsetSlot", e[2]), 0, 0)
    BY <1>1, VariablesAreSlots, StoresMove, OneMoves, Zero
  <2>2. QED
    BY <1>1, <2>1 DEF UnsetItem
<1>2. CASE e[1] = "prop"
  <2>1. Turns(Op1("UnsetThisProp", e[2]), 0, 0)
    BY StoresMove, OneMoves, Zero
  <2>2. QED
    BY <1>2, <2>1 DEF UnsetItem
<1>3. CASE e[1] = "index" /\ e[2][1] \in {"var", "prop"} /\ e[3] # NoExpr
  <2>1. e[2] \in Node
    BY <1>3, SyntaxIsTyped DEF IsTyped
  <2>2. IsRoot(e[2])
    BY <1>3, <2>1, VariablesAreSlots
  <2>3. Turns(Expr(c, e[3]) \o Op1("UnsetIndex", e[2]), 0, 0)
    BY <2>2, PartTurns, ThenOp, PathsMove, Zero DEF Op1
  <2>4. QED
    BY <1>3, <2>3 DEF UnsetItem
<1>4. CASE e[1] \notin {"var", "prop"} /\ ~ (e[1] = "index" /\ e[2][1] \in {"var", "prop"} /\ e[3] # NoExpr)
  BY <1>4, RefusedTurns, Zero DEF UnsetItem
<1>5. QED
  BY <1>1, <1>2, <1>3, <1>4

\* An operation that the loop around it turns into a jump.
LEMMA LeavingTakes ==
  ASSUME NEW op, NEW a \in Height, NEW b \in Height, NEW L,
         (op = <<"Break">> /\ a = L[1]) \/ (op = <<"Continue">> /\ a = L[2])
  PROVE  Takes(<<op>>, a, b, {}, L)
<1> DEFINE h == [k \in 1..2 |-> IF k = 1 THEN a ELSE b]
           s == <<op>>
<1>1. h \in [1..(1 + 1) -> Height] /\ h[1] = a /\ h[1 + 1] = b
  OBVIOUS
<1> HIDE DEF h
<1>2. IsSeq(s) /\ Len(s) = 1 /\ s[1] = op
  BY OneOperation
<1> HIDE DEF s
<1>3. Fits(op, 1, h, {}, L)
  BY <1>1 DEF Fits
<1>4. \A k \in 1..1 : Fits(s[k], k, h, {}, L)
  BY <1>2, <1>3
<1>5. Heights(s, h, {}, L)
  BY <1>1, <1>2, <1>4 DEF Heights
<1>6. QED
  BY <1>1, <1>2, <1>5 DEF Takes, s

\* BreakCode: leaving a foreach gives up its iterator first.
LEMMA BreakStays ==
  ASSUME NEW levels, NEW at, Possible(at)
  PROVE  Stays(BreakCode(levels, at), at)
<1> DEFINE a == HeightAt(at)
           b == <<0, at.iters - 1>>
           L == LeavesAt(at)
           break == <<"Break">>
           pop == <<"PopIter">>
           way == <<1, -1>>
<1>1. a \in Height /\ a = <<0, at.iters>> /\ at.iters \in Nat
  BY PlaceHeights
<1>2. Stays(Bail, at)
  BY RefusedStays
<1>3. at.loop \in {"none", "loop", "foreach", "switch"} /\ (at.loop = "foreach" => at.iters > 0)
  BY DEF Possible, Place
<1>4. ASSUME at.loop \in {"loop", "switch"} PROVE Stays(<<break>>, at)
  <2>1. L[1] = a
    BY <1>4 DEF LeavesAt
  <2>2. QED
    BY <1>1, <2>1, LeavingTakes DEF Stays
<1>5. ASSUME at.loop = "foreach" PROVE Stays(<<pop, break>>, at)
  <2>1. L[1] = b /\ b \in Height /\ b[2] = at.iters - 1 /\ at.iters > 0
    BY <1>1, <1>3, <1>5 DEF LeavesAt, Height
  <2>2. Operands(pop) = 0 /\ Results(pop) = 0 /\ Ways(pop) = {way}
    BY DEF Operands, Results, Ways
  <2>3. Proper(pop) /\ Served(pop, a[1], a[2]) /\ pop[1] \notin {"Bail", "Break", "Continue"}
    BY <1>1, <2>1, <2>2 DEF Proper, Served
  <2>4. After(pop, a, way) = b /\ way \in Int \X Int /\ way[1] = 1
    BY <1>1, <2>2 DEF After
  <2> HIDE DEF pop, way, a, b, L
  <2>5. Takes(<<pop>>, a, b, {}, L)
    BY <1>1, <2>1, <2>2, <2>3, <2>4, Alone
  <2>6. Takes(<<break>>, b, a, {}, L)
    BY <1>1, <2>1, LeavingTakes
  <2> HIDE DEF break
  <2>7. <<pop>> \o <<break>> = <<pop, break>>
    <3> DEFINE S == {pop, break}
               s == <<pop>>
               t == <<break>>
               u == <<pop, break>>
    <3>1. s \in Seq(S) /\ t \in Seq(S) /\ u \in Seq(S)
      OBVIOUS
    <3>2. Len(s) = 1 /\ s[1] = pop /\ Len(t) = 1 /\ t[1] = break /\ Len(u) = 2 /\ u[1] = pop /\ u[2] = break
      OBVIOUS
    <3> HIDE DEF S, s, t, u
    <3>3. s \o t \in Seq(S) /\ Len(s \o t) = 2 /\ (s \o t)[1] = pop /\ (s \o t)[2] = break
      BY <3>1, <3>2, ConcatProperties
    <3>4. s \o t = u
      BY <3>1, <3>2, <3>3, SeqEqual
    <3>5. QED
      BY <3>4 DEF s, t, u
  <2>8. Takes(<<pop, break>>, a, a, {}, L)
    BY <2>5, <2>6, <2>7, InARow
  <2>9. QED
    BY <2>8 DEF Stays, a, L
<1>6. QED
  BY <1>2, <1>3, <1>4, <1>5 DEF BreakCode

\* ContinueCode: the iterator of a foreach stays.
LEMMA ContinueStays ==
  ASSUME NEW levels, NEW at, Possible(at)
  PROVE  Stays(ContinueCode(levels, at), at)
<1>1. HeightAt(at) \in Height
  BY PlaceHeights
<1>2. ASSUME at.loop \in {"loop", "foreach"} PROVE Stays(<<<<"Continue">>>>, at)
  <2>1. LeavesAt(at)[2] = HeightAt(at)
    BY <1>2 DEF LeavesAt
  <2>2. QED
    BY <1>1, <2>1, LeavingTakes DEF Stays
<1>3. Stays(Bail, at)
  BY RefusedStays
<1>4. QED
  BY <1>2, <1>3 DEF ContinueCode

\* At a line mark no operand is left over, and the iterators are those around it.
LEMMA LineStays ==
  ASSUME NEW c, Sound(c), NEW s, NEW at, Possible(at)
  PROVE  Stays(Op1("Line", at.iters) \o Stmt(c, s, at), at)
<1> DEFINE a == HeightAt(at)
           L == LeavesAt(at)
           op == <<"Line", at.iters>>
           way == <<1, 0>>
           code == Stmt(c, s, at)
<1>1. a \in Height /\ a = <<0, at.iters>> /\ at.iters \in Nat
  BY PlaceHeights
<1>2. Operands(op) = 0 /\ Results(op) = 0 /\ Ways(op) = {way}
  BY DEF Operands, Results, Ways
<1>3. Proper(op) /\ Served(op, a[1], a[2]) /\ op[1] \notin {"Bail", "Break", "Continue"}
  BY <1>1, <1>2 DEF Proper, Served
<1>4. After(op, a, way) = a /\ way \in Int \X Int /\ way[1] = 1
  BY <1>1, <1>2 DEF After
<1>5. Takes(code, a, a, {}, L)
  BY StmtStays DEF Stays
<1>6. Op1("Line", at.iters) = <<op>>
  BY DEF Op1
<1> HIDE DEF op, way, a, L, code
<1>7. Takes(<<op>>, a, a, {}, L)
  BY <1>1, <1>2, <1>3, <1>4, Alone
<1>8. Takes(<<op>> \o code, a, a, {}, L)
  BY <1>5, <1>7, InARow
<1>9. QED
  BY <1>6, <1>8 DEF Stays, a, L, code

\* A return leads nowhere.
LEMMA ReturnStays ==
  ASSUME NEW c, Sound(c), NEW e, NEW at, Possible(at)
  PROVE  Stays(<<<<"RetNull">>>>, at) /\ Stays(Expr(c, e) \o <<<<"Ret">>>>, at)
<1> DEFINE a == HeightAt(at)
           L == LeavesAt(at)
           ret == <<"Ret">>
           null == <<"RetNull">>
           b == <<0 + 1, at.iters>>
           code == Expr(c, e)
<1>1. a \in Height /\ a = <<0, at.iters>> /\ at.iters \in Nat /\ L \in Leaves
  BY PlaceHeights
<1>2. Operands(ret) = 1 /\ Ways(ret) = {} /\ Operands(null) = 0 /\ Ways(null) = {}
  BY DEF Operands, Ways
<1>3. b \in Height /\ b[1] = 1
  BY <1>1 DEF Height
<1>4. /\ Proper(ret) /\ Served(ret, b[1], b[2]) /\ ret[1] \notin {"Bail", "Break", "Continue"}
      /\ Proper(null) /\ Served(null, a[1], a[2]) /\ null[1] \notin {"Bail", "Break", "Continue"}
  BY <1>1, <1>2, <1>3 DEF Proper, Served
<1>5. Takes(code, a, b, {}, L)
  BY <1>1, PartTurns, ValueTakes
<1> HIDE DEF a, b, L, ret, null, code
<1>6. Takes(<<ret>>, b, a, {}, L) /\ Takes(<<null>>, a, a, {}, L)
  BY <1>1, <1>2, <1>3, <1>4, Alone
<1>7. Takes(code \o <<ret>>, a, a, {}, L)
  BY <1>5, <1>6, InARow
<1>8. QED
  BY <1>6, <1>7 DEF Stays, a, L, ret, null, code

\* The code of a statement leaves the stacks as they were where it is.
LEMMA StmtCodeStays ==
  ASSUME NEW c, Sound(c), NEW s \in Node, NEW at, Possible(at)
  PROVE  Stays(StmtCode(c, s, at), at)
<1>1. IsTyped(s)
  BY SyntaxIsTyped
<1>2. CASE s[1] = "line"
  BY <1>2, LineStays DEF StmtCode
<1>3. CASE s[1] = "block"
  BY <1>1, <1>3, BlockStays DEF StmtCode, IsTyped
<1>4. CASE s[1] = "echo"
  <2> DEFINE es == s[2]
             n == Len(es)
             op == <<"Echo", n>>
  <2>1. IsSeq(es)
    BY <1>1, <1>4, ListIsSeq DEF IsTyped
  <2>2. Turns(Each(c, es), 0, n) /\ n \in Nat
    BY <2>1, EachTurns
  <2>3. Moves(op, n, 0)
    BY <2>2, CallsMove
  <2> HIDE DEF op, n, es
  <2>4. Turns(Each(c, es) \o <<op>>, 0, 0)
    BY <2>2, <2>3, ThenOp, Zero
  <2>5. StmtCode(c, s, at) = Each(c, es) \o <<op>>
    BY <1>4 DEF StmtCode, Op1, op, n, es
  <2>6. QED
    BY <2>4, <2>5, TurnsStays
<1>5. CASE s[1] = "expr"
  BY <1>5, PartTurns, TurnsStays DEF StmtCode
<1>6. CASE s[1] = "return"
  BY <1>6, ReturnStays DEF StmtCode
<1>7. CASE s[1] = "if"
  <2>1. IsList(s[2]) /\ (\A i \in DOMAIN s[2] : IsList(s[2][i][2])) /\ IsList(s[3])
    BY <1>1, <1>7 DEF IsTyped
  <2>2. StmtCode(c, s, at) = IfCode(c, s[2], s[3], at)
    BY <1>7 DEF StmtCode
  <2>3. QED
    BY <2>1, <2>2, IfStays
<1>8. CASE s[1] = "while"
  BY <1>1, <1>8, WhileStays DEF StmtCode, IsTyped
<1>9. CASE s[1] = "dowhile"
  BY <1>1, <1>9, DoWhileStays DEF StmtCode, IsTyped
<1>10. CASE s[1] = "for"
  <2>1. IsList(s[2]) /\ IsList(s[3]) /\ IsList(s[4]) /\ IsList(s[5])
    BY <1>1, <1>10 DEF IsTyped
  <2>2. StmtCode(c, s, at) = ForCode(c, s[2], s[3], s[4], s[5], at)
    BY <1>10 DEF StmtCode
  <2>3. QED
    BY <2>1, <2>2, ForStays
<1>11. CASE s[1] = "foreach"
  <2>1. IsList(s[5]) /\ s[2] \in Node /\ s[4] \in Node
    BY <1>1, <1>11 DEF IsTyped
  <2>2. StmtCode(c, s, at) = ForeachCode(c, s[2], s[3], s[4], s[5], at)
    BY <1>11 DEF StmtCode
  <2>3. QED
    BY <2>1, <2>2, ForeachStays
<1>12. CASE s[1] = "switch"
  <2>1. IsList(s[3]) /\ \A i \in DOMAIN s[3] : IsList(s[3][i][2])
    BY <1>1, <1>12 DEF IsTyped
  <2>2. StmtCode(c, s, at) = SwitchCode(c, s[2], s[3], at)
    BY <1>12 DEF StmtCode
  <2>3. QED
    BY <2>1, <2>2, SwitchStays
<1>13. CASE s[1] = "break"
  BY <1>13, BreakStays DEF StmtCode
<1>14. CASE s[1] = "continue"
  BY <1>14, ContinueStays DEF StmtCode
<1>15. CASE s[1] = "unset"
  <2> DEFINE es == s[2]
             n == Len(es)
             cs == [i \in 1..n |-> UnsetItem(c, es[i])]
  <2>1. IsList(es) /\ \A i \in DOMAIN es : es[i] \in Node
    BY <1>1, <1>15 DEF IsTyped
  <2>2. n \in Nat /\ DOMAIN es = 1..n
    BY <2>1, ListIsSeq
  <2>3. StmtCode(c, s, at) = FlattenSeq(cs)
    BY <1>15, <2>2 DEF StmtCode
  <2>4. \A i \in 1..n : Turns(cs[i], 0, 0)
    BY <2>1, <2>2, UnsetTurns
  <2>5. cs = [i \in 1..n |-> cs[i]]
    OBVIOUS
  <2> HIDE DEF cs, n, es
  <2>6. Turns(FlattenSeq(cs), 0, 0)
    BY <2>2, <2>4, <2>5, FlattenLevel, Zero
  <2>7. QED
    BY <2>3, <2>6, TurnsStays
<1>16. CASE s[1] = "static"
  BY <1>1, <1>16, StaticStays DEF StmtCode, IsTyped
<1>17. CASE s[1] = "global"
  <2>1. s[2] \in Slot
    BY <1>1, <1>17, VariablesAreSlots DEF IsTyped
  <2>2. Turns(Op1("BindGlobal", s[2]), 0, 0)
    BY <2>1, StoresMove, OneMoves, Zero
  <2>3. QED
    BY <1>17, <2>2, TurnsStays DEF StmtCode
<1>18. CASE s[1] \notin {"line", "block", "echo", "expr", "return", "if", "while", "dowhile", "for", "foreach",
                         "switch", "break", "continue", "unset", "static", "global"}
  BY <1>18, RefusedStays DEF StmtCode
<1>19. QED
  BY <1>2, <1>3, <1>4, <1>5, <1>6, <1>7, <1>8, <1>9, <1>10, <1>11, <1>12, <1>13, <1>14, <1>15, <1>16, <1>17, <1>18

----------------------------------------------------------------------------
(* Bodies. *)

\* What refuses all is sound.
LEMMA RefusingIsSound ==
  Sound(Refusing)
<1>1. \A e \in Node : Refusing.expr[e] = Bail /\ Refusing.effect[e] = Bail /\ Refusing.path[e] = NoPath
  BY DEF Refusing
<1>2. \A x \in Node \X Place : Refusing.stmt[x] = Bail
  BY DEF Refusing
<1>3. Turns(Bail, 0, 1) /\ Turns(Bail, 0, 0)
  BY RefusedTurns, Zero
<1>4. QED
  BY <1>1, <1>2, <1>3, RefusedStays DEF Sound

\* What has sound parts is sound.
LEMMA DeeperIsSound ==
  ASSUME NEW c, Sound(c)
  PROVE  Sound(Deeper(c))
<1> DEFINE d == Deeper(c)
<1>1. \A e \in Node : d.expr[e] = ExprCode(c, e) /\ d.effect[e] = EffectCode(c, e) /\ d.path[e] = PathCode(c, e)
  BY DEF Deeper
<1>2. \A x \in Node \X Place : d.stmt[x] = StmtCode(c, x[1], x[2])
  BY DEF Deeper
<1> HIDE DEF d
<1>3. \A e \in Node : Turns(d.expr[e], 0, 1) /\ Turns(d.effect[e], 0, 0)
  BY <1>1, ExprTurns, EffectTurns
<1>4. \A e \in Node : d.path[e] = NoPath \/ IsPath(d.path[e])
  BY <1>1, PathIsPath
<1>5. ASSUME NEW x \in Node \X Place, Possible(x[2]) PROVE Stays(d.stmt[x], x[2])
  <2>1. x[1] \in Node
    OBVIOUS
  <2>2. Stays(StmtCode(c, x[1], x[2]), x[2])
    BY <1>5, <2>1, StmtCodeStays
  <2>3. QED
    BY <1>2, <2>2
<1>6. Sound(d)
  BY <1>3, <1>4, <1>5 DEF Sound
<1>7. QED
  BY <1>6 DEF d

\* The compilers for constructs of up to depth n.
Levels(f, n) == f = [k \in 0..n |-> IF k = 0 THEN Refusing ELSE Deeper(f[k - 1])]

\* The recursive function of Compiler exists.
LEMMA LevelsExist ==
  ASSUME NEW n \in Nat
  PROVE  \E f : Levels(f, n)
<1> DEFINE T == {k \in 0..n : \E f : Levels(f, k)}
<1>1. 0 \in T
  <2> DEFINE g == [k \in 0..0 |-> Refusing]
  <2>1. g = [k \in 0..0 |-> IF k = 0 THEN Refusing ELSE Deeper(g[k - 1])]
    OBVIOUS
  <2>2. Levels(g, 0) /\ 0 \in 0..n
    BY <2>1 DEF Levels
  <2> HIDE DEF g
  <2>3. QED
    BY <2>2
<1>2. ASSUME NEW k \in 0..n, k \in T, k + 1 <= n PROVE k + 1 \in T
  <2>1. PICK f : Levels(f, k)
    BY <1>2
  <2> DEFINE g == [i \in 0..(k + 1) |-> IF i = k + 1 THEN Deeper(f[k]) ELSE f[i]]
  <2>2. \A i \in 0..k : f[i] = IF i = 0 THEN Refusing ELSE Deeper(f[i - 1])
    BY <2>1 DEF Levels
  <2>3. \A i \in 0..(k + 1) : g[i] = IF i = 0 THEN Refusing ELSE Deeper(g[i - 1])
    <3>1. ASSUME NEW i \in 0..(k + 1) PROVE g[i] = IF i = 0 THEN Refusing ELSE Deeper(g[i - 1])
      <4>1. CASE i = k + 1
        <5>1. i - 1 = k /\ i # 0 /\ k \in 0..(k + 1) /\ k # k + 1
          BY <4>1
        <5>2. g[i] = Deeper(f[k]) /\ g[k] = f[k]
          BY <4>1, <5>1
        <5>3. QED
          BY <5>1, <5>2
      <4>2. CASE i # k + 1
        <5>1. i \in 0..k /\ g[i] = f[i]
          BY <4>2
        <5>2. i # 0 => g[i - 1] = f[i - 1]
          BY <5>1
        <5>3. QED
          BY <2>2, <5>1, <5>2
      <4>3. QED
        BY <4>1, <4>2
    <3>2. QED
      BY <3>1
  <2>4. g = [i \in 0..(k + 1) |-> IF i = 0 THEN Refusing ELSE Deeper(g[i - 1])]
    BY <2>3
  <2>5. Levels(g, k + 1) /\ k + 1 \in 0..n
    BY <1>2, <2>4 DEF Levels
  <2> HIDE DEF g
  <2>6. QED
    BY <2>5
<1>3. T = 0..n
  <2>1. T \in SUBSET (0..n)
    OBVIOUS
  <2> HIDE DEF T
  <2> QED
    BY <1>1, <1>2, <2>1, InductionUpTo
<1>4. QED
  BY <1>3

\* The compiler for constructs of any depth is sound.
LEMMA CompilerIsSound ==
  ASSUME NEW n \in Nat
  PROVE  Sound(Compiler(n))
<1> DEFINE f == CHOOSE f : Levels(f, n)
           T == {k \in 0..n : Sound(f[k])}
<1>1. Compiler(n) = f[n]
  BY DEF Compiler, Levels
<1>2. Levels(f, n)
  BY LevelsExist
<1> HIDE DEF f
<1>3. \A k \in 0..n : f[k] = IF k = 0 THEN Refusing ELSE Deeper(f[k - 1])
  BY <1>2 DEF Levels
<1>4. 0 \in T
  <2>1. 0 \in 0..n
    OBVIOUS
  <2>2. QED
    BY <1>3, <2>1, RefusingIsSound
<1>5. ASSUME NEW k \in 0..n, k \in T, k + 1 <= n PROVE k + 1 \in T
  <2>1. k + 1 \in 0..n /\ k + 1 # 0 /\ (k + 1) - 1 = k
    BY <1>5
  <2>2. f[k + 1] = Deeper(f[k])
    BY <1>3, <2>1
  <2>3. Sound(f[k])
    BY <1>5
  <2>4. QED
    BY <2>1, <2>2, <2>3, DeeperIsSound
<1>6. T = 0..n
  <2>1. T \in SUBSET (0..n)
    OBVIOUS
  <2> HIDE DEF T
  <2> QED
    BY <1>4, <1>5, <2>1, InductionUpTo
<1>7. n \in T
  <2> HIDE DEF T
  <2> QED
    BY <1>6
<1>8. QED
  BY <1>1, <1>7

\* The code of a body that is accepted is verified: the heights before its
\* operations are the places.
LEMMA BodyIsVerified ==
  ASSUME NEW body, IsList(body), Accepted(body)
  PROVE  \E places : Verified(Compiled(body), places)
<1> DEFINE at == OutsideLoops
           s == Block(Compiler(Depth), body, at)
           null == <<"RetNull">>
           n == Len(s)
           code == Compiled(body)
           a == <<0, 0>>
           L == <<Nowhere, Nowhere>>
<1>1. Possible(at) /\ HeightAt(at) = a /\ LeavesAt(at) = L
  BY DEF OutsideLoops, Possible, Place, HeightAt, LeavesAt, SwitchSlot
<1>2. Sound(Compiler(Depth))
  BY DepthIsNumber, CompilerIsSound
<1>3. Takes(s, a, a, {}, L)
  <2> HIDE DEF at, a, L
  <2> QED
    BY <1>1, <1>2, BlockStays DEF Stays, s
<1>4. code = s \o <<null>>
  BY DEF Compiled
<1>5. \A i \in DOMAIN code : code[i] # <<"Bail">>
  BY OneOperation DEF Accepted, Bail
<1> HIDE DEF s, at, code
<1>6. PICK h : Heights(s, h, {}, L) /\ h[1] = a /\ h[n + 1] = a
  BY <1>3 DEF Takes
<1>7. /\ IsSeq(s) /\ n \in Nat /\ h \in [1..(n + 1) -> Height]
      /\ \A k \in 1..n : Fits(s[k], k, h, {}, L)
  BY <1>6 DEF Heights
<1>8. IsSeq(<<null>>) /\ Len(<<null>>) = 1 /\ <<null>>[1] = null
  BY OneOperation
<1> DEFINE one == <<null>>
<1>9. IsSeq(one) /\ Len(one) = 1 /\ one[1] = null
  BY <1>8
<1> HIDE DEF one
<1>10. /\ IsSeq(s \o one) /\ Len(s \o one) = n + 1
       /\ \A k \in 1..(n + 1) : (s \o one)[k] = IF k <= n THEN s[k] ELSE one[k - n]
  <2>1. IsSeq(s) /\ IsSeq(one)
    BY <1>7, <1>9
  <2>2. /\ IsSeq(s \o one) /\ Len(s \o one) = Len(s) + Len(one)
        /\ \A k \in 1..(Len(s) + Len(one)) : (s \o one)[k] = IF k <= Len(s) THEN s[k] ELSE one[k - Len(s)]
    BY ONLY <2>1, Concatenated
  <2>3. QED
    BY <1>9, <2>2
<1>11. DOMAIN code = 1..(n + 1) /\ \A k \in 1..n : code[k] = s[k]
  <2>1. code = s \o one
    BY <1>4 DEF one
  <2>2. DOMAIN code = 1..(n + 1)
    BY <1>10, <2>1, SeqIsFunction
  <2>3. QED
    BY <1>7, <1>10, <2>1, <2>2
<1>12. code[n + 1] = null
  <2>1. code = s \o one
    BY <1>4 DEF one
  <2>2. n + 1 \in 1..(n + 1) /\ ~ (n + 1 <= n) /\ (n + 1) - n = 1
    BY <1>7
  <2>3. QED
    BY <1>9, <1>10, <2>1, <2>2
<1> HIDE DEF n
<1> DEFINE Place0(k) == <<k, h[k][1], h[k][2]>>
           places == {Place0(k) : k \in 1..(n + 1)}
<1>13. places \subseteq (DOMAIN code) \X Nat \X Nat
  BY <1>7, <1>11 DEF Height
<1>14. <<1, 0, 0>> \in places
  BY <1>6, <1>7
<1>15. ASSUME NEW k \in 1..(n + 1)
       PROVE  /\ Proper(code[k]) /\ Served(code[k], h[k][1], h[k][2])
              /\ \A way \in Ways(code[k]) :
                   <<k + way[1], h[k][1] - Operands(code[k]) + Results(code[k]), h[k][2] + way[2]>> \in places
  <2>1. CASE k \in 1..n
    <3>1. code[k] = s[k] /\ code[k] # <<"Bail">> /\ Fits(s[k], k, h, {}, L)
      BY <1>5, <1>7, <1>11, <2>1
    <3>2. h[k] # Nowhere
      BY <1>7 DEF Height, Nowhere
    <3>3. Goes(code[k], k, h, {})
      BY <3>1, <3>2 DEF Fits
    <3>4. ASSUME NEW way \in Ways(code[k])
          PROVE  <<k + way[1], h[k][1] - Operands(code[k]) + Results(code[k]), h[k][2] + way[2]>> \in places
      <4>1. Leads(h, k + way[1], After(code[k], h[k], way), {})
        BY <3>3, <3>4 DEF Goes
      <4>2. k + way[1] \in 1..(n + 1) /\ h[k + way[1]] = After(code[k], h[k], way)
        BY <1>7, <4>1 DEF Leads
      <4>3. h[k + way[1]][1] = h[k][1] - Operands(code[k]) + Results(code[k]) /\ h[k + way[1]][2] = h[k][2] + way[2]
        BY <4>2 DEF After
      <4>4. QED
        BY <4>2, <4>3
    <3>5. QED
      BY <3>3, <3>4 DEF Goes
  <2>2. CASE k = n + 1
    <3>1. Operands(null) = 0 /\ Ways(null) = {}
      BY DEF Operands, Ways
    <3>2. h[k] \in Height
      BY <1>7
    <3>3. Proper(null) /\ Served(null, h[k][1], h[k][2])
      BY <3>1, <3>2 DEF Proper, Served, Height
    <3>4. QED
      BY <1>12, <2>2, <3>1, <3>3
  <2>3. QED
    BY <1>7, <2>1, <2>2
<1>16. ASSUME NEW p \in places
       PROVE  LET op == code[p[1]] IN
              /\ Proper(op) /\ Served(op, p[2], p[3])
              /\ \A way \in Ways(op) :
                   <<p[1] + way[1], p[2] - Operands(op) + Results(op), p[3] + way[2]>> \in places
  <2>1. PICK k \in 1..(n + 1) : p = Place0(k)
    OBVIOUS
  <2>2. p[1] = k /\ p[2] = h[k][1] /\ p[3] = h[k][2]
    BY <2>1
  <2> HIDE DEF places
  <2>3. QED
    BY <1>15, <2>2
<1> HIDE DEF places
<1>17. Verified(code, places)
  BY <1>13, <1>14, <1>16 DEF Verified
<1>18. QED
  BY <1>17 DEF code

\* Whatever bodies there are: the code the compiler makes of each it accepts
\* fits the machine, with every jump, break, continue and return in place.
THEOREM CompiledCodeIsVerified == CodeIsVerified
<1>1. ASSUME NEW c \in Chunk PROVE \E places : Verified(c.code, places)
  <2>1. PICK b \in Bodies : c = [body |-> b, code |-> Compiled(b)]
    BY ChunksAreCompiled DEF Chunks
  <2>2. IsList(b) /\ Accepted(b)
    BY BodiesAreAccepted
  <2>3. c.code = Compiled(b)
    BY <2>1
  <2>4. QED
    BY <2>2, <2>3, BodyIsVerified
<1>2. QED
  BY <1>1 DEF CodeIsVerified
=============================================================================
