----------------------------- MODULE PhpValues -----------------------------
(***************************************************************************)
(* PHP values without objects, and the conversions and comparisons of      *)
(* value.rs that walker and virtual machine share.  A value is a tuple     *)
(* headed by its kind.  Floats are kept in hundredths, which is exact for  *)
(* the numbers the models write; rounding, NAN and INF are left out.       *)
(* Ints stop at MaxInt, and what overflows becomes a float.                *)
(***************************************************************************)
EXTENDS Bytes

CONSTANT MaxInt       \* i64::MAX

ASSUME MaxIntIsNat == MaxInt \in Nat

MinInt == -MaxInt - 1
FitsInt(n) == n \in MinInt..MaxInt

Null == <<"null">>
BoolVal(b) == <<"bool", b>>
IntVal(n) == <<"int", n>>
FloatVal(h) == <<"float", h>>
StrVal(s) == <<"str", s>>
Arr(entries, next) == <<"arr", entries, next>>
EmptyArr == Arr(<<>>, 0)

IsKind(v, kind) == v[1] = kind
IsArr(v) == IsKind(v, "arr")

\* Every member of V is a value, and the keys and elements of arrays in V are
\* in V.  References are no values.
AreValues(V) ==
  \A v \in V : /\ v[1] \in {"null", "bool", "int", "float", "str", "arr"}
               /\ IsArr(v) => v[2] \in Seq(V \X V)

----------------------------------------------------------------------------
(* Arrays, as in value.rs: entries in order and the next integer key. *)

KeyAt(v, k) == SelectInSeq(v[2], LAMBDA en : en[1] = k)
HasKey(v, k) == IsArr(v) /\ KeyAt(v, k) # 0
Elem(v, k) == v[2][KeyAt(v, k)][2]

ArrInsert(v, k, x) ==
  Arr(IF HasKey(v, k) THEN [v[2] EXCEPT ![KeyAt(v, k)] = <<k, x>>] ELSE Append(v[2], <<k, x>>),
      IF IsKind(k, "int") /\ k[2] >= v[3] THEN k[2] + 1 ELSE v[3])
ArrPush(v, x) == ArrInsert(v, IntVal(v[3]), x)
ArrRemove(v, k) == IF HasKey(v, k) THEN Arr(RemoveAt(v[2], KeyAt(v, k)), v[3]) ELSE v

----------------------------------------------------------------------------
(* Numbers in strings. *)

FloatDigits(whole, fraction, exponent) ==
  LET n == DigitsValue(whole \o fraction)
      shift == exponent - Len(fraction) + 2
  IN IF shift >= 0 THEN n * 10 ^ shift ELSE n \div 10 ^ (-shift)

\* The exponent that begins at position i of s: where it ends, and its value;
\* i and 0 if there is none.
ExponentFrom(s, i, digits, end) ==
  IF digits <= end - 1
  THEN <<end, Signed(SubSeq(s, i + 1, end - 1), DigitsValue(SubSeq(s, digits, end - 1)))>>
  ELSE <<i, 0>>
ExponentDigits(s, i) ==
  IF i < Len(s) /\ s[i + 1] \in {Plus, Minus} THEN i + 2 ELSE i + 1
Exponent(s, i) ==
  IF i <= Len(s) /\ s[i] \in {69, 101}
  THEN ExponentFrom(s, i, ExponentDigits(s, i), SpanEnd(s, ExponentDigits(s, i), Digits))
  ELSE <<i, 0>>

\* A number read from its parts; it is an int if it has only the first and fits.
NumberOf(s, whole, fraction, point, exponent, hasExp) ==
  IF point \/ hasExp \/ ~FitsInt(Signed(s, DigitsValue(whole)))
  THEN FloatVal(IF whole \o fraction = <<>> THEN 0
                ELSE Signed(s, FloatDigits(whole, fraction, exponent)))
  ELSE IntVal(Signed(s, DigitsValue(whole)))

\* The numeric prefix of s, whose integral part is first..whole-1 and whose
\* fraction ends before `fraction`.
PrefixParts(s, first, whole, fraction, exponent) ==
  LET digits == SubSeq(s, first, whole - 1)
      decimals == SubSeq(s, whole + 1, fraction - 1)
  IN [end |-> exponent[1], digits |-> digits \o decimals # <<>>,
      num |-> NumberOf(s, digits, decimals, fraction > whole, exponent[2], exponent[1] > fraction)]
FractionEnd(s, whole) ==
  IF whole <= Len(s) /\ s[whole] = Dot THEN SpanEnd(s, whole + 1, Digits) ELSE whole
PrefixFrom(s, first, whole) ==
  PrefixParts(s, first, whole, FractionEnd(s, whole), Exponent(s, FractionEnd(s, whole)))
FirstDigit(s) == IF s # <<>> /\ s[1] \in {Plus, Minus} THEN 2 ELSE 1
NumberPrefix(s) == PrefixFrom(s, FirstDigit(s), SpanEnd(s, FirstDigit(s), Digits))

LeadingNumber(s) == NumberPrefix(TrimStart(s)).num

\* Words that str::parse::<f64> accepts: inf, nan (in any case; infinity too).
FloatWords == {<<105, 110, 102>>, <<73, 78, 70>>, <<110, 97, 110>>, <<78, 65, 78>>}

IsWholeNumber(prefix, n) == prefix.digits /\ prefix.end = n + 1
IsNumericTrimmed(t) == IsWholeNumber(NumberPrefix(t), Len(t)) \/ Unsigned(t) \in FloatWords
IsNumericStr(s) == IsNumericTrimmed(Trim(s))

\* int_str: an integral numeric string in range.
IntIn(t, digits) ==
  IF digits # <<>> /\ AllDigits(digits) /\ FitsInt(Signed(t, DigitsValue(digits)))
  THEN <<Signed(t, DigitsValue(digits))>> ELSE <<>>
TrimmedInt(t) == IntIn(t, Unsigned(t))
IntStr(s) == TrimmedInt(Trim(s))

\* canonical_int_key: "-5" and "10", never "-0", "007" or "+5".
CanonicalIntKey(s) ==
  LET digits == IF s # <<>> /\ s[1] = Minus THEN Tail(s) ELSE s
      n == Signed(s, DigitsValue(digits))
  IN IF /\ digits # <<>> /\ AllDigits(digits)
        /\ Len(digits) > 1 => digits[1] # 48
        /\ s # <<Minus, 48>>
        /\ FitsInt(n)
     THEN <<n>> ELSE <<>>

----------------------------------------------------------------------------
(* Conversions. *)

Hundredths(num) == IF IsKind(num, "int") THEN 100 * num[2] ELSE num[2]
Truncated(h) == IF h < 0 THEN -((-h) \div 100) ELSE h \div 100
Saturated(n) == IF n > MaxInt THEN MaxInt ELSE IF n < MinInt THEN MinInt ELSE n

ToBool(v) ==
  CASE IsKind(v, "null") -> FALSE
    [] IsKind(v, "bool") -> v[2]
    [] v[1] \in {"int", "float"} -> v[2] # 0
    [] IsKind(v, "str") -> v[2] \notin {<<>>, <<48>>}
    [] IsArr(v) -> v[2] # <<>>

ToNum(v) ==
  CASE v[1] \in {"int", "float"} -> v
    [] IsKind(v, "bool") -> IntVal(IF v[2] THEN 1 ELSE 0)
    [] IsKind(v, "str") -> LeadingNumber(v[2])
    [] OTHER -> IntVal(0)

\* to_i64 and to_f64 count an array that is not empty as 1, to_num as 0.
Counted(v) == IF IsArr(v) THEN IntVal(IF v[2] = <<>> THEN 0 ELSE 1) ELSE ToNum(v)
Integral(num) == IF IsKind(num, "int") THEN num[2] ELSE Saturated(Truncated(num[2]))
ToInt(v) == Integral(Counted(v))
ToFloat(v) == Hundredths(Counted(v))

FloatBytes(h) ==
  LET fraction == <<(h \div 10) % 10, h % 10>>
      shown == IF fraction[2] # 0 THEN 2 ELSE IF fraction[1] # 0 THEN 1 ELSE 0
  IN NatBytes(h \div 100)
     \o (IF shown = 0 THEN <<>> ELSE <<Dot>> \o [i \in 1..shown |-> 48 + fraction[i]])

ToBytes(v) ==
  CASE IsKind(v, "null") -> <<>>
    [] IsKind(v, "bool") -> IF v[2] THEN <<49>> ELSE <<>>
    [] IsKind(v, "int") -> IntBytes(v[2])
    [] IsKind(v, "float") -> IF v[2] < 0 THEN <<Minus>> \o FloatBytes(-v[2]) ELSE FloatBytes(v[2])
    [] IsKind(v, "str") -> v[2]
    [] IsArr(v) -> <<65, 114, 114, 97, 121>>

NormKey(v) ==
  CASE v[1] \in {"int", "bool", "float"} -> IntVal(ToInt(v))
    [] IsKind(v, "null") -> StrVal(<<>>)
    [] IsKind(v, "str") -> IF CanonicalIntKey(v[2]) # <<>> THEN IntVal(CanonicalIntKey(v[2])[1]) ELSE v
    [] IsArr(v) -> IntVal(0)

Cast(kind, v) ==
  CASE kind = "int" -> IntVal(ToInt(v))
    [] kind = "float" -> FloatVal(ToFloat(v))
    [] kind = "str" -> StrVal(ToBytes(v))
    [] kind = "bool" -> BoolVal(ToBool(v))

\* string_char: a string offset, counted from the end when negative.
CharAt(s, i) == StrVal(IF i \in 0..(Len(s) - 1) THEN <<s[i + 1]>> ELSE <<>>)
FromEnd(s, i) == IF i < 0 THEN Len(s) + i ELSE i
StringChar(s, k) == CharAt(s, FromEnd(s, ToInt(k)))

----------------------------------------------------------------------------
(* Comparison. *)

\* What a path of places in a leads to in a, and what the same keys lead to in b.
Paired(a, b, path) ==
  LET Down(xy, i) == LET en == xy[1][2][i] IN <<en[2], Elem(xy[2], en[1])>>
  IN FoldLeft(Down, <<a, b>>, path)

StrictEq(a, b) ==
  LET same[path \in Seq(Nat)] ==
        LET x == Paired(a, b, path)[1]
            y == Paired(a, b, path)[2]
        IN /\ x[1] = y[1]
           /\ IF IsArr(x)
              THEN /\ Len(x[2]) = Len(y[2])
                   /\ \A i \in DOMAIN x[2] : x[2][i][1] = y[2][i][1] /\ same[Append(path, i)]
              ELSE x = y
  IN same[<<>>]

\* As integers if both are, else as the second pair says.
SameInts(m, n, otherwise) == IF m # <<>> /\ n # <<>> THEN m = n ELSE otherwise

NumberEqStr(num, str) ==
  IF ~IsNumericStr(str[2]) THEN ToBytes(num) = str[2]
  ELSE SameInts(IF IsKind(num, "int") THEN <<num[2]>> ELSE <<>>, IntStr(str[2]),
                ToFloat(num) = ToFloat(str))
StrEqStr(x, y) ==
  IF IsNumericStr(x[2]) /\ IsNumericStr(y[2])
  THEN SameInts(IntStr(x[2]), IntStr(y[2]), ToFloat(x) = ToFloat(y))
  ELSE x = y

\* loose_eq of two values that are not both arrays.
ScalarEq(x, y) ==
  LET kinds == {x[1], y[1]}
  IN CASE "bool" \in kinds -> ToBool(x) = ToBool(y)
       [] "bool" \notin kinds /\ "null" \in kinds -> x = y
       [] kinds = {"int"} -> x = y
       [] kinds = {"str"} -> StrEqStr(x, y)
       [] "float" \in kinds /\ kinds \subseteq {"int", "float"} -> ToFloat(x) = ToFloat(y)
       [] x[1] \in {"int", "float"} /\ IsKind(y, "str") -> NumberEqStr(x, y)
       [] y[1] \in {"int", "float"} /\ IsKind(x, "str") -> NumberEqStr(y, x)
       [] OTHER -> FALSE
LooseEq(a, b) ==
  LET equal[path \in Seq(Nat)] ==
        LET x == Paired(a, b, path)[1]
            y == Paired(a, b, path)[2]
        IN IF IsArr(x) /\ IsArr(y)
           THEN /\ Len(x[2]) = Len(y[2])
                /\ \A i \in DOMAIN x[2] : HasKey(y, x[2][i][1]) /\ equal[Append(path, i)]
           ELSE ScalarEq(x, y)
  IN equal[<<>>]

Order(m, n) == IF m < n THEN -1 ELSE IF m = n THEN 0 ELSE 1

ByteOrder(s, t) ==
  LET differ == {i \in DOMAIN s \cap DOMAIN t : s[i] # t[i]}
  IN IF differ = {} THEN Order(Len(s), Len(t))
     ELSE LET i == CHOOSE i \in differ : \A j \in differ : i <= j IN Order(s[i], t[i])

\* compare: -1, 0 or 1.
Truth(v) == IF ToBool(v) THEN 1 ELSE 0
WholeOf(v) == IF IsKind(v, "int") THEN <<v[2]>>
              ELSE IF IsKind(v, "str") /\ IsNumericStr(v[2]) THEN IntStr(v[2]) ELSE <<>>
CompareBy(a, b, m, n) ==
  CASE m # <<>> /\ n # <<>> -> Order(m[1], n[1])
    [] /\ IsKind(a, "str") /\ IsKind(b, "str") /\ ~(IsNumericStr(a[2]) /\ IsNumericStr(b[2])) ->
         ByteOrder(a[2], b[2])
    [] IsArr(a) /\ IsArr(b) -> Order(Len(a[2]), Len(b[2]))
    [] {a[1], b[1]} \cap {"bool", "null"} # {} -> Order(Truth(a), Truth(b))
    [] OTHER -> Order(ToFloat(a), ToFloat(b))
Compare(a, b) == CompareBy(a, b, WholeOf(a), WholeOf(b))

----------------------------------------------------------------------------
(* Operators. *)

\* An arithmetic result: an int while it fits, else a float.
Exact(op, m, n) == IF op = "+" THEN m + n ELSE IF op = "-" THEN m - n ELSE m * n
IntOrFloat(n) == IF FitsInt(n) THEN IntVal(n) ELSE FloatVal(100 * n)
ArithNum(op, m, n) ==
  IF IsKind(m, "int") /\ IsKind(n, "int")
  THEN IntOrFloat(Exact(op, m[2], n[2]))
  ELSE FloatVal(Exact(op, Hundredths(m), Hundredths(n)))
Arith(op, l, r) == ArithNum(op, ToNum(l), ToNum(r))

\* a with the entries of b whose keys are new, one by one.
Union(a, b) ==
  LET With(v, en) == IF HasKey(v, en[1]) THEN v ELSE ArrInsert(v, en[1], en[2])
      with[i \in 0..Len(b[2])] == IF i = 0 THEN a ELSE With(with[i - 1], b[2][i])
  IN with[Len(b[2])]

Ordered(op, order) ==
  CASE op = "<" -> BoolVal(order = -1)
    [] op = ">" -> BoolVal(order = 1)
    [] op = "<=" -> BoolVal(order # 1)
    [] op = ">=" -> BoolVal(order # -1)
    [] op = "<=>" -> IntVal(order)

BinOps == {"+", "-", "*", ".", "==", "!=", "===", "!==", "<", ">", "<=", ">=", "<=>", "xor", "??"}

\* apply_bin, for the operators that cannot throw on the operands given:
\* no array meets a number, and float products and division are left out.
ApplyBin(op, l, r) ==
  CASE op = "+" -> IF IsArr(l) /\ IsArr(r) THEN Union(l, r) ELSE Arith("+", l, r)
    [] op \in {"-", "*"} -> Arith(op, l, r)
    [] op = "." -> StrVal(ToBytes(l) \o ToBytes(r))
    [] op \in {"==", "!="} -> BoolVal(LooseEq(l, r) = (op = "=="))
    [] op \in {"===", "!=="} -> BoolVal(StrictEq(l, r) = (op = "==="))
    [] op \in {"<", ">", "<=", ">=", "<=>"} -> Ordered(op, Compare(l, r))
    [] op = "xor" -> BoolVal(ToBool(l) # ToBool(r))
    [] op = "??" -> Null

\* inc: ++ and -- of the tree walker.
Inc(v, by) ==
  IF v = Null THEN (IF by > 0 THEN IntVal(1) ELSE Null) ELSE Arith("+", v, IntVal(by))

----------------------------------------------------------------------------
(* Paths of keys into nested arrays. *)

\* read_index_value: the path stops at what is no array; of a string it takes
\* one character, whatever keys follow.
Member(v, k) == IF ~IsArr(v) THEN v ELSE IF HasKey(v, k) THEN Elem(v, k) ELSE Null
ReadPath(root, path) ==
  LET member[i \in 0..Len(path)] == IF i = 0 THEN root ELSE Member(member[i - 1], path[i])
      stops == {i \in 1..Len(path) : ~IsArr(member[i - 1])}
      reached == member[Len(path)]
  IN CASE stops = {} -> reached
       [] stops # {} /\ IsKind(reached, "str") -> StringChar(reached[2], path[Min(stops)])
       [] OTHER -> Null

\* write_index_path: intermediate arrays are created, other values replaced.
\* A sequence of keys; with `append` the value goes after the last one.
ArrayAt(root, path) == IF IsArr(ReadPath(root, path)) THEN ReadPath(root, path) ELSE EmptyArr
WritePath(root, path, x, append) ==
  LET n == Len(path)
      written[up \in 0..n] ==      \* what goes where the path without its last `up` keys leads
        IF up = 0 THEN (IF append THEN ArrPush(ArrayAt(root, path), x) ELSE x)
        ELSE ArrInsert(ArrayAt(root, SubSeq(path, 1, n - up)), path[n - up + 1], written[up - 1])
  IN written[n]
==================================================
