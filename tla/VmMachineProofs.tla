-------------------------- MODULE VmMachineProofs --------------------------
(***************************************************************************)
(* Proofs about the virtual machine, on the code the compiler makes of any *)
(* bodies it accepts and with any values in it; and about PHP values:      *)
(* every operation on values yields a value, so none makes a reference.    *)
(***************************************************************************)
EXTENDS VmCompileProofs

IsValue(v) == \E V : v \in V /\ AreValues(V)

\* The entries of an array: pairs of key and element.
IsEntry(en) == en = <<en[1], en[2]>> /\ IsValue(en[1]) /\ IsValue(en[2])
IsEntries(es) == (\E S : es \in Seq(S)) /\ \A i \in 1..Len(es) : IsEntry(es[i])

----------------------------------------------------------------------------
(* What values are. *)

Kinds == {"null", "bool", "int", "float", "str", "arr"}

\* A value has a kind, and no reference is a value.
LEMMA KindOfValue ==
  ASSUME NEW v, IsValue(v)
  PROVE  v[1] \in Kinds /\ ~IsKind(v, "ref")
BY DEF IsValue, AreValues, Kinds, IsKind

\* What has the kind of a scalar is a value.
LEMMA ScalarIsValue ==
  ASSUME NEW v, v[1] \in Kinds \ {"arr"}
  PROVE  IsValue(v)
<1>1. v \in {v} /\ AreValues({v})
  BY DEF Kinds, AreValues, IsArr, IsKind
<1>2. QED
  BY <1>1 DEF IsValue

\* The constructors of scalars make values.
LEMMA ScalarsAreValues ==
  ASSUME NEW x
  PROVE  IsValue(Null) /\ IsValue(BoolVal(x)) /\ IsValue(IntVal(x)) /\ IsValue(FloatVal(x))
         /\ IsValue(StrVal(x))
<1>1. /\ Null[1] = "null" /\ BoolVal(x)[1] = "bool" /\ IntVal(x)[1] = "int"
      /\ FloatVal(x)[1] = "float" /\ StrVal(x)[1] = "str"
  BY DEF Null, BoolVal, IntVal, FloatVal, StrVal
<1>2. {"null", "bool", "int", "float", "str"} = Kinds \ {"arr"}
  BY DEF Kinds
<1>3. QED
  BY <1>1, <1>2, ScalarIsValue

\* Keys and elements of an array are values.
LEMMA EntriesOfArray ==
  ASSUME NEW v, IsValue(v), IsArr(v)
  PROVE  IsEntries(v[2])
<1>1. PICK V : v \in V /\ AreValues(V)
  BY DEF IsValue
<1>2. v[2] \in Seq(V \X V)
  BY <1>1 DEF AreValues
<1>3. ASSUME NEW i \in 1..Len(v[2])
      PROVE  IsEntry(v[2][i])
  <2>1. v[2][i] \in V \X V
    BY <1>2
  <2>2. QED
    BY <1>1, <2>1 DEF IsEntry, IsValue
<1>4. QED
  BY <1>2, <1>3 DEF IsEntries

\* Pairs of values are the entries of an array: the union of sets of values is
\* one.
LEMMA ArrayOfEntries ==
  ASSUME NEW es, NEW n, IsEntries(es)
  PROVE  IsValue(Arr(es, n)) /\ IsArr(Arr(es, n))
<1> DEFINE Known(x) == CHOOSE V : x \in V /\ AreValues(V)
           U == UNION {Known(es[i][1]) \cup Known(es[i][2]) : i \in 1..Len(es)}
           W == U \cup {Arr(es, n)}
<1>1. ASSUME NEW i \in 1..Len(es)
      PROVE  /\ es[i] \in U \X U
             /\ AreValues(Known(es[i][1])) /\ AreValues(Known(es[i][2]))
  <2>1. es[i] = <<es[i][1], es[i][2]>> /\ IsValue(es[i][1]) /\ IsValue(es[i][2])
    BY DEF IsEntries, IsEntry
  <2>2. es[i][1] \in Known(es[i][1]) /\ AreValues(Known(es[i][1]))
    BY <2>1 DEF IsValue
  <2>3. es[i][2] \in Known(es[i][2]) /\ AreValues(Known(es[i][2]))
    BY <2>1 DEF IsValue
  <2> HIDE DEF Known
  <2>4. es[i][1] \in U /\ es[i][2] \in U
    BY <2>2, <2>3
  <2>5. QED
    BY <2>1, <2>2, <2>3, <2>4
<1>2. es \in Seq(U \X U)
  <2>1. PICK S : es \in Seq(S)
    BY DEF IsEntries
  <2>2. Len(es) \in Nat /\ es = [i \in 1..Len(es) |-> es[i]]
    BY <2>1
  <2> HIDE DEF U
  <2>3. \A i \in 1..Len(es) : es[i] \in U \X U
    BY <1>1
  <2>4. QED
    BY <2>2, <2>3, IsASeq
<1>3. AreValues(U)
  <2> HIDE DEF Known
  <2>1. ASSUME NEW v \in U
        PROVE  v[1] \in Kinds /\ (IsArr(v) => v[2] \in Seq(U \X U))
    <3>1. PICK i \in 1..Len(es) : v \in Known(es[i][1]) \cup Known(es[i][2])
      OBVIOUS
    <3>2. PICK V : v \in V /\ AreValues(V) /\ V \subseteq U
      BY <1>1, <3>1
    <3> HIDE DEF U
    <3>3. IsArr(v) => v[2] \in Seq(V \X V)
      BY <3>2 DEF AreValues
    <3>4. V \X V \subseteq U \X U
      BY <3>2
    <3>5. QED
      BY <3>2, <3>3, <3>4 DEF AreValues, Kinds
  <2> HIDE DEF U
  <2>2. QED
    BY <2>1 DEF AreValues, Kinds
<1>4. AreValues(W)
  <2>1. U \X U \subseteq W \X W
    OBVIOUS
  <2>2. Arr(es, n)[1] = "arr" /\ Arr(es, n)[2] = es
    BY DEF Arr
  <2> HIDE DEF U
  <2>3. QED
    BY <1>2, <1>3, <2>1, <2>2 DEF AreValues
<1>5. QED
  BY <1>4 DEF IsValue, IsArr, IsKind, Arr

----------------------------------------------------------------------------
(* Operations on arrays. *)

\* Where a key is found there is an entry.
LEMMA KeyIsFound ==
  ASSUME NEW v, NEW k, IsEntries(v[2]), KeyAt(v, k) # 0
  PROVE  KeyAt(v, k) \in 1..Len(v[2])
<1> DEFINE I == {i \in 1..Len(v[2]) : v[2][i][1] = k}
<1>1. KeyAt(v, k) = IF I # {} THEN Min(I) ELSE 0
  BY DEF KeyAt, SelectInSeq
<1>2. I \in SUBSET Nat /\ I # {} /\ I \subseteq 1..Len(v[2])
  BY <1>1
<1> HIDE DEF I
<1>3. \E m \in I : \A i \in I : m <= i
  BY <1>2, LeastNumber
<1>4. Min(I) \in I
  BY <1>3 DEF Min
<1>5. QED
  BY <1>1, <1>2, <1>4

\* What is found under a key is a value.
LEMMA ElementIsValue ==
  ASSUME NEW v, NEW k, IsValue(v), HasKey(v, k)
  PROVE  IsValue(Elem(v, k))
<1>1. IsEntries(v[2]) /\ KeyAt(v, k) # 0
  BY EntriesOfArray DEF HasKey
<1>2. KeyAt(v, k) \in 1..Len(v[2])
  BY <1>1, KeyIsFound
<1>3. QED
  BY <1>1, <1>2 DEF IsEntries, IsEntry, Elem

\* An entry at the end, or for another, keeps a list of entries.
LEMMA EntryAdded ==
  ASSUME NEW es, NEW en, IsEntries(es), IsEntry(en)
  PROVE  IsEntries(Append(es, en)) /\ \A i \in 1..Len(es) : IsEntries([es EXCEPT ![i] = en])
<1>1. PICK S : es \in Seq(S)
  BY DEF IsEntries
<1>2. es \in Seq(S \cup {en}) /\ en \in S \cup {en} /\ Len(es) \in Nat
  BY <1>1
<1>3. /\ Append(es, en) \in Seq(S \cup {en}) /\ Len(Append(es, en)) = Len(es) + 1
      /\ \A i \in 1..Len(es) : Append(es, en)[i] = es[i]
      /\ Append(es, en)[Len(es) + 1] = en
  BY <1>2, AppendProperties
<1>4. IsEntries(Append(es, en))
  <2>1. ASSUME NEW i \in 1..Len(Append(es, en)) PROVE IsEntry(Append(es, en)[i])
    <3>1. i \in 1..Len(es) \/ i = Len(es) + 1
      BY <1>2, <1>3
    <3>2. QED
      BY <1>3, <3>1 DEF IsEntries
  <2>2. QED
    BY <1>3, <2>1 DEF IsEntries
<1>5. ASSUME NEW i \in 1..Len(es) PROVE IsEntries([es EXCEPT ![i] = en])
  <2>1. /\ [es EXCEPT ![i] = en] \in Seq(S \cup {en}) /\ Len([es EXCEPT ![i] = en]) = Len(es)
        /\ \A j \in 1..Len(es) : [es EXCEPT ![i] = en][j] = IF j = i THEN en ELSE es[j]
    BY <1>2, ExceptSeq
  <2>2. ASSUME NEW j \in 1..Len(es) PROVE IsEntry([es EXCEPT ![i] = en][j])
    BY <2>1 DEF IsEntries
  <2>3. QED
    BY <2>1, <2>2 DEF IsEntries
<1>6. QED
  BY <1>4, <1>5

\* Arr::insert and push.
LEMMA InsertedIsValue ==
  ASSUME NEW v, NEW k, NEW x, IsValue(v), IsArr(v), IsValue(k), IsValue(x)
  PROVE  IsValue(ArrInsert(v, k, x)) /\ IsArr(ArrInsert(v, k, x))
<1> DEFINE en == <<k, x>>
           es == IF HasKey(v, k) THEN [v[2] EXCEPT ![KeyAt(v, k)] = en] ELSE Append(v[2], en)
<1>1. IsEntries(v[2]) /\ IsEntry(en)
  BY EntriesOfArray DEF IsEntry
<1>2. HasKey(v, k) => KeyAt(v, k) \in 1..Len(v[2])
  BY <1>1, KeyIsFound DEF HasKey
<1>3. \E n : ArrInsert(v, k, x) = Arr(es, n)
  BY DEF ArrInsert
<1>4. IsEntries(es)
  <2> HIDE DEF en
  <2>1. QED
    BY <1>1, <1>2, EntryAdded
<1> HIDE DEF es
<1>5. QED
  BY <1>3, <1>4, ArrayOfEntries

\* Arr::push.
LEMMA PushedIsValue ==
  ASSUME NEW v, NEW x, IsValue(v), IsArr(v), IsValue(x)
  PROVE  IsValue(ArrPush(v, x)) /\ IsArr(ArrPush(v, x))
<1>1. IsValue(IntVal(v[3]))
  BY ScalarsAreValues
<1>2. QED
  BY <1>1, InsertedIsValue DEF ArrPush

\* Arr::remove.
LEMMA RemovedIsValue ==
  ASSUME NEW v, NEW k, IsValue(v)
  PROVE  IsValue(ArrRemove(v, k))
<1>1. CASE ~HasKey(v, k)
  BY <1>1 DEF ArrRemove
<1>2. CASE HasKey(v, k)
  <2> DEFINE es == v[2]  i == KeyAt(v, k)
  <2>1. IsEntries(es) /\ i \in 1..Len(es)
    BY <1>2, EntriesOfArray, KeyIsFound DEF HasKey
  <2>2. PICK S : es \in Seq(S)
    BY <2>1 DEF IsEntries
  <2> DEFINE a == SubSeq(es, 1, i - 1)  b == SubSeq(es, i + 1, Len(es))
  <2> HIDE DEF es, i
  <2>3. Len(es) \in Nat /\ 1 \in 1..Len(es) + 1 /\ i - 1 \in 0..Len(es) /\ i + 1 \in 1..Len(es) + 1
        /\ Len(es) \in 0..Len(es)
    BY <2>1, <2>2
  <2>4. /\ a \in Seq(S) /\ Len(a) = i - 1 /\ \A j \in 1..(i - 1) : a[j] = es[j]
    BY <2>1, <2>2, <2>3, SubSeqProperties
  <2>5. /\ b \in Seq(S) /\ Len(b) = Len(es) - i
        /\ \A j \in 1..(Len(es) - i) : b[j] = es[i + j]
    BY <2>1, <2>2, <2>3, SubSeqProperties
  <2> HIDE DEF a, b
  <2>6. /\ a \o b \in Seq(S) /\ Len(a \o b) = Len(a) + Len(b)
        /\ \A j \in 1..(Len(a) + Len(b)) : (a \o b)[j] = IF j <= Len(a) THEN a[j] ELSE b[j - Len(a)]
    BY <2>4, <2>5, ConcatProperties
  <2>7. ASSUME NEW j \in 1..Len(a \o b) PROVE IsEntry((a \o b)[j])
    <3>1. CASE j <= Len(a)
      <4>1. j \in 1..(i - 1) /\ j \in 1..Len(es)
        BY <2>1, <2>3, <2>4, <2>5, <2>6, <3>1
      <4>2. (a \o b)[j] = es[j]
        BY <2>4, <2>6, <3>1, <4>1
      <4>3. QED
        BY <2>1, <4>1, <4>2 DEF IsEntries
    <3>2. CASE ~(j <= Len(a))
      <4>1. j - Len(a) \in 1..(Len(es) - i) /\ i + (j - Len(a)) \in 1..Len(es)
        BY <2>1, <2>3, <2>4, <2>5, <2>6, <3>2
      <4>2. (a \o b)[j] = es[i + (j - Len(a))]
        BY <2>5, <2>6, <3>2, <4>1
      <4>3. QED
        BY <2>1, <4>1, <4>2 DEF IsEntries
    <3>3. QED
      BY <3>1, <3>2
  <2>8. IsEntries(a \o b)
    BY <2>6, <2>7 DEF IsEntries
  <2>9. ArrRemove(v, k) = Arr(a \o b, v[3])
    BY <1>2 DEF ArrRemove, RemoveAt, a, b, es, i
  <2>10. QED
    BY <2>8, <2>9, ArrayOfEntries
<1>3. QED
  BY <1>1, <1>2
----------------------------------------------------------------------------
(* Conversions and operators. *)

\* Arr::norm_key.
LEMMA KeyIsValue ==
  ASSUME NEW v, IsValue(v)
  PROVE  IsValue(NormKey(v))
<1>1. v[1] \in Kinds
  BY KindOfValue
<1>2. CASE v[1] \in {"int", "bool", "float"}
  BY <1>2, ScalarsAreValues DEF NormKey
<1>3. CASE v[1] \in {"null", "arr"}
  BY <1>3, ScalarsAreValues DEF NormKey, IsKind, IsArr
<1>4. CASE v[1] = "str"
  <2>1. NormKey(v) = v \/ \E n : NormKey(v) = IntVal(n)
    BY <1>4 DEF NormKey, IsKind
  <2>2. QED
    BY <2>1, ScalarsAreValues
<1>5. QED
  BY <1>1, <1>2, <1>3, <1>4 DEF Kinds

\* The casts of Eval::cast.
LEMMA CastIsValue ==
  ASSUME NEW v, NEW kind \in {"int", "float", "str", "bool"}
  PROVE  IsValue(Cast(kind, v))
BY ScalarsAreValues DEF Cast

\* num_arith: an int or a float.
LEMMA ArithIsValue ==
  ASSUME NEW op, NEW l, NEW r
  PROVE  IsValue(Arith(op, l, r))
<1>1. \E n : Arith(op, l, r) = IntVal(n) \/ Arith(op, l, r) = FloatVal(n)
  BY DEF Arith, ArithNum, IntOrFloat
<1>2. QED
  BY <1>1, ScalarsAreValues

\* A value with one entry more, unless it has its key.
With(v, en) == IF HasKey(v, en[1]) THEN v ELSE ArrInsert(v, en[1], en[2])

JoinedBy(a, es, g, n) ==
  g = [i \in 0..n |-> IF i = 0 THEN a ELSE With(g[i - 1], es[i])]

\* The arrays a union goes through are determined.
LEMMA JoinExists ==
  ASSUME NEW a, NEW es, NEW n \in Nat
  PROVE  \E g : JoinedBy(a, es, g, n)
<1> DEFINE T == {k \in 0..n : \E g : JoinedBy(a, es, g, k)}
<1>1. 0 \in T
  <2>1. JoinedBy(a, es, [i \in 0..0 |-> a], 0)
    BY DEF JoinedBy
  <2>2. QED
    BY <2>1
<1>2. ASSUME NEW k \in 0..n, k \in T, k + 1 <= n PROVE k + 1 \in T
  <2>1. PICK g : JoinedBy(a, es, g, k)
    BY <1>2
  <2> DEFINE new == With(g[k], es[k + 1])
             h == [i \in 0..(k + 1) |-> IF i = k + 1 THEN new ELSE g[i]]
  <2>2. \A i \in 0..k : g[i] = IF i = 0 THEN a ELSE With(g[i - 1], es[i])
    BY <2>1 DEF JoinedBy
  <2>3. \A i \in 0..(k + 1) : h[i] = IF i = 0 THEN a ELSE With(h[i - 1], es[i])
    BY <2>2
  <2>4. JoinedBy(a, es, h, k + 1)
    BY <2>3 DEF JoinedBy
  <2>5. QED
    BY <1>2, <2>4
<1>3. T = 0..n
  <2>1. T \in SUBSET (0..n)
    OBVIOUS
  <2> HIDE DEF T
  <2> QED
    BY <1>1, <1>2, <2>1, InductionUpTo
<1>4. QED
  BY <1>3

\* The union of two arrays is an array.
LEMMA UnionIsValue ==
  ASSUME NEW a, NEW b, IsValue(a), IsArr(a), IsValue(b), IsArr(b)
  PROVE  IsValue(Union(a, b))
<1> DEFINE n == Len(b[2])
           f == CHOOSE g : JoinedBy(a, b[2], g, n)
<1>1. IsEntries(b[2])
  BY EntriesOfArray
<1>2. n \in Nat
  BY <1>1 DEF IsEntries
<1>3. Union(a, b) = f[n]
  BY DEF Union, JoinedBy, With
<1>4. JoinedBy(a, b[2], f, n)
  BY <1>2, JoinExists
<1> HIDE DEF f, n
<1>5. \A i \in 0..n : f[i] = IF i = 0 THEN a ELSE With(f[i - 1], b[2][i])
  BY <1>4 DEF JoinedBy
<1> DEFINE T == {i \in 0..n : IsValue(f[i]) /\ IsArr(f[i])}
<1>6. 0 \in T
  BY <1>2, <1>5
<1>7. ASSUME NEW k \in 0..n, k \in T, k + 1 <= n PROVE k + 1 \in T
  <2>1. f[k + 1] = With(f[k], b[2][k + 1]) /\ k + 1 \in 1..n
    BY <1>2, <1>5, <1>7
  <2>2. IsEntry(b[2][k + 1])
    BY <1>1, <2>1 DEF IsEntries, n
  <2>3. IsValue(f[k]) /\ IsArr(f[k])
    BY <1>7
  <2>4. IsValue(f[k + 1]) /\ IsArr(f[k + 1])
    BY <2>1, <2>2, <2>3, InsertedIsValue DEF With, IsEntry
  <2>5. QED
    BY <2>1, <2>4
<1>8. T = 0..n
  <2>1. T \in SUBSET (0..n)
    OBVIOUS
  <2> HIDE DEF T
  <2> QED
    BY <1>2, <1>6, <1>7, <2>1, InductionUpTo
<1>9. QED
  BY <1>2, <1>3, <1>8

\* apply_bin.
LEMMA OperatorsMakeValues ==
  ASSUME NEW op \in BinOps, NEW l, NEW r, IsValue(l), IsValue(r)
  PROVE  IsValue(ApplyBin(op, l, r))
<1>1. CASE op = "+"
  BY <1>1, UnionIsValue, ArithIsValue DEF ApplyBin
<1>2. CASE op \in {"-", "*"}
  BY <1>2, ArithIsValue DEF ApplyBin
<1>3. CASE op \in {".", "==", "!=", "===", "!==", "xor", "??"}
  BY <1>3, ScalarsAreValues DEF ApplyBin
<1>4. CASE op \in {"<", ">", "<=", ">=", "<=>"}
  <2>1. ApplyBin(op, l, r) = Ordered(op, Compare(l, r))
    BY <1>4 DEF ApplyBin
  <2>2. QED
    BY <1>4, <2>1, ScalarsAreValues DEF Ordered
<1>5. QED
  BY <1>1, <1>2, <1>3, <1>4 DEF BinOps

----------------------------------------------------------------------------
(* Paths of keys. *)

WalkedBy(root, path, g, n) ==
  g = [i \in 0..n |-> IF i = 0 THEN root ELSE Member(g[i - 1], path[i])]

\* The values a path leads through are determined.
LEMMA WalkExists ==
  ASSUME NEW root, NEW path, NEW n \in Nat
  PROVE  \E g : WalkedBy(root, path, g, n)
<1> DEFINE T == {k \in 0..n : \E g : WalkedBy(root, path, g, k)}
<1>1. 0 \in T
  <2>1. WalkedBy(root, path, [i \in 0..0 |-> root], 0)
    BY DEF WalkedBy
  <2>2. QED
    BY <2>1
<1>2. ASSUME NEW k \in 0..n, k \in T, k + 1 <= n PROVE k + 1 \in T
  <2>1. PICK g : WalkedBy(root, path, g, k)
    BY <1>2
  <2> DEFINE new == Member(g[k], path[k + 1])
             h == [i \in 0..(k + 1) |-> IF i = k + 1 THEN new ELSE g[i]]
  <2>2. \A i \in 0..k : g[i] = IF i = 0 THEN root ELSE Member(g[i - 1], path[i])
    BY <2>1 DEF WalkedBy
  <2>3. \A i \in 0..(k + 1) : h[i] = IF i = 0 THEN root ELSE Member(h[i - 1], path[i])
    BY <2>2
  <2>4. WalkedBy(root, path, h, k + 1)
    BY <2>3 DEF WalkedBy
  <2>5. QED
    BY <1>2, <2>4
<1>3. T = 0..n
  <2>1. T \in SUBSET (0..n)
    OBVIOUS
  <2> HIDE DEF T
  <2> QED
    BY <1>1, <1>2, <2>1, InductionUpTo
<1>4. QED
  BY <1>3

\* read_index_value.
LEMMA ReadIsValue ==
  ASSUME NEW root, NEW path, Len(path) \in Nat, IsValue(root)
  PROVE  IsValue(ReadPath(root, path))
<1> DEFINE n == Len(path)
           f == CHOOSE g : WalkedBy(root, path, g, n)
<1>1. WalkedBy(root, path, f, n)
  BY WalkExists
<1>2. ReadPath(root, path) = f[n] \/ ReadPath(root, path) = Null
        \/ \E s : ReadPath(root, path) = StrVal(s)
  BY DEF ReadPath, WalkedBy, StringChar, CharAt
<1> HIDE DEF f
<1>3. \A i \in 0..n : f[i] = IF i = 0 THEN root ELSE Member(f[i - 1], path[i])
  BY <1>1 DEF WalkedBy
<1> HIDE DEF n
<1> DEFINE T == {i \in 0..n : IsValue(f[i])}
<1>4. n \in Nat
  BY DEF n
<1>5. 0 \in T
  BY <1>3, <1>4
<1>6. ASSUME NEW k \in 0..n, k \in T, k + 1 <= n PROVE k + 1 \in T
  <2>1. f[k + 1] = Member(f[k], path[k + 1])
    BY <1>3, <1>4, <1>6
  <2>2. QED
    BY <1>4, <1>6, <2>1, ElementIsValue, ScalarsAreValues DEF Member
<1>7. T = 0..n
  <2>1. T \in SUBSET (0..n)
    OBVIOUS
  <2> HIDE DEF T
  <2> QED
    BY <1>4, <1>5, <1>6, <2>1, InductionUpTo
<1>8. IsValue(f[n])
  BY <1>4, <1>7
<1>9. QED
  BY <1>2, <1>8, ScalarsAreValues

\* An array without entries.
LEMMA EmptyIsValue == IsValue(EmptyArr) /\ IsArr(EmptyArr)
<1>1. <<>> \in Seq({}) /\ Len(<<>>) = 0
  OBVIOUS
<1>2. IsEntries(<<>>)
  BY <1>1 DEF IsEntries
<1>3. QED
  BY <1>2, ArrayOfEntries DEF EmptyArr

\* The array that a path leads to, or a new one.
LEMMA PlaceIsArray ==
  ASSUME NEW root, NEW path, Len(path) \in Nat, IsValue(root)
  PROVE  IsValue(ArrayAt(root, path)) /\ IsArr(ArrayAt(root, path))
BY ReadIsValue, EmptyIsValue DEF ArrayAt

\* What is put where the path without its last keys leads.
Placed(root, path, below, up) ==
  ArrInsert(ArrayAt(root, SubSeq(path, 1, Len(path) - up)), path[Len(path) - up + 1], below)

WrittenBy(root, path, v, g, n) ==
  g = [i \in 0..n |-> IF i = 0 THEN v ELSE Placed(root, path, g[i - 1], i)]

\* The arrays a write goes through are determined.
LEMMA WriteExists ==
  ASSUME NEW root, NEW path, NEW v, NEW n \in Nat
  PROVE  \E g : WrittenBy(root, path, v, g, n)
<1> DEFINE T == {k \in 0..n : \E g : WrittenBy(root, path, v, g, k)}
<1>1. 0 \in T
  <2>1. WrittenBy(root, path, v, [i \in 0..0 |-> v], 0)
    BY DEF WrittenBy
  <2>2. QED
    BY <2>1
<1>2. ASSUME NEW k \in 0..n, k \in T, k + 1 <= n PROVE k + 1 \in T
  <2>1. PICK g : WrittenBy(root, path, v, g, k)
    BY <1>2
  <2> DEFINE new == Placed(root, path, g[k], (k + 1))
             h == [i \in 0..(k + 1) |-> IF i = k + 1 THEN new ELSE g[i]]
  <2>2. \A i \in 0..k : g[i] = IF i = 0 THEN v ELSE Placed(root, path, g[i - 1], i)
    BY <2>1 DEF WrittenBy
  <2>3. \A i \in 0..(k + 1) : h[i] = IF i = 0 THEN v ELSE Placed(root, path, h[i - 1], i)
    BY <2>2
  <2>4. WrittenBy(root, path, v, h, k + 1)
    BY <2>3 DEF WrittenBy
  <2>5. QED
    BY <1>2, <2>4
<1>3. T = 0..n
  <2>1. T \in SUBSET (0..n)
    OBVIOUS
  <2> HIDE DEF T
  <2> QED
    BY <1>1, <1>2, <2>1, InductionUpTo
<1>4. QED
  BY <1>3

\* write_index_path.
LEMMA WrittenIsValue ==
  ASSUME NEW root, NEW path, NEW x, NEW append, IsValue(root), IsValue(x),
         NEW S, path \in Seq(S), \A i \in 1..Len(path) : IsValue(path[i])
  PROVE  IsValue(WritePath(root, path, x, append))
<1> DEFINE n == Len(path)
           v == IF append THEN ArrPush(ArrayAt(root, path), x) ELSE x
           f == CHOOSE g : WrittenBy(root, path, v, g, n)
<1>1. n \in Nat
  OBVIOUS
<1>2. WrittenBy(root, path, v, f, n)
  <2> HIDE DEF n, v
  <2> QED
    BY <1>1, WriteExists
<1>3. WritePath(root, path, x, append) = f[n]
  BY DEF WritePath, WrittenBy, Placed
<1>4. IsValue(v)
  BY <1>1, PlaceIsArray, PushedIsValue
<1> HIDE DEF f, v
<1>5. \A i \in 0..n : f[i] = IF i = 0 THEN v ELSE Placed(root, path, f[i - 1], i)
  BY <1>2 DEF WrittenBy
<1> DEFINE T == {i \in 0..n : IsValue(f[i])}
<1>6. 0 \in T
  BY <1>1, <1>4, <1>5
<1>7. ASSUME NEW k \in 0..n, k \in T, k + 1 <= n PROVE k + 1 \in T
  <2> DEFINE prefix == SubSeq(path, 1, n - (k + 1))
  <2>1. f[k + 1] = Placed(root, path, f[k], k + 1)
    BY <1>1, <1>5, <1>7
  <2>2. n - (k + 1) \in 0..n /\ n - (k + 1) + 1 \in 1..n
    BY <1>1, <1>7
  <2>3. Len(prefix) \in Nat
    <3>1. \A i \in 1..(n - (k + 1)) : path[i] \in S
      BY <2>2
    <3>2. prefix \in Seq(S)
      BY <2>2, <3>1, SubSeqProperties
    <3>3. QED
      BY <3>2
  <2>4. IsValue(ArrayAt(root, prefix)) /\ IsArr(ArrayAt(root, prefix))
    BY <2>3, PlaceIsArray
  <2>5. IsValue(path[n - (k + 1) + 1]) /\ IsValue(f[k])
    BY <1>7, <2>2
  <2>6. IsValue(f[k + 1])
    BY <2>1, <2>4, <2>5, InsertedIsValue DEF Placed
  <2>7. QED
    BY <1>7, <2>6
<1>8. T = 0..n
  <2>1. T \in SUBSET (0..n)
    OBVIOUS
  <2> HIDE DEF T, n
  <2> QED
    BY <1>1, <1>6, <1>7, <2>1, InductionUpTo
<1>9. QED
  BY <1>1, <1>3, <1>8

----------------------------------------------------------------------------
(* The machine. *)

\* For the code of every chunk, places it is verified with.
Places == [c \in Chunk |-> CHOOSE places : Verified(c.code, places)]

\* They exist: the compiler's code is verified.
LEMMA PlacesVerify ==
  ASSUME NEW c \in Chunk
  PROVE  Verified(c.code, Places[c])
BY CompiledCodeIsVerified DEF CodeIsVerified, Places

\* The machine is at a place its code can be at.
BInv ==
  /\ chunk \in Chunk /\ IsSeq(stack) /\ IsSeq(iters)
  /\ <<pc, Len(stack), Len(iters)>> \in Places[chunk]

----------------------------------------------------------------------------
(* Sequences of anything. *)

\* What is left of a sequence without its last n elements (Below).
LEMMA Dropped ==
  ASSUME NEW s, NEW n \in Nat, IsSeq(s), n <= Len(s)
  PROVE  /\ IsSeq(SubSeq(s, 1, Len(s) - n)) /\ Len(SubSeq(s, 1, Len(s) - n)) = Len(s) - n
         /\ Len(s) \in Nat
<1>1. PICK S : s \in Seq(S)
  BY DEF IsSeq
<1>2. Len(s) \in Nat /\ Len(s) - n \in 0..Len(s)
  BY <1>1
<1>3. SubSeq(s, 1, Len(s) - n) \in Seq(S) /\ Len(SubSeq(s, 1, Len(s) - n)) = Len(s) - n
  BY <1>1, <1>2, SubSeqProperties
<1>4. QED
  BY <1>2, <1>3 DEF IsSeq

\* A sequence without its last element.
LEMMA Fronted ==
  ASSUME NEW s, IsSeq(s), Len(s) > 0
  PROVE  IsSeq(Front(s)) /\ Len(Front(s)) = Len(s) - 1
<1>1. 1 \in Nat /\ 1 <= Len(s)
  <2>1. PICK S : s \in Seq(S)
    BY DEF IsSeq
  <2>2. QED
    BY <2>1
<1>2. QED
  BY <1>1, Dropped DEF Front

----------------------------------------------------------------------------
(* Going on. *)

\* What is known at a place.
LEMMA AtAPlace ==
  ASSUME BInv
  PROVE  /\ pc \in DOMAIN chunk.code /\ Len(stack) \in Nat /\ Len(iters) \in Nat
         /\ Proper(Op) /\ Served(Op, Len(stack), Len(iters))
         /\ \A way \in Ways(Op) :
              <<pc + way[1], Len(stack) - Operands(Op) + Results(Op), Len(iters) + way[2]>> \in Places[chunk]
<1> DEFINE p == <<pc, Len(stack), Len(iters)>>
<1>1. Verified(chunk.code, Places[chunk]) /\ p \in Places[chunk]
  BY PlacesVerify DEF BInv
<1>2. p \in (DOMAIN chunk.code) \X Nat \X Nat
  BY <1>1 DEF Verified
<1>3. p[1] = pc /\ p[2] = Len(stack) /\ p[3] = Len(iters)
  OBVIOUS
<1> HIDE DEF p
<1>4. LET op == chunk.code[p[1]] IN
       /\ Proper(op) /\ Served(op, p[2], p[3])
       /\ \A way \in Ways(op) :
            <<p[1] + way[1], p[2] - Operands(op) + Results(op), p[3] + way[2]>> \in Places[chunk]
  BY <1>1 DEF Verified
<1>5. QED
  BY <1>2, <1>3, <1>4 DEF Op, p

\* The places a run begins in.
LEMMA Beginning ==
  ASSUME chunk \in Chunk
  PROVE  <<1, 0, 0>> \in Places[chunk]
BY PlacesVerify DEF Verified

\* A step along one of an operation's ways.
LEMMA Onward ==
  ASSUME BInv, NEW way \in Ways(Op), chunk' = chunk, pc' = pc + way[1],
         IsSeq(stack'), Len(stack') = Len(stack) - Operands(Op) + Results(Op),
         IsSeq(iters'), Len(iters') = Len(iters) + way[2]
  PROVE  BInv'
<1>1. <<pc', Len(stack'), Len(iters')>> \in Places[chunk']
  BY AtAPlace
<1>2. QED
  BY <1>1 DEF BInv

\* Operations that go on to the next one and leave the iterators.
Plain(op) == Ways(op) = {<<1, 0>>}

\* A plain operation leads to the next one.
LEMMA PlainOnward ==
  ASSUME BInv, Plain(Op), chunk' = chunk, Step, iters' = iters,
         IsSeq(stack'), Len(stack') = Len(stack) - Operands(Op) + Results(Op)
  PROVE  BInv'
<1>1. <<1, 0>> \in Ways(Op) /\ <<1, 0>>[1] = 1 /\ <<1, 0>>[2] = 0
  BY DEF Plain
<1>2. pc' = pc + <<1, 0>>[1] /\ IsSeq(iters') /\ Len(iters') = Len(iters) + <<1, 0>>[2]
  BY <1>1, AtAPlace DEF Step, BInv
<1>3. QED
  BY <1>1, <1>2, Onward

\* An operation that replaces n operands by one value.
LEMMA Replacing ==
  ASSUME BInv, Plain(Op), chunk' = chunk, Step, iters' = iters,
         NEW n \in Nat, NEW v, Replaces(n, v), n <= Len(stack),
         Results(Op) - Operands(Op) = 1 - n, Operands(Op) \in Nat, Results(Op) \in Nat
  PROVE  BInv'
<1>1. IsSeq(Below(n)) /\ Len(Below(n)) = Len(stack) - n /\ Len(stack) \in Nat
  BY Dropped DEF Below, BInv
<1>2. IsSeq(stack') /\ Len(stack') = Len(stack) - n + 1
  BY <1>1, Appended DEF Replaces
<1>3. Len(stack') = Len(stack) - Operands(Op) + Results(Op)
  BY <1>1, <1>2
<1>4. QED
  BY <1>2, <1>3, PlainOnward

\* An operation that takes n operands.
LEMMA Taking ==
  ASSUME BInv, Plain(Op), chunk' = chunk, Step, iters' = iters,
         NEW n \in Nat, stack' = Below(n), Operands(Op) = n, Results(Op) = 0
  PROVE  BInv'
<1>1. n <= Len(stack)
  BY AtAPlace DEF Served
<1>2. IsSeq(Below(n)) /\ Len(Below(n)) = Len(stack) - n /\ Len(stack) \in Nat
  BY <1>1, Dropped DEF Below, BInv
<1>3. QED
  BY <1>2, PlainOnward

----------------------------------------------------------------------------
(* The operations' tables. *)

Makers == {"Const", "NewArr", "LoadQuiet", "LoadThisProp", "Load", "IssetSlot", "IssetThisProp"}
Changers == {"Not", "IsNull", "Cast", "Neg", "LoadIndexQuiet", "IssetIndex", "LoadIndex"}
Takers == {"Pop", "Store", "StoreThisProp", "ConcatAssign", "UnsetIndex", "StaticInit"}
Idlers == {"UnsetSlot", "UnsetThisProp", "BindGlobal", "Line"}

\* Makers take nothing and leave a value.
LEMMA MakersMake ==
  ASSUME NEW op, op[1] \in Makers
  PROVE  Operands(op) = 0 /\ Results(op) = 1 /\ Plain(op)
BY DEF Makers, Operands, Results, Ways, Plain

\* Changers leave a value for their operand.
LEMMA ChangersChange ==
  ASSUME NEW op, op[1] \in Changers
  PROVE  Operands(op) = 1 /\ Results(op) = 1 /\ Plain(op)
BY DEF Changers, Operands, Results, Ways, Plain

\* Takers take their operand.
LEMMA TakersTake ==
  ASSUME NEW op, op[1] \in Takers
  PROVE  Operands(op) = 1 /\ Results(op) = 0 /\ Plain(op)
BY DEF Takers, Operands, Results, Ways, Plain

\* Idlers leave the operands.
LEMMA IdlersIdle ==
  ASSUME NEW op, op[1] \in Idlers
  PROVE  Operands(op) = 0 /\ Results(op) = 0 /\ Plain(op)
BY DEF Idlers, Operands, Results, Ways, Plain

\* The others that go on to the next operation.
LEMMA OthersDo ==
  ASSUME NEW op
  PROVE  /\ op[1] = "Dup" => Operands(op) = 1 /\ Results(op) = 2 /\ Plain(op)
         /\ op[1] \in {"Bin", "ArrPush"} => Operands(op) = 2 /\ Results(op) = 1 /\ Plain(op)
         /\ op[1] = "ArrSet" => Operands(op) = 3 /\ Results(op) = 1 /\ Plain(op)
         /\ op[1] = "LoadPath" => Operands(op) = op[3] /\ Results(op) = 1 /\ Plain(op)
         /\ op[1] \in {"StorePath", "AppendPath"} =>
              Operands(op) = op[3] + 1 /\ Results(op) = 0 /\ Plain(op)
         /\ op[1] = "CallFn" => Operands(op) = op[2] /\ Results(op) = 1 /\ Plain(op)
         /\ op[1] = "Echo" => Operands(op) = op[2] /\ Results(op) = 0 /\ Plain(op)
BY DEF Operands, Results, Ways, Plain

\* Operations that have a way of their own.
LEMMA JumpsJump ==
  ASSUME NEW op
  PROVE  /\ op[1] = "Jmp" => Operands(op) = 0 /\ Ways(op) = {<<1 + op[2], 0>>}
         /\ op[1] \in {"JmpIfFalse", "JmpIfTrue"} =>
              Operands(op) = 1 /\ Ways(op) = {<<1, 0>>, <<1 + op[2], 0>>}
         /\ op[1] = "StaticCheck" => Operands(op) = 0 /\ Ways(op) = {<<1, 0>>, <<1 + op[3], 0>>}
         /\ op[1] = "IterInit" => Operands(op) = 0 /\ Ways(op) = {<<1, 1>>, <<1 + op[3], 0>>}
         /\ op[1] = "IterNext" => Operands(op) = 0 /\ Ways(op) = {<<1, 0>>, <<1 + op[4], -1>>}
         /\ op[1] = "PopIter" => Operands(op) = 0 /\ Ways(op) = {<<1, -1>>}
         /\ op[1] \in {"Jmp", "JmpIfFalse", "JmpIfTrue", "StaticCheck", "IterInit", "IterNext",
                       "PopIter"} => Results(op) = 0
BY DEF Operands, Results, Ways

----------------------------------------------------------------------------
(* Every operation keeps the machine at a place of its code. *)

\* Operations without operands that leave a value.
LEMMA MakersKeep ==
  ASSUME BInv, Op[1] \in Makers, NEW v, Replaces(0, v), Step, iters' = iters, chunk' = chunk
  PROVE  BInv'
<1>1. Operands(Op) = 0 /\ Results(Op) = 1 /\ Plain(Op)
  BY MakersMake
<1>2. 0 <= Len(stack)
  BY AtAPlace
<1>3. QED
  BY <1>1, <1>2, Replacing

\* Operations that replace their operand.
LEMMA ChangersKeep ==
  ASSUME BInv, Op[1] \in Changers, NEW v, Replaces(1, v), Step, iters' = iters, chunk' = chunk
  PROVE  BInv'
<1>1. Operands(Op) = 1 /\ Results(Op) = 1 /\ Plain(Op)
  BY ChangersChange
<1>2. 1 <= Len(stack)
  BY <1>1, AtAPlace DEF Served
<1>3. QED
  BY <1>1, <1>2, Replacing

\* Operations that leave a value.
LEMMA ValuesKeep ==
  ASSUME BInv,
         \/ PushConst \/ PushEmptyArray \/ LoadQuiet \/ LoadThisProp \/ Load \/ Dup \/ Bin
         \/ Not \/ IsNull \/ CastOp \/ Neg \/ ArrPushOp \/ ArrSet \/ IssetSlot \/ IssetThisProp
         \/ LoadIndexQuiet \/ IssetIndex \/ LoadIndex \/ LoadPath \/ CallFn
  PROVE  BInv'
<1> USE DEF Computes, At, fixed
<1>1. CASE PushConst \/ PushEmptyArray \/ LoadQuiet \/ LoadThisProp \/ IssetSlot \/ IssetThisProp
  <2>1. \E v : Computes(0, v)
    BY <1>1 DEF PushConst, PushEmptyArray, LoadQuiet, LoadThisProp, IssetSlot, IssetThisProp
  <2>2. Op[1] \in Makers
    BY <1>1 DEF PushConst, PushEmptyArray, LoadQuiet, LoadThisProp, IssetSlot, IssetThisProp, Makers
  <2>3. QED
    BY <2>1, <2>2, MakersKeep
<1>2. CASE Load
  <2>1. Op[1] \in Makers
    BY <1>2 DEF Load, Makers
  <2>2. QED
    BY <1>2, <2>1, MakersKeep DEF Load
<1>3. CASE Not \/ IsNull \/ CastOp \/ Neg \/ LoadIndexQuiet \/ IssetIndex
  <2>1. \E v : Computes(1, v)
    BY <1>3 DEF Not, IsNull, CastOp, Neg, LoadIndexQuiet, IssetIndex
  <2>2. Op[1] \in Changers
    BY <1>3 DEF Not, IsNull, CastOp, Neg, LoadIndexQuiet, IssetIndex, Changers
  <2>3. QED
    BY <2>1, <2>2, ChangersKeep
<1>4. CASE LoadIndex
  <2>1. Op[1] \in Changers
    BY <1>4 DEF LoadIndex, Changers
  <2>2. QED
    BY <1>4, <2>1, ChangersKeep DEF LoadIndex
<1>5. CASE Dup
  <2>1. Operands(Op) = 1 /\ Results(Op) = 2 /\ Plain(Op)
    BY <1>5, OthersDo DEF Dup
  <2>2. 0 <= Len(stack)
    BY AtAPlace
  <2>3. Computes(0, Arg(1))
    BY <1>5 DEF Dup
  <2>4. QED
    BY <2>1, <2>2, <2>3, Replacing
<1>6. CASE Bin \/ ArrPushOp
  <2>1. Operands(Op) = 2 /\ Results(Op) = 1 /\ Plain(Op)
    BY <1>6, OthersDo DEF Bin, ArrPushOp
  <2>2. 2 <= Len(stack)
    BY <2>1, AtAPlace DEF Served
  <2>3. \E v : Computes(2, v)
    BY <1>6 DEF Bin, ArrPushOp
  <2>4. QED
    BY <2>1, <2>2, <2>3, Replacing
<1>7. CASE ArrSet
  <2>1. Operands(Op) = 3 /\ Results(Op) = 1 /\ Plain(Op)
    BY <1>7, OthersDo DEF ArrSet
  <2>2. 3 <= Len(stack)
    BY <2>1, AtAPlace DEF Served
  <2>3. \E v : Computes(3, v)
    BY <1>7 DEF ArrSet
  <2>4. QED
    BY <2>1, <2>2, <2>3, Replacing
<1>8. CASE LoadPath
  <2>1. Op[1] = "LoadPath" /\ Step /\ iters' = iters /\ chunk' = chunk
        /\ \E v : Replaces(Op[3], v)
    BY <1>8 DEF LoadPath
  <2>2. Operands(Op) = Op[3] /\ Results(Op) = 1 /\ Plain(Op) /\ Op[3] \in Nat
    BY <2>1, OthersDo, AtAPlace DEF Proper
  <2>3. Op[3] <= Len(stack)
    BY <2>2, AtAPlace DEF Served
  <2>4. QED
    BY <2>1, <2>2, <2>3, Replacing
<1>9. CASE CallFn
  <2>1. Op[1] = "CallFn" /\ Step /\ iters' = iters /\ chunk' = chunk
        /\ \E v : Replaces(Op[2], v)
    BY <1>9 DEF CallFn
  <2>2. Operands(Op) = Op[2] /\ Results(Op) = 1 /\ Plain(Op) /\ Op[2] \in Nat
    BY <2>1, OthersDo, AtAPlace DEF Proper
  <2>3. Op[2] <= Len(stack)
    BY <2>2, AtAPlace DEF Served
  <2>4. QED
    BY <2>1, <2>2, <2>3, Replacing
<1>10. QED
  BY <1>1, <1>2, <1>3, <1>4, <1>5, <1>6, <1>7, <1>8, <1>9

\* Operations that take operands, or none.
LEMMA StoresKeep ==
  ASSUME BInv,
         \/ Pop \/ Store \/ StoreThisProp \/ ConcatAssign \/ StorePath \/ UnsetIndex \/ UnsetSlot
         \/ UnsetThisProp \/ BindGlobal \/ StaticInit \/ Line \/ Echo
  PROVE  BInv'
<1> USE DEF At, fixed
<1>1. CASE Pop \/ Store \/ StoreThisProp \/ ConcatAssign \/ UnsetIndex \/ StaticInit
  <2>1. stack' = Below(1) /\ Step /\ iters' = iters /\ chunk' = chunk
    BY <1>1 DEF Pop, Store, StoreThisProp, ConcatAssign, UnsetIndex, StaticInit
  <2>2. Op[1] \in Takers
    BY <1>1 DEF Pop, Store, StoreThisProp, ConcatAssign, UnsetIndex, StaticInit, Takers
  <2>3. Operands(Op) = 1 /\ Results(Op) = 0 /\ Plain(Op)
    BY <2>2, TakersTake
  <2>4. QED
    BY <2>1, <2>3, Taking
<1>2. CASE UnsetSlot \/ UnsetThisProp \/ BindGlobal \/ Line
  <2>1. stack' = stack /\ Step /\ iters' = iters /\ chunk' = chunk
    BY <1>2 DEF UnsetSlot, UnsetThisProp, BindGlobal, Line
  <2>2. Op[1] \in Idlers
    BY <1>2 DEF UnsetSlot, UnsetThisProp, BindGlobal, Line, Idlers
  <2>3. Operands(Op) = 0 /\ Results(Op) = 0 /\ Plain(Op) /\ Len(stack) \in Nat
    BY <2>2, IdlersIdle, AtAPlace
  <2>4. IsSeq(stack') /\ Len(stack') = Len(stack) - Operands(Op) + Results(Op)
    BY <2>1, <2>3 DEF BInv
  <2>5. QED
    BY <2>1, <2>3, <2>4, PlainOnward
<1>3. CASE StorePath
  <2>1. /\ Op[1] \in {"StorePath", "AppendPath"} /\ Step /\ iters' = iters /\ chunk' = chunk
        /\ stack' = Below(Op[3] + 1)
    BY <1>3 DEF StorePath
  <2>2. Operands(Op) = Op[3] + 1 /\ Results(Op) = 0 /\ Plain(Op) /\ Op[3] \in Nat
    BY <2>1, OthersDo, AtAPlace DEF Proper
  <2>3. QED
    BY <2>1, <2>2, Taking
<1>4. CASE Echo
  <2>1. Op[1] = "Echo" /\ Step /\ iters' = iters /\ chunk' = chunk /\ stack' = Below(Op[2])
    BY <1>4 DEF Echo
  <2>2. Operands(Op) = Op[2] /\ Results(Op) = 0 /\ Plain(Op) /\ Op[2] \in Nat
    BY <2>1, OthersDo, AtAPlace DEF Proper
  <2>3. QED
    BY <2>1, <2>2, Taking
<1>5. QED
  BY <1>1, <1>2, <1>3, <1>4

\* An operation that leaves the iterators and goes one of its ways.
LEMMA Leading ==
  ASSUME BInv, chunk' = chunk, NEW d, <<d, 0>> \in Ways(Op), pc' = pc + d, iters' = iters,
         IsSeq(stack'), Len(stack') = Len(stack) - Operands(Op) + Results(Op)
  PROVE  BInv'
<1>1. pc' = pc + <<d, 0>>[1] /\ IsSeq(iters') /\ Len(iters') = Len(iters) + <<d, 0>>[2]
  BY AtAPlace DEF BInv
<1>2. QED
  BY <1>1, Onward

\* Jumps and the check of a static variable.
LEMMA JumpsKeep ==
  ASSUME BInv, Jmp \/ JmpIf \/ StaticCheck
  PROVE  BInv'
<1> USE DEF At, fixed
<1>0. Len(stack) \in Nat /\ IsSeq(stack)
  BY AtAPlace DEF BInv
<1>1. CASE Jmp
  <2>1. Op[1] = "Jmp" /\ pc' = pc + (1 + Op[2]) /\ stack' = stack /\ iters' = iters /\ chunk' = chunk
    BY <1>1 DEF Jmp, Jumps
  <2>2. Operands(Op) = 0 /\ Results(Op) = 0 /\ <<1 + Op[2], 0>> \in Ways(Op)
    BY <2>1, JumpsJump
  <2>3. QED
    BY <1>0, <2>1, <2>2, Leading
<1>2. CASE JmpIf
  <2>1. /\ Op[1] \in {"JmpIfFalse", "JmpIfTrue"} /\ stack' = Below(1) /\ iters' = iters
        /\ chunk' = chunk /\ (pc' = pc + 1 \/ pc' = pc + (1 + Op[2]))
    BY <1>2 DEF JmpIf, Jumps, Step
  <2>2. Operands(Op) = 1 /\ Results(Op) = 0 /\ <<1 + Op[2], 0>> \in Ways(Op) /\ <<1, 0>> \in Ways(Op)
    BY <2>1, JumpsJump
  <2>3. 1 <= Len(stack)
    BY <2>2, AtAPlace DEF Served
  <2>4. IsSeq(stack') /\ Len(stack') = Len(stack) - Operands(Op) + Results(Op)
    <3>1. IsSeq(Below(1)) /\ Len(Below(1)) = Len(stack) - 1
      BY <1>0, <2>3, Dropped DEF Below
    <3>2. QED
      BY <1>0, <2>1, <2>2, <3>1
  <2>5. CASE pc' = pc + 1
    BY <2>1, <2>2, <2>4, <2>5, Leading
  <2>6. CASE pc' = pc + (1 + Op[2])
    BY <2>1, <2>2, <2>4, <2>6, Leading
  <2>7. QED
    BY <2>1, <2>5, <2>6
<1>3. CASE StaticCheck
  <2>1. /\ Op[1] = "StaticCheck" /\ stack' = stack /\ iters' = iters /\ chunk' = chunk
        /\ (pc' = pc + 1 \/ pc' = pc + (1 + Op[3]))
    BY <1>3 DEF StaticCheck, Jumps, Step
  <2>2. Operands(Op) = 0 /\ Results(Op) = 0 /\ <<1 + Op[3], 0>> \in Ways(Op) /\ <<1, 0>> \in Ways(Op)
    BY <2>1, JumpsJump
  <2>3. CASE pc' = pc + 1
    BY <1>0, <2>1, <2>2, <2>3, Leading
  <2>4. CASE pc' = pc + (1 + Op[3])
    BY <1>0, <2>1, <2>2, <2>4, Leading
  <2>5. QED
    BY <2>1, <2>3, <2>4
<1>4. QED
  BY <1>1, <1>2, <1>3

\* Operations on iterators: they leave the operands.
LEMMA IteratorsKeep ==
  ASSUME BInv, IterInit \/ IterBind \/ IterDone \/ PopIter
  PROVE  BInv'
<1> USE DEF At, fixed
<1>0. /\ Len(stack) \in Nat /\ Len(iters) \in Nat /\ IsSeq(stack) /\ IsSeq(iters)
  BY AtAPlace DEF BInv
<1>1. ASSUME NEW way \in Ways(Op), pc' = pc + way[1], IsSeq(iters'),
             Len(iters') = Len(iters) + way[2], Operands(Op) = 0, Results(Op) = 0,
             chunk' = chunk, stack' = stack
      PROVE  BInv'
  <2>1. IsSeq(stack') /\ Len(stack') = Len(stack) - Operands(Op) + Results(Op)
    BY <1>0, <1>1
  <2>2. QED
    BY <1>1, <2>1, Onward
<1>2. CASE IterInit
  <2>1. /\ Op[1] = "IterInit" /\ chunk' = chunk /\ stack' = stack
        /\ \/ pc' = pc + 1 /\ \E it : iters' = Append(iters, it)
           \/ pc' = pc + (1 + Op[3]) /\ iters' = iters
    BY <1>2 DEF IterInit, Jumps, Step
  <2>2. Operands(Op) = 0 /\ Results(Op) = 0 /\ <<1, 1>> \in Ways(Op) /\ <<1 + Op[3], 0>> \in Ways(Op)
    BY <2>1, JumpsJump
  <2>3. CASE pc' = pc + 1 /\ \E it : iters' = Append(iters, it)
    <3>1. IsSeq(iters') /\ Len(iters') = Len(iters) + <<1, 1>>[2] /\ pc' = pc + <<1, 1>>[1]
      BY <1>0, <2>3, Appended
    <3>2. QED
      BY <1>1, <2>1, <2>2, <3>1
  <2>4. CASE pc' = pc + (1 + Op[3]) /\ iters' = iters
    BY <1>0, <2>1, <2>2, <2>4, Leading
  <2>5. QED
    BY <2>1, <2>3, <2>4
<1>3. CASE IterBind
  <2>1. /\ Op[1] = "IterNext" /\ chunk' = chunk /\ stack' = stack /\ pc' = pc + 1
        /\ \E it : iters' = [iters EXCEPT ![Len(iters)] = it]
    BY <1>3 DEF IterBind, Step
  <2>2. Operands(Op) = 0 /\ Results(Op) = 0 /\ <<1, 0>> \in Ways(Op)
    BY <2>1, JumpsJump
  <2>3. IsSeq(iters') /\ Len(iters') = Len(iters)
    <3>1. PICK it : iters' = [iters EXCEPT ![Len(iters)] = it]
      BY <2>1
    <3>2. PICK S : iters \in Seq(S)
      BY <1>0 DEF IsSeq
    <3>3. iters \in Seq(S \cup {it}) /\ it \in S \cup {it}
      BY <3>2
    <3>4. Len(iters) > 0
      BY <2>1, AtAPlace DEF Served
    <3>5. iters' \in Seq(S \cup {it}) /\ Len(iters') = Len(iters)
      BY <1>0, <3>1, <3>3, <3>4, ExceptSeq
    <3>6. QED
      BY <3>5 DEF IsSeq
  <2>4. Len(iters') = Len(iters) + <<1, 0>>[2] /\ pc' = pc + <<1, 0>>[1]
    BY <1>0, <2>1, <2>3
  <2>5. QED
    BY <1>1, <2>1, <2>2, <2>3, <2>4
<1>4. CASE IterDone
  <2>1. /\ Op[1] = "IterNext" /\ chunk' = chunk /\ stack' = stack /\ pc' = pc + (1 + Op[4])
        /\ iters' = Front(iters)
    BY <1>4 DEF IterDone, Jumps
  <2>2. Operands(Op) = 0 /\ Results(Op) = 0 /\ <<1 + Op[4], -1>> \in Ways(Op)
    BY <2>1, JumpsJump
  <2>3. Len(iters) > 0
    BY <2>1, AtAPlace DEF Served
  <2>4. IsSeq(iters') /\ Len(iters') = Len(iters) - 1
    BY <1>0, <2>1, <2>3, Fronted
  <2>5. Len(iters') = Len(iters) + <<1 + Op[4], -1>>[2] /\ pc' = pc + <<1 + Op[4], -1>>[1]
    BY <1>0, <2>1, <2>4
  <2>6. QED
    BY <1>1, <2>1, <2>2, <2>4, <2>5
<1>5. CASE PopIter
  <2>1. /\ Op[1] = "PopIter" /\ chunk' = chunk /\ stack' = stack /\ pc' = pc + 1
        /\ iters' = Front(iters)
    BY <1>5 DEF PopIter, Step
  <2>2. Operands(Op) = 0 /\ Results(Op) = 0 /\ <<1, -1>> \in Ways(Op)
    BY <2>1, JumpsJump
  <2>3. Len(iters) > 0
    BY <2>1, AtAPlace DEF Served
  <2>4. IsSeq(iters') /\ Len(iters') = Len(iters) - 1
    BY <1>0, <2>1, <2>3, Fronted
  <2>5. Len(iters') = Len(iters) + <<1, -1>>[2] /\ pc' = pc + <<1, -1>>[1]
    BY <1>0, <2>1, <2>4
  <2>6. QED
    BY <1>1, <2>1, <2>2, <2>4, <2>5
<1>6. QED
  BY <1>2, <1>3, <1>4, <1>5

\* The next call begins at the start of the code with nothing on the stacks.
LEMMA ReturnKeeps ==
  ASSUME BInv, Return
  PROVE  BInv'
<1>1. /\ chunk' = chunk /\ chunk \in Chunk /\ pc' = 1 /\ stack' = <<>> /\ iters' = <<>>
  BY DEF Return, BInv
<1>2. IsSeq(<<>>) /\ Len(<<>>) = 0
  <2>1. <<>> \in Seq({}) /\ Len(<<>>) = 0
    OBVIOUS
  <2>2. QED
    BY <2>1 DEF IsSeq
<1>3. <<1, 0, 0>> \in Places[chunk']
  BY <1>1, Beginning
<1>4. QED
  BY <1>1, <1>2, <1>3 DEF BInv

\* Every run begins at a place of its code.
LEMMA InitBInv == Init => BInv
<1>1. SUFFICES ASSUME Init PROVE BInv
  OBVIOUS
<1>2. chunk \in Chunk /\ pc = 1 /\ stack = <<>> /\ iters = <<>>
  BY <1>1 DEF Init
<1>3. IsSeq(<<>>) /\ Len(<<>>) = 0
  <2>1. <<>> \in Seq({}) /\ Len(<<>>) = 0
    OBVIOUS
  <2>2. QED
    BY <2>1 DEF IsSeq
<1>4. <<1, 0, 0>> \in Places[chunk]
  BY <1>2, Beginning
<1>5. QED
  BY <1>2, <1>3, <1>4 DEF BInv

\* No step leaves the places of its code.
LEMMA StepBInv == BInv /\ [Next]_vars => BInv'
<1>1. SUFFICES ASSUME BInv, [Next]_vars PROVE BInv'
  OBVIOUS
<1>2. CASE UNCHANGED vars
  BY <1>1, <1>2 DEF vars, BInv
<1>3. CASE Next
  BY <1>1, <1>3, ValuesKeep, StoresKeep, JumpsKeep, IteratorsKeep, ReturnKeeps DEF Next
<1>4. QED
  BY <1>1, <1>2, <1>3

\* Whatever the code and the values in it: if the code is Verified,
\* no operation finds too few operands or iterators, and at every line mark
\* there are exactly the iterators of the enclosing foreach loops and no
\* operand.  The machine itself checks none of this: a pop of an empty stack
\* reads as null and IterNext without an iterator panics.
THEOREM OperandsAreThere == Spec => []StacksBalance
<1>1. BInv => StacksBalance
  BY AtAPlace DEF StacksBalance
<1>2. QED
  BY <1>1, InitBInv, StepBInv, PTL DEF Spec
----------------------------------------------------------------------------
(* Slots that are not assigned. *)

UInv == BInv /\ slots = [x \in Slot |-> slots[x]] /\ UnassignedIsNull

\* A slot is assigned what is stored in it, and keeps its place among Slot.
LEMMA Assigning ==
  ASSUME UInv, NEW x, NEW v, slots' = [slots EXCEPT ![x] = v], assigned' = assigned \cup {x}
  PROVE  slots' = [y \in Slot |-> slots'[y]] /\ UnassignedIsNull'
<1>1. DOMAIN slots = Slot
  BY DEF UInv
<1>2. slots' = [y \in Slot |-> IF y = x THEN v ELSE slots[y]]
  BY <1>1
<1>3. \A y \in Slot \ assigned' : slots'[y] = Null
  BY <1>2 DEF UInv, UnassignedIsNull
<1>4. QED
  BY <1>2, <1>3 DEF UnassignedIsNull

\* Storing in a slot or through its cell.
LEMMA StoreAssigns ==
  ASSUME UInv, NEW x, NEW v, StoreSlot(x, v)
  PROVE  slots' = [y \in Slot |-> slots'[y]] /\ UnassignedIsNull'
<1>1. CASE InCell(x)
  BY <1>1 DEF StoreSlot, UInv, UnassignedIsNull
<1>2. CASE ~InCell(x)
  BY <1>2, Assigning DEF StoreSlot
<1>3. QED
  BY <1>1, <1>2

\* Storing in a variable or a property of $this.
LEMMA RootAssigns ==
  ASSUME UInv, NEW root, root[1] \in {"var", "prop"}, NEW v, StoreRoot(root, v)
  PROVE  slots' = [y \in Slot |-> slots'[y]] /\ UnassignedIsNull'
<1>1. CASE root[1] = "var"
  BY <1>1, StoreAssigns DEF StoreRoot
<1>2. CASE root[1] = "prop"
  BY <1>2 DEF StoreRoot, frame, UInv, UnassignedIsNull
<1>3. QED
  BY <1>1, <1>2

\* No step leaves a value in a slot that is not assigned.
LEMMA StepUInv == UInv /\ [Next]_vars => UInv'
<1>1. SUFFICES ASSUME UInv, [Next]_vars
      PROVE slots' = [y \in Slot |-> slots'[y]] /\ UnassignedIsNull'
  BY StepBInv DEF UInv
<1>2. BInv
  BY <1>1 DEF UInv
<1>3. ASSUME UNCHANGED frame
      PROVE  slots' = [y \in Slot |-> slots'[y]] /\ UnassignedIsNull'
  BY <1>1, <1>3 DEF UInv, UnassignedIsNull, frame
<1>4. CASE UNCHANGED vars
  BY <1>3, <1>4 DEF vars, frame
<1>5. CASE \/ PushConst \/ PushEmptyArray \/ LoadQuiet \/ LoadThisProp \/ Load \/ Dup \/ Pop \/ Bin
           \/ Not \/ IsNull \/ CastOp \/ Neg \/ ArrPushOp \/ ArrSet \/ IssetSlot \/ IssetThisProp
  BY <1>3, <1>5 DEF PushConst, PushEmptyArray, LoadQuiet, LoadThisProp, Load, Dup, Pop, Bin, Not,
     IsNull, CastOp, Neg, ArrPushOp, ArrSet, IssetSlot, IssetThisProp, Computes
<1>6. CASE \/ LoadIndexQuiet \/ IssetIndex \/ LoadIndex \/ LoadPath \/ UnsetThisProp
           \/ Jmp \/ JmpIf \/ IterInit \/ IterDone \/ PopIter \/ Line \/ CallFn \/ Echo
  BY <1>3, <1>6 DEF LoadIndexQuiet, IssetIndex, LoadIndex, LoadPath, UnsetThisProp, Jmp, JmpIf,
     IterInit, IterDone, PopIter, Line, CallFn, Echo, Computes
<1>7. CASE Store \/ ConcatAssign
  BY <1>1, <1>7, StoreAssigns DEF Store, ConcatAssign
<1>8. CASE StoreThisProp
  <2>1. <<"prop", Op[2]>>[1] = "prop"
    OBVIOUS
  <2>2. QED
    BY <1>1, <1>8, <2>1, RootAssigns DEF StoreThisProp
<1>9. CASE StorePath
  <2>1. Op[2][1] \in {"var", "prop"}
    BY <1>2, <1>9, AtAPlace DEF StorePath, At, Proper
  <2>2. \E v : StoreRoot(Op[2], v)
    BY <1>9 DEF StorePath
  <2>3. QED
    BY <1>1, <2>1, <2>2, RootAssigns
<1>10. CASE UnsetIndex
  <2>1. UNCHANGED frame \/ \E v : StoreRoot(Op[2], v)
    BY <1>10 DEF UnsetIndex
  <2>2. Op[2][1] \in {"var", "prop"}
    BY <1>2, <1>10, AtAPlace DEF UnsetIndex, At, Proper
  <2>3. QED
    BY <1>1, <1>3, <2>1, <2>2, RootAssigns
<1>11. CASE UnsetSlot
  <2>1. slots' = [slots EXCEPT ![Op[2]] = Null] /\ assigned' = assigned \ {Op[2]}
    BY <1>11 DEF UnsetSlot
  <2>2. slots' = [y \in Slot |-> IF y = Op[2] THEN Null ELSE slots[y]]
    BY <1>1, <2>1 DEF UInv
  <2>3. \A y \in Slot \ assigned' : slots'[y] = Null
    BY <1>1, <2>1, <2>2 DEF UInv, UnassignedIsNull
  <2>4. QED
    BY <2>2, <2>3 DEF UnassignedIsNull
<1>12. CASE BindGlobal \/ StaticCheck \/ StaticInit
  <2>1. \/ UNCHANGED frame
        \/ \E v : slots' = [slots EXCEPT ![Op[2]] = v] /\ assigned' = assigned \cup {Op[2]}
    BY <1>12 DEF BindGlobal, StaticCheck, StaticInit, BindSlot
  <2>2. QED
    BY <1>1, <1>3, <2>1, Assigning
<1>13. CASE IterBind
  <2>1. /\ assigned' = assigned \cup ({Op[2], Op[3]} \cap Slot)
        /\ slots' = [y \in Slot |-> slots'[y]]
        /\ \A y \in Slot : y \notin {Op[2], Op[3]} \cap Slot => slots'[y] = slots[y]
    BY <1>13 DEF IterBind
  <2>2. \A y \in Slot \ assigned' : slots'[y] = Null
    BY <1>1, <2>1 DEF UInv, UnassignedIsNull
  <2>3. QED
    BY <2>1, <2>2 DEF UnassignedIsNull
<1>14. CASE Return
  BY <1>14 DEF Return, UnassignedIsNull
<1>15. QED
  BY <1>1, <1>4, <1>5, <1>6, <1>7, <1>8, <1>9, <1>10, <1>11, <1>12, <1>13, <1>14 DEF Next

\* A slot that is not assigned reads as null, whatever the code did before:
\* the quiet loads, which check nothing, depend on it.
THEOREM UnassignedReadsNull == Spec => []UnassignedIsNull
<1>1. Init => UInv
  BY InitBInv DEF Init, UInv, UnassignedIsNull
<1>2. UInv => UnassignedIsNull
  BY DEF UInv
<1>3. QED
  BY <1>1, <1>2, StepUInv, PTL DEF Spec

----------------------------------------------------------------------------
(* Values and references. *)

IterFits(it) == IsEntries(it.entries) /\ it.next \in 1..(Len(it.entries) + 1)
SlotFits(v, names) == IsValue(v) \/ \E c \in names : v = Ref(c)

StackFits == \A i \in 1..Len(stack) : IsValue(stack[i])
ItersFit == \A i \in 1..Len(iters) : IterFits(iters[i])
SlotsFit == \A x \in Slot : SlotFits(slots[x], DOMAIN cells)
CellsFit == \A c \in DOMAIN cells : IsValue(cells[c])
ThisFits == \A p \in DOMAIN this : IsValue(this[p])

\* Only slots hold references, and what they refer to is there.
TInv == UInv /\ assigned \subseteq Slot /\ StackFits /\ ItersFit /\ SlotsFit /\ CellsFit /\ ThisFits

\* Operands that are there are values.
LEMMA OperandsAreValues ==
  ASSUME TInv, NEW n \in Nat, n <= Len(stack)
  PROVE  /\ n > 0 => IsValue(Arg(n))
         /\ Len(Args(n)) = n /\ \A i \in 1..n : IsValue(Args(n)[i])
         /\ IsSeq(Below(n)) /\ Len(Below(n)) = Len(stack) - n
         /\ \A i \in 1..Len(Below(n)) : IsValue(Below(n)[i])
<1>1. BInv /\ IsSeq(stack) /\ Len(stack) \in Nat
  BY AtAPlace DEF TInv, UInv, BInv
<1>2. PICK S : stack \in Seq(S)
  BY <1>1 DEF IsSeq
<1> DEFINE k == Len(stack)
<1>3. \A i \in 1..k : stack[i] \in S /\ IsValue(stack[i])
  BY <1>2 DEF TInv, StackFits
<1> HIDE DEF k
<1>4. k \in Nat /\ n <= k
  BY <1>1 DEF k
<1>5. n > 0 => IsValue(Arg(n))
  BY <1>3, <1>4 DEF Arg, k
<1>6. /\ Len(SubSeq(stack, k - n + 1, k)) = n
      /\ \A i \in 1..n : SubSeq(stack, k - n + 1, k)[i] = stack[k - n + 1 + i - 1]
  <2>1. k - n + 1 \in Int /\ k \in Int /\ \A i \in (k - n + 1)..k : stack[i] \in S
    BY <1>3, <1>4
  <2>2. k - (k - n + 1) + 1 = n /\ (n > 0 => k - n + 1 <= k)
    BY <1>4
  <2>3. QED
    BY <1>4, <2>1, <2>2, SubSeqProperties
<1>7. \A i \in 1..n : k - n + 1 + i - 1 \in 1..k
  BY <1>4
<1>8. Len(Args(n)) = n /\ \A i \in 1..n : IsValue(Args(n)[i])
  BY <1>3, <1>6, <1>7 DEF Args, k
<1>9. /\ SubSeq(stack, 1, k - n) \in Seq(S) /\ Len(SubSeq(stack, 1, k - n)) = k - n
      /\ \A i \in 1..(k - n) : SubSeq(stack, 1, k - n)[i] = stack[1 + i - 1]
  <2>1. k - n \in Int /\ 1 \in Int /\ \A i \in 1..(k - n) : stack[i] \in S
    BY <1>3, <1>4
  <2>2. QED
    BY <1>4, <2>1, SubSeqProperties
<1>10. \A i \in 1..(k - n) : 1 + i - 1 \in 1..k
  BY <1>4
<1>11. \A i \in 1..(k - n) : IsValue(SubSeq(stack, 1, k - n)[i])
  BY <1>3, <1>9, <1>10
<1>12. QED
  BY <1>5, <1>8, <1>9, <1>11 DEF Below, k, IsSeq

\* A value in place of n operands.
LEMMA ValueOnStack ==
  ASSUME TInv, NEW n \in Nat, n <= Len(stack), NEW v, IsValue(v), Replaces(n, v)
  PROVE  StackFits'
<1> DEFINE b == Below(n)
<1>1. IsSeq(b) /\ \A i \in 1..Len(b) : IsValue(b[i])
  BY OperandsAreValues
<1>2. stack' = Append(b, v)
  BY DEF Replaces
<1> HIDE DEF b
<1>3. PICK S : b \in Seq(S)
  BY <1>1 DEF IsSeq
<1>4. /\ Len(b) \in Nat /\ Len(Append(b, v)) = Len(b) + 1
      /\ \A i \in 1..Len(b) : Append(b, v)[i] = b[i]
      /\ Append(b, v)[Len(b) + 1] = v
  BY <1>3
<1>5. \A i \in 1..Len(Append(b, v)) : IsValue(Append(b, v)[i])
  <2>1. ASSUME NEW i \in 1..Len(Append(b, v)) PROVE IsValue(Append(b, v)[i])
    <3>1. i \in 1..Len(b) \/ i = Len(b) + 1
      BY <1>4
    <3>2. QED
      BY <1>1, <1>4, <3>1
  <2>2. QED
    BY <2>1
<1>6. QED
  BY <1>2, <1>5 DEF StackFits

\* What a slot holds or refers to.
LEMMA SlotValueIsValue ==
  ASSUME TInv, NEW x \in Slot
  PROVE  /\ IsValue(SlotValue(x))
         /\ InCell(x) => slots[x] = Ref(slots[x][2]) /\ slots[x][2] \in DOMAIN cells
<1>1. IsValue(slots[x]) \/ \E c \in DOMAIN cells : slots[x] = Ref(c)
  BY DEF TInv, SlotsFit, SlotFits
<1>2. CASE IsValue(slots[x])
  BY <1>2, KindOfValue DEF InCell, SlotValue
<1>3. ASSUME NEW c \in DOMAIN cells, slots[x] = Ref(c)
      PROVE  IsValue(SlotValue(x)) /\ slots[x] = Ref(slots[x][2]) /\ slots[x][2] \in DOMAIN cells
  <2>1. slots[x][2] = c /\ InCell(x)
    BY <1>3 DEF Ref, InCell, IsKind
  <2>2. IsValue(cells[c])
    BY DEF TInv, CellsFit
  <2>3. QED
    BY <1>3, <2>1, <2>2 DEF SlotValue
<1>4. QED
  BY <1>1, <1>2, <1>3

\* What a variable or a property of $this holds is a value.
LEMMA RootIsValue ==
  ASSUME TInv, NEW root, IsRoot(root)
  PROVE  IsValue(RootValue(root))
<1>1. CASE root[1] = "var"
  BY <1>1, SlotValueIsValue DEF RootValue, IsRoot
<1>2. CASE root[1] = "prop"
  BY <1>2, ScalarsAreValues DEF RootValue, TInv, ThisFits
<1>3. QED
  BY <1>1, <1>2 DEF IsRoot

\* An element, a character, or null.
LEMMA IndexIsValue ==
  ASSUME TInv, NEW root, IsRoot(root), NEW key
  PROVE  IsValue(IndexValue(root, key))
<1>1. IsValue(RootValue(root))
  BY RootIsValue
<1>2. \/ IndexValue(root, key) = Null
      \/ \E s : IndexValue(root, key) = StrVal(s)
      \/ \E k : HasKey(RootValue(root), k) /\ IndexValue(root, key) = Elem(RootValue(root), k)
  BY DEF IndexValue, Offset, StringChar, CharAt
<1>3. QED
  BY <1>1, <1>2, ScalarsAreValues, ElementIsValue

\* The values LoadPath leaves.
LEMMA PathIsValue ==
  ASSUME TInv, NEW root, IsRoot(root), NEW S, NEW path \in Seq(S)
  PROVE  IsValue(ReadPath(ReadPath(RootValue(root), Front(path)), <<Last(path)>>))
<1>1. Len(Front(path)) \in Nat
  <2>1. Len(path) - 1 \in Int /\ \A i \in 1..(Len(path) - 1) : path[i] \in S
    OBVIOUS
  <2>2. SubSeq(path, 1, Len(path) - 1) \in Seq(S)
    BY <2>1, SubSeqProperties
  <2>3. QED
    BY <2>2 DEF Front
<1>2. IsValue(ReadPath(RootValue(root), Front(path)))
  BY <1>1, RootIsValue, ReadIsValue
<1>3. Len(<<Last(path)>>) \in Nat
  OBVIOUS
<1>4. QED
  BY <1>2, <1>3, ReadIsValue

----------------------------------------------------------------------------
(* Every operation leaves values. *)

\* What an operation needs is there.
LEMMA Needed ==
  ASSUME TInv
  PROVE  Proper(Op) /\ Operands(Op) <= Len(stack) /\ Len(stack) \in Nat
BY AtAPlace DEF TInv, UInv, Served

\* Operations without operands.
LEMMA MadeIsValue ==
  ASSUME TInv,
         PushConst \/ PushEmptyArray \/ LoadQuiet \/ LoadThisProp \/ Load \/ IssetSlot \/ IssetThisProp
  PROVE  StackFits'
<1> USE DEF Computes, At
<1>1. ASSUME NEW v, Replaces(0, v), IsValue(v) PROVE StackFits'
  BY <1>1, Needed, ValueOnStack
<1>2. CASE PushConst
  <2>1. Op[2] \in Literal
    BY <1>2, Needed DEF PushConst, Proper
  <2>2. IsValue(Op[2])
    BY <2>1, LiteralsAreValues DEF IsValue
  <2>3. QED
    BY <1>1, <1>2, <2>2 DEF PushConst
<1>3. CASE PushEmptyArray
  BY <1>1, <1>3, EmptyIsValue DEF PushEmptyArray
<1>4. CASE LoadQuiet \/ Load
  <2>1. Op[2] \in Slot /\ Replaces(0, SlotValue(Op[2]))
    BY <1>4, Needed DEF Load, LoadQuiet, Proper
  <2>2. QED
    BY <1>1, <2>1, SlotValueIsValue
<1>5. CASE LoadThisProp
  <2>1. IsRoot(<<"prop", Op[2]>>)
    BY DEF IsRoot
  <2>2. QED
    BY <1>1, <1>5, <2>1, RootIsValue DEF LoadThisProp
<1>6. CASE IssetSlot \/ IssetThisProp
  BY <1>1, <1>6, ScalarsAreValues DEF IssetSlot, IssetThisProp
<1>7. QED
  BY <1>2, <1>3, <1>4, <1>5, <1>6

\* Operations with one operand that leave a value.
LEMMA ChangedIsValue ==
  ASSUME TInv,
         Dup \/ Not \/ IsNull \/ CastOp \/ Neg \/ LoadIndexQuiet \/ IssetIndex \/ LoadIndex
  PROVE  StackFits'
<1> USE DEF Computes, At
<1>0. 1 <= Len(stack) /\ IsValue(Arg(1))
  <2>1. Op[1] \in Changers \/ Op[1] = "Dup"
    BY DEF Dup, Not, IsNull, CastOp, Neg, LoadIndexQuiet, IssetIndex, LoadIndex, Changers
  <2>2. Operands(Op) = 1
    BY <2>1, ChangersChange, OthersDo
  <2>3. QED
    BY <2>2, Needed, OperandsAreValues
<1>1. ASSUME NEW v, Replaces(1, v), IsValue(v) PROVE StackFits'
  BY <1>0, <1>1, ValueOnStack
<1>2. CASE Dup
  <2>1. Replaces(0, Arg(1)) /\ 0 <= Len(stack)
    BY <1>2, Needed DEF Dup
  <2>2. QED
    BY <1>0, <2>1, ValueOnStack
<1>3. CASE Not \/ IsNull \/ IssetIndex
  BY <1>1, <1>3, ScalarsAreValues DEF Not, IsNull, IssetIndex
<1>4. CASE CastOp
  <2>1. Op[2] \in {"int", "float", "str", "bool"} /\ Replaces(1, Cast(Op[2], Arg(1)))
    BY <1>4, Needed DEF CastOp, Proper
  <2>2. QED
    BY <1>1, <2>1, CastIsValue
<1>5. CASE Neg
  <2> DEFINE v == Arg(1)
             w == CASE v = IntVal(MinInt) -> v
                    [] v # IntVal(MinInt) /\ v[1] \in {"int", "float"} -> <<v[1], -v[2]>>
                    [] OTHER -> ApplyBin("-", IntVal(0), v)
  <2>1. Replaces(1, w)
    BY <1>5 DEF Neg
  <2> HIDE DEF v
  <2>2. \/ w = v \/ w = ApplyBin("-", IntVal(0), v)
        \/ v[1] \in {"int", "float"} /\ w = <<v[1], -v[2]>>
    OBVIOUS
  <2>3. IsValue(ApplyBin("-", IntVal(0), v))
    BY ArithIsValue DEF ApplyBin
  <2>4. ASSUME v[1] \in {"int", "float"} PROVE IsValue(<<v[1], -v[2]>>)
    <3>1. <<v[1], -v[2]>>[1] \in Kinds \ {"arr"}
      BY <2>4 DEF Kinds
    <3>2. QED
      BY <3>1, ScalarIsValue
  <2>5. IsValue(v)
    BY <1>0 DEF v
  <2> HIDE DEF w
  <2>6. IsValue(w)
    BY <2>2, <2>3, <2>4, <2>5
  <2>7. QED
    BY <1>1, <2>1, <2>6
<1>6. CASE LoadIndexQuiet
  <2>1. IsRoot(<<"var", Op[2]>>)
    BY <1>6, Needed DEF LoadIndexQuiet, Proper, IsRoot
  <2>2. QED
    BY <1>1, <1>6, <2>1, IndexIsValue DEF LoadIndexQuiet
<1>7. CASE LoadIndex
  <2>1. IsRoot(Op[2]) /\ Replaces(1, IndexValue(Op[2], Arg(1)))
    BY <1>7, Needed DEF LoadIndex, Proper, IsRoot
  <2>2. QED
    BY <1>1, <2>1, IndexIsValue
<1>8. QED
  BY <1>2, <1>3, <1>4, <1>5, <1>6, <1>7

\* Operations with more operands that leave a value.
LEMMA CombinedIsValue ==
  ASSUME TInv, Bin \/ ArrPushOp \/ ArrSet \/ LoadPath \/ CallFn
  PROVE  StackFits'
<1> USE DEF Computes, At
<1>1. CASE Bin \/ ArrPushOp
  <2>1. Operands(Op) = 2
    BY <1>1, OthersDo DEF Bin, ArrPushOp
  <2>2. 2 <= Len(stack) /\ IsValue(Arg(1)) /\ IsValue(Arg(2))
    BY <2>1, Needed, OperandsAreValues
  <2>3. CASE Bin
    <3>1. Op[2] \in BinOps /\ Replaces(2, ApplyBin(Op[2], Arg(2), Arg(1)))
      BY <2>3, Needed DEF Bin, Proper
    <3>2. QED
      BY <2>2, <3>1, OperatorsMakeValues, ValueOnStack
  <2>4. CASE ArrPushOp
    <3>1. Replaces(2, IF IsArr(Arg(2)) THEN ArrPush(Arg(2), Arg(1)) ELSE Arg(2))
      BY <2>4 DEF ArrPushOp
    <3>2. QED
      BY <2>2, <3>1, PushedIsValue, ValueOnStack
  <2>5. QED
    BY <1>1, <2>3, <2>4
<1>2. CASE ArrSet
  <2>1. Operands(Op) = 3
    BY <1>2, OthersDo DEF ArrSet
  <2>2. 3 <= Len(stack) /\ IsValue(Arg(1)) /\ IsValue(Arg(2)) /\ IsValue(Arg(3))
    BY <2>1, Needed, OperandsAreValues
  <2>3. Replaces(3, IF IsArr(Arg(3)) THEN ArrInsert(Arg(3), NormKey(Arg(2)), Arg(1)) ELSE Arg(3))
    BY <1>2 DEF ArrSet
  <2>4. IsArr(Arg(3)) => IsValue(ArrInsert(Arg(3), NormKey(Arg(2)), Arg(1)))
    BY <2>2, KeyIsValue, InsertedIsValue
  <2>5. QED
    BY <2>2, <2>3, <2>4, ValueOnStack
<1>3. CASE LoadPath
  <2> DEFINE n == Op[3]
             path == [i \in 1..n |-> NormKey(Args(n)[i])]
             v == ReadPath(ReadPath(RootValue(Op[2]), Front(path)), <<Last(path)>>)
  <2>1. Op[1] = "LoadPath" /\ Replaces(n, v)
    BY <1>3 DEF LoadPath
  <2>2. n \in Nat /\ n <= Len(stack) /\ IsRoot(Op[2])
    BY <2>1, Needed, OthersDo DEF Proper, IsRoot
  <2>3. path \in Seq({path[i] : i \in 1..n})
    <3>1. n \in Nat
      BY <2>2
    <3> HIDE DEF n
    <3>2. QED
      BY <3>1
  <2> HIDE DEF n, path
  <2>4. IsValue(v)
    BY <2>2, <2>3, PathIsValue
  <2> HIDE DEF v
  <2>5. QED
    BY <2>1, <2>2, <2>4, ValueOnStack
<1>4. CASE CallFn
  <2>1. Op[1] = "CallFn" /\ Replaces(Op[2], Args(Op[2])[1])
    BY <1>4 DEF CallFn
  <2>2. Op[2] \in Nat /\ Op[2] # 0 /\ Op[2] <= Len(stack)
    BY <2>1, Needed, OthersDo DEF Proper
  <2>3. IsValue(Args(Op[2])[1])
    BY <2>2, OperandsAreValues
  <2>4. QED
    BY <2>1, <2>2, <2>3, ValueOnStack
<1>5. QED
  BY <1>1, <1>2, <1>3, <1>4

\* Operations that take operands.
LEMMA TakersFit ==
  ASSUME TInv,
         \/ Pop \/ Store \/ StoreThisProp \/ ConcatAssign \/ UnsetIndex \/ StaticInit
         \/ JmpIf \/ StorePath \/ Echo
  PROVE  StackFits'
<1> USE DEF At
<1>0. ASSUME NEW n \in Nat, n <= Len(stack), stack' = Below(n) PROVE StackFits'
  <2>1. \A i \in 1..Len(Below(n)) : IsValue(Below(n)[i])
    BY <1>0, OperandsAreValues
  <2>2. QED
    BY <1>0, <2>1 DEF StackFits
<1>1. CASE Pop \/ Store \/ StoreThisProp \/ ConcatAssign \/ UnsetIndex \/ StaticInit
  <2>1. stack' = Below(1) /\ Op[1] \in Takers
    BY <1>1 DEF Pop, Store, StoreThisProp, ConcatAssign, UnsetIndex, StaticInit, Takers
  <2>2. 1 <= Len(stack)
    BY <2>1, TakersTake, Needed
  <2>3. QED
    BY <1>0, <2>1, <2>2
<1>2. CASE JmpIf
  <2>1. stack' = Below(1) /\ Op[1] \in {"JmpIfFalse", "JmpIfTrue"}
    BY <1>2 DEF JmpIf
  <2>2. 1 <= Len(stack)
    BY <2>1, JumpsJump, Needed
  <2>3. QED
    BY <1>0, <2>1, <2>2
<1>3. CASE StorePath
  <2>1. stack' = Below(Op[3] + 1) /\ Op[1] \in {"StorePath", "AppendPath"}
    BY <1>3 DEF StorePath
  <2>2. Op[3] + 1 \in Nat /\ Op[3] + 1 <= Len(stack)
    BY <2>1, OthersDo, Needed DEF Proper
  <2>3. QED
    BY <1>0, <2>1, <2>2
<1>4. CASE Echo
  <2>1. stack' = Below(Op[2]) /\ Op[1] = "Echo"
    BY <1>4 DEF Echo
  <2>2. Op[2] \in Nat /\ Op[2] <= Len(stack)
    BY <2>1, OthersDo, Needed DEF Proper
  <2>3. QED
    BY <1>0, <2>1, <2>2
<1>5. QED
  BY <1>1, <1>2, <1>3, <1>4

\* The operands after any step are values.
LEMMA StackStep ==
  ASSUME TInv, Next
  PROVE  StackFits'
<1>1. CASE stack' = stack
  BY <1>1 DEF TInv, StackFits
<1>2. CASE Return
  BY <1>2 DEF Return, StackFits
<1>3. CASE UnsetSlot \/ UnsetThisProp \/ BindGlobal \/ StaticCheck \/ Jmp \/ IterInit \/ IterBind
           \/ IterDone \/ PopIter \/ Line
  BY <1>1, <1>3 DEF UnsetSlot, UnsetThisProp, BindGlobal, StaticCheck, Jmp, IterInit, IterBind,
     IterDone, PopIter, Line
<1>4. QED
  BY <1>2, <1>3, MadeIsValue, ChangedIsValue, CombinedIsValue, TakersFit DEF Next

----------------------------------------------------------------------------
(* Iterators. *)

\* A new iterator, the innermost one going on, and the innermost one given up.
LEMMA IteratorChanges ==
  ASSUME TInv, NEW it, IterFits(it)
  PROVE  /\ iters' = Append(iters, it) => ItersFit'
         /\ iters' = [iters EXCEPT ![Len(iters)] = it] => ItersFit'
         /\ Len(iters) > 0 /\ iters' = Front(iters) => ItersFit'
<1>1. BInv
  BY DEF TInv, UInv
<1>2. PICK S : iters \in Seq(S)
  BY <1>1 DEF BInv, IsSeq
<1> DEFINE k == Len(iters)
<1>3. k \in Nat /\ \A i \in 1..k : IterFits(iters[i]) /\ iters[i] \in S
  BY <1>2 DEF TInv, ItersFit
<1>4. ASSUME iters' = Append(iters, it) PROVE ItersFit'
  <2>1. /\ Len(iters') = k + 1 /\ iters'[k + 1] = it
        /\ \A i \in 1..k : iters'[i] = iters[i]
    BY <1>2, <1>4
  <2> HIDE DEF k
  <2>2. \A i \in 1..(k + 1) : IterFits(iters'[i])
    <3>1. ASSUME NEW i \in 1..(k + 1) PROVE IterFits(iters'[i])
      <4>1. i \in 1..k \/ i = k + 1
        BY <1>3
      <4>2. QED
        BY <1>3, <2>1, <4>1
    <3>2. QED
      BY <3>1
  <2>3. QED
    BY <2>1, <2>2 DEF ItersFit
<1>5. ASSUME iters' = [iters EXCEPT ![Len(iters)] = it] PROVE ItersFit'
  <2>1. Len(iters') = k /\ \A i \in 1..k : iters'[i] = IF i = k THEN it ELSE iters[i]
    BY <1>2, <1>5
  <2> HIDE DEF k
  <2>2. \A i \in 1..k : IterFits(iters'[i])
    BY <1>3, <2>1
  <2>3. QED
    BY <2>1, <2>2 DEF ItersFit
<1>6. ASSUME Len(iters) > 0, iters' = Front(iters) PROVE ItersFit'
  <2>1. Len(iters') = k - 1 /\ \A i \in 1..(k - 1) : iters'[i] = iters[i]
    <3>0. k > 0
      BY <1>6
    <3>1. k - 1 \in Int /\ 1 \in Int /\ \A i \in 1..(k - 1) : iters[i] \in S
      BY <1>3
    <3>2. /\ Len(SubSeq(iters, 1, k - 1)) = k - 1
          /\ \A i \in 1..(k - 1) : SubSeq(iters, 1, k - 1)[i] = iters[1 + i - 1]
      <4> HIDE DEF k
      <4>1. 1 <= k - 1 => (k - 1) - 1 + 1 = k - 1
        BY <1>3
      <4>2. ~(1 <= k - 1) => k - 1 = 0
        BY <1>3, <3>0
      <4>3. QED
        BY <3>1, <4>1, <4>2, SubSeqProperties
    <3>3. \A i \in 1..(k - 1) : iters[1 + i - 1] = iters[i]
      OBVIOUS
    <3>4. QED
      BY <1>6, <3>2, <3>3 DEF Front
  <2> HIDE DEF k
  <2>2. \A i \in 1..(k - 1) : IterFits(iters'[i])
    BY <1>3, <2>1
  <2>3. QED
    BY <2>1, <2>2 DEF ItersFit
<1>7. QED
  BY <1>4, <1>5, <1>6

\* The innermost iterator of a loop that goes on is at one of its entries.
LEMMA InnermostFits ==
  ASSUME TInv, Op[1] \in {"IterNext", "PopIter"}
  PROVE  /\ Len(iters) > 0 /\ IterFits(Last(iters)) /\ Len(Last(iters).entries) \in Nat
         /\ Last(iters).next <= Len(Last(iters).entries) =>
              /\ IsEntry(Last(iters).entries[Last(iters).next])
              /\ IterFits([entries |-> Last(iters).entries, next |-> Last(iters).next + 1])
<1>1. Len(iters) > 0 /\ Len(iters) \in Nat
  BY AtAPlace DEF TInv, UInv, Served
<1> DEFINE it == Last(iters)
<1>2. IterFits(it)
  BY <1>1 DEF TInv, ItersFit, Last
<1> HIDE DEF it
<1>3. Len(it.entries) \in Nat
  BY <1>2 DEF IterFits, IsEntries
<1>4. ASSUME it.next <= Len(it.entries)
      PROVE  IsEntry(it.entries[it.next]) /\ IterFits([entries |-> it.entries, next |-> it.next + 1])
  <2>1. it.next \in 1..Len(it.entries) /\ it.next + 1 \in 1..(Len(it.entries) + 1)
    BY <1>2, <1>3, <1>4 DEF IterFits
  <2>2. QED
    BY <1>2, <2>1 DEF IterFits, IsEntries
<1>5. QED
  BY <1>1, <1>2, <1>3, <1>4 DEF it

\* Every iterator goes over entries, and is at one of them or past the last.
LEMMA ItersStep ==
  ASSUME TInv, Next
  PROVE  ItersFit'
<1> USE DEF At
<1>1. CASE iters' = iters
  BY <1>1 DEF TInv, ItersFit
<1>2. CASE IterInit
  <2> DEFINE v == SlotValue(Op[2])
             it == [entries |-> v[2], next |-> 1]
  <2>1. iters' = iters \/ (IsArr(v) /\ iters' = Append(iters, it))
    BY <1>2 DEF IterInit
  <2>2. IsValue(v)
    BY <1>2, Needed, SlotValueIsValue DEF IterInit, Proper
  <2> HIDE DEF v
  <2>3. ASSUME IsArr(v) PROVE IterFits(it)
    <3>1. IsEntries(v[2])
      BY <2>2, <2>3, EntriesOfArray
    <3>2. Len(v[2]) \in Nat
      BY <3>1 DEF IsEntries
    <3>3. it.entries = v[2] /\ it.next = 1
      OBVIOUS
    <3>4. QED
      BY <3>1, <3>2, <3>3 DEF IterFits
  <2> HIDE DEF it
  <2>4. QED
    BY <1>1, <2>1, <2>3, IteratorChanges
<1>3. CASE IterBind
  <2> DEFINE it == [entries |-> Last(iters).entries, next |-> Last(iters).next + 1]
  <2>1. /\ Op[1] = "IterNext" /\ Last(iters).next <= Len(Last(iters).entries)
        /\ iters' = [iters EXCEPT ![Len(iters)] = it]
    BY <1>3 DEF IterBind
  <2>2. IterFits(it)
    BY <2>1, InnermostFits
  <2> HIDE DEF it
  <2>3. QED
    BY <2>1, <2>2, IteratorChanges
<1>4. CASE IterDone \/ PopIter
  <2>1. Op[1] \in {"IterNext", "PopIter"} /\ iters' = Front(iters)
    BY <1>4 DEF IterDone, PopIter
  <2>2. QED
    BY <2>1, InnermostFits, IteratorChanges
<1>5. CASE Return
  BY <1>5 DEF Return, ItersFit
<1>6. CASE \/ PushConst \/ PushEmptyArray \/ LoadQuiet \/ LoadThisProp \/ Load \/ Dup \/ Pop \/ Bin
           \/ Not \/ IsNull \/ CastOp \/ Neg \/ ArrPushOp \/ ArrSet \/ IssetSlot \/ IssetThisProp
           \/ LoadIndexQuiet \/ IssetIndex \/ LoadIndex \/ LoadPath \/ Jmp \/ JmpIf \/ Line
           \/ CallFn \/ Echo
  BY <1>1, <1>6 DEF PushConst, PushEmptyArray, LoadQuiet, LoadThisProp, Load, Dup, Pop, Bin, Not,
     IsNull, CastOp, Neg, ArrPushOp, ArrSet, IssetSlot, IssetThisProp, Computes,
     LoadIndexQuiet, IssetIndex, LoadIndex, LoadPath, Jmp, JmpIf, Line, CallFn, Echo
<1>7. CASE \/ Store \/ StoreThisProp \/ ConcatAssign \/ StorePath \/ UnsetIndex \/ UnsetSlot
           \/ UnsetThisProp \/ BindGlobal \/ StaticCheck \/ StaticInit
  BY <1>1, <1>7 DEF Store, StoreThisProp, ConcatAssign, StorePath, UnsetIndex, UnsetSlot,
     UnsetThisProp, BindGlobal, StaticCheck, StaticInit
<1>8. QED
  BY <1>2, <1>3, <1>4, <1>5, <1>6, <1>7 DEF Next

----------------------------------------------------------------------------
(* Variables, cells and properties. *)

StoresFit == assigned \subseteq Slot /\ SlotsFit /\ CellsFit /\ ThisFits

\* A step that leaves them.
LEMMA NothingStored ==
  ASSUME TInv, UNCHANGED <<frame, cells, this>>
  PROVE  StoresFit'
BY DEF TInv, StoresFit, SlotsFit, CellsFit, ThisFits, frame

\* A value in a slot, or in the cell that the slot refers to.
LEMMA SlotStored ==
  ASSUME TInv, NEW x \in Slot, NEW v, IsValue(v), StoreSlot(x, v), UNCHANGED this
  PROVE  StoresFit'
<1>1. assigned' = assigned \cup {x} /\ assigned' \subseteq Slot /\ ThisFits'
  BY DEF StoreSlot, TInv, ThisFits
<1>2. CASE InCell(x)
  <2>1. cells' = [cells EXCEPT ![slots[x][2]] = v] /\ slots' = slots
    BY <1>2 DEF StoreSlot
  <2>2. DOMAIN cells' = DOMAIN cells /\ CellsFit'
    BY <2>1 DEF TInv, CellsFit
  <2>3. SlotsFit'
    BY <2>1, <2>2 DEF TInv, SlotsFit
  <2>4. QED
    BY <1>1, <2>2, <2>3 DEF StoresFit
<1>3. CASE ~InCell(x)
  <2>1. cells' = cells /\ slots' = [slots EXCEPT ![x] = v]
    BY <1>3 DEF StoreSlot
  <2>2. CellsFit'
    BY <2>1 DEF TInv, CellsFit
  <2>3. \A y \in Slot : slots'[y] = v \/ slots'[y] = slots[y]
    BY <2>1 DEF TInv, UInv
  <2>4. SlotsFit'
    BY <2>1, <2>3 DEF TInv, SlotsFit, SlotFits
  <2>5. QED
    BY <1>1, <2>2, <2>4 DEF StoresFit
<1>4. QED
  BY <1>2, <1>3

\* A value in a variable or a property.
LEMMA RootStored ==
  ASSUME TInv, NEW root, IsRoot(root), NEW v, IsValue(v), StoreRoot(root, v)
  PROVE  StoresFit'
<1>1. CASE root[1] = "var"
  <2>1. root[2] \in Slot /\ StoreSlot(root[2], v) /\ UNCHANGED this
    BY <1>1 DEF StoreRoot, IsRoot
  <2>2. QED
    BY <2>1, SlotStored
<1>2. CASE root[1] = "prop"
  <2>1. this' = Filled(this, root[2], v) /\ UNCHANGED <<frame, cells>>
    BY <1>2 DEF StoreRoot
  <2>2. ThisFits'
    BY <2>1 DEF Filled, TInv, ThisFits
  <2>3. QED
    BY <2>1, <2>2 DEF TInv, StoresFit, SlotsFit, CellsFit, frame
<1>3. QED
  BY <1>1, <1>2 DEF IsRoot

\* A slot that takes a cell: one there is, or a new one with a value.
LEMMA SlotBound ==
  ASSUME TInv, NEW x \in Slot, NEW c, NEW v, IsValue(v), UNCHANGED this,
         (c \in DOMAIN cells /\ cells' = cells) \/ cells' = Filled(cells, c, v),
         slots' = [slots EXCEPT ![x] = Ref(c)], assigned' = assigned \cup {x}
  PROVE  StoresFit'
<1>1. assigned' \subseteq Slot /\ ThisFits'
  BY DEF TInv, ThisFits
<1>2. CellsFit' /\ c \in DOMAIN cells' /\ DOMAIN cells \subseteq DOMAIN cells'
  BY DEF Filled, TInv, CellsFit
<1>3. \A y \in Slot : slots'[y] = Ref(c) \/ slots'[y] = slots[y]
  BY DEF TInv, UInv
<1>4. \A y \in Slot : SlotFits(slots'[y], DOMAIN cells')
  BY <1>2, <1>3 DEF TInv, SlotsFit, SlotFits
<1>5. QED
  BY <1>1, <1>2, <1>4 DEF StoresFit, SlotsFit

\* Storing operations.
LEMMA StoredIsValue ==
  ASSUME TInv, Store \/ StoreThisProp \/ ConcatAssign \/ StorePath
  PROVE  StoresFit'
<1> USE DEF At
<1>0. ASSUME Op[1] \in Takers PROVE IsValue(Arg(1))
  BY <1>0, TakersTake, Needed, OperandsAreValues
<1>1. CASE Store
  <2>1. Op[1] \in Takers /\ Op[2] \in Slot /\ StoreSlot(Op[2], Arg(1)) /\ UNCHANGED this
    BY <1>1, Needed DEF Store, Takers, Proper
  <2>2. QED
    BY <1>0, <2>1, SlotStored
<1>2. CASE StoreThisProp
  <2>1. Op[1] \in Takers /\ StoreRoot(<<"prop", Op[2]>>, Arg(1)) /\ IsRoot(<<"prop", Op[2]>>)
    BY <1>2 DEF StoreThisProp, Takers, IsRoot
  <2>2. QED
    BY <1>0, <2>1, RootStored
<1>3. CASE ConcatAssign
  <2> DEFINE v == StrVal(ToBytes(SlotValue(Op[2])) \o ToBytes(Arg(1)))
  <2>1. Op[2] \in Slot /\ StoreSlot(Op[2], v) /\ UNCHANGED this
    BY <1>3, Needed DEF ConcatAssign, Proper
  <2>2. IsValue(v)
    BY ScalarsAreValues
  <2> HIDE DEF v
  <2>3. QED
    BY <2>1, <2>2, SlotStored
<1>4. CASE StorePath
  <2> DEFINE n == Op[3]
             path == [i \in 1..n |-> NormKey(Args(n + 1)[i])]
             v == WritePath(RootValue(Op[2]), path, Arg(1), Op[1] = "AppendPath")
  <2>1. Op[1] \in {"StorePath", "AppendPath"} /\ StoreRoot(Op[2], v)
    BY <1>4 DEF StorePath
  <2>2. n \in Nat /\ n + 1 \in Nat /\ n + 1 <= Len(stack) /\ IsRoot(Op[2])
    BY <2>1, Needed, OthersDo DEF Proper, IsRoot
  <2>3. IsValue(Arg(1)) /\ \A i \in 1..(n + 1) : IsValue(Args(n + 1)[i])
    <3>1. 1 <= Len(stack)
      BY <2>2, Needed
    <3>2. IsValue(Arg(1))
      BY <3>1, OperandsAreValues
    <3>3. \A i \in 1..(n + 1) : IsValue(Args(n + 1)[i])
      BY <2>2, OperandsAreValues
    <3>4. QED
      BY <3>2, <3>3
  <2>4. /\ path \in Seq({path[i] : i \in 1..n}) /\ Len(path) = n
        /\ \A i \in 1..Len(path) : IsValue(path[i])
    <3>1. n \in Nat /\ \A i \in 1..n : IsValue(Args(n + 1)[i])
      BY <2>2, <2>3
    <3> HIDE DEF n
    <3>2. path \in Seq({path[i] : i \in 1..n}) /\ Len(path) = n
      BY <3>1
    <3>3. \A i \in 1..n : path[i] = NormKey(Args(n + 1)[i])
      BY <3>1
    <3>4. \A i \in 1..n : IsValue(path[i])
      BY <3>1, <3>3, KeyIsValue
    <3>5. QED
      BY <3>2, <3>4
  <2>5. IsValue(RootValue(Op[2]))
    BY <2>2, RootIsValue
  <2> HIDE DEF n, path
  <2>6. IsValue(v)
    BY <2>3, <2>4, <2>5, WrittenIsValue
  <2> HIDE DEF v
  <2>7. QED
    BY <2>1, <2>2, <2>6, RootStored
<1>5. QED
  BY <1>1, <1>2, <1>3, <1>4

\* Operations that take something away.
LEMMA UnsetFits ==
  ASSUME TInv, UnsetIndex \/ UnsetSlot \/ UnsetThisProp
  PROVE  StoresFit'
<1> USE DEF At
<1>1. CASE UnsetIndex
  <2> DEFINE v == ArrRemove(RootValue(Op[2]), NormKey(Arg(1)))
             x == Op[2][2]
  <2>1. Op[1] = "UnsetIndex" /\ IsRoot(Op[2])
    BY <1>1, Needed DEF UnsetIndex, Proper, IsRoot
  <2>2. IsValue(v)
    BY <2>1, RootIsValue, RemovedIsValue
  <2>3. CASE ~IsArr(RootValue(Op[2]))
    <3>1. UNCHANGED <<frame, cells, this>>
      BY <1>1, <2>3 DEF UnsetIndex
    <3>2. QED
      BY <3>1, NothingStored
  <2>4. CASE IsArr(RootValue(Op[2])) /\ Op[2][1] = "var" /\ InCell(x)
    <3>1. cells' = [cells EXCEPT ![slots[x][2]] = v] /\ UNCHANGED <<frame, this>>
      BY <1>1, <2>4 DEF UnsetIndex
    <3> HIDE DEF v, x
    <3>2. DOMAIN cells' = DOMAIN cells /\ CellsFit'
      BY <2>2, <3>1 DEF TInv, CellsFit
    <3>3. QED
      BY <3>1, <3>2 DEF TInv, StoresFit, SlotsFit, ThisFits, frame
  <2>5. CASE IsArr(RootValue(Op[2])) /\ ~(Op[2][1] = "var" /\ InCell(x))
    <3>1. StoreRoot(Op[2], v)
      BY <1>1, <2>5 DEF UnsetIndex
    <3> HIDE DEF v
    <3>2. QED
      BY <2>1, <2>2, <3>1, RootStored
  <2>6. QED
    BY <2>3, <2>4, <2>5
<1>2. CASE UnsetSlot
  <2>1. /\ slots' = [slots EXCEPT ![Op[2]] = Null] /\ assigned' \subseteq assigned
        /\ UNCHANGED <<cells, this>>
    BY <1>2 DEF UnsetSlot, env
  <2>2. \A y \in Slot : slots'[y] = Null \/ slots'[y] = slots[y]
    BY <2>1 DEF TInv, UInv
  <2>3. SlotsFit'
    BY <2>1, <2>2, ScalarsAreValues DEF TInv, SlotsFit, SlotFits
  <2>4. QED
    BY <2>1, <2>3 DEF TInv, StoresFit, CellsFit, ThisFits
<1>3. CASE UnsetThisProp
  <2>1. this' = Restrict(this, DOMAIN this \ {Op[2]}) /\ UNCHANGED <<frame, cells>>
    BY <1>3 DEF UnsetThisProp
  <2>2. ThisFits'
    BY <2>1 DEF Restrict, TInv, ThisFits
  <2>3. QED
    BY <2>1, <2>2 DEF TInv, StoresFit, SlotsFit, CellsFit, frame
<1>4. QED
  BY <1>1, <1>2, <1>3

\* Operations that make a slot a reference.
LEMMA BoundFits ==
  ASSUME TInv, BindGlobal \/ StaticCheck \/ StaticInit
  PROVE  StoresFit'
<1> USE DEF At
<1>0. Op[2] \in Slot
  BY Needed DEF BindGlobal, StaticCheck, StaticInit, Proper
<1>1. ASSUME NEW c, BindSlot(Op[2], c, Null), UNCHANGED this PROVE StoresFit'
  <2>1. (c \in DOMAIN cells /\ cells' = cells) \/ cells' = Filled(cells, c, Null)
    BY <1>1 DEF BindSlot
  <2>2. slots' = [slots EXCEPT ![Op[2]] = Ref(c)] /\ assigned' = assigned \cup {Op[2]}
    BY <1>1 DEF BindSlot
  <2>3. IsValue(Null)
    BY ScalarsAreValues
  <2>4. QED
    BY <1>0, <1>1, <2>1, <2>2, <2>3, SlotBound
<1>2. CASE BindGlobal
  BY <1>1, <1>2 DEF BindGlobal
<1>3. CASE StaticCheck
  <2>1. UNCHANGED this /\ (UNCHANGED <<frame, cells>> \/ BindSlot(Op[2], <<"static", Op[2]>>, Null))
    BY <1>3 DEF StaticCheck
  <2>2. QED
    BY <1>1, <2>1, NothingStored
<1>4. CASE StaticInit
  <2>1. /\ cells' = Filled(cells, <<"static", Op[2]>>, Arg(1))
        /\ slots' = [slots EXCEPT ![Op[2]] = Ref(<<"static", Op[2]>>)]
        /\ assigned' = assigned \cup {Op[2]} /\ UNCHANGED this /\ Op[1] \in Takers
    BY <1>4 DEF StaticInit, Takers
  <2>2. IsValue(Arg(1))
    BY <2>1, TakersTake, Needed, OperandsAreValues
  <2>3. QED
    BY <1>0, <2>1, <2>2, SlotBound
<1>5. QED
  BY <1>2, <1>3, <1>4

\* A foreach loop's variables take an entry's key and value.
LEMMA LoopFits ==
  ASSUME TInv, IterBind
  PROVE  StoresFit'
<1> USE DEF At
<1> DEFINE entry == Last(iters).entries[Last(iters).next]
<1>1. IsValue(entry[1]) /\ IsValue(entry[2])
  <2>1. Op[1] = "IterNext" /\ Last(iters).next <= Len(Last(iters).entries)
    BY DEF IterBind
  <2>2. QED
    BY <2>1, InnermostFits DEF IsEntry
<1>2. UNCHANGED this /\ assigned' \subseteq assigned \cup Slot
  BY DEF IterBind
<1>3. DOMAIN cells' = DOMAIN cells
      /\ \A c \in DOMAIN cells : cells'[c] \in {entry[1], entry[2], cells[c]}
  BY DEF IterBind
<1>4. \A y \in Slot : slots'[y] \in {entry[1], entry[2], slots[y]}
  BY DEF IterBind
<1> HIDE DEF entry
<1>5. CellsFit'
  BY <1>1, <1>3 DEF TInv, CellsFit
<1>6. SlotsFit'
  BY <1>1, <1>3, <1>4 DEF TInv, SlotsFit, SlotFits
<1>7. QED
  BY <1>2, <1>5, <1>6 DEF TInv, StoresFit, ThisFits

\* What any step leaves in slots, cells and properties.
LEMMA StoreStep ==
  ASSUME TInv, Next
  PROVE  StoresFit'
<1>1. CASE Return
  <2>1. /\ \A x \in Slot : slots'[x] = Null
        /\ assigned' = {} /\ cells' = cells /\ this' = this
    BY <1>1 DEF Return, env
  <2>2. SlotsFit'
    BY <2>1, ScalarsAreValues DEF SlotsFit, SlotFits
  <2>3. QED
    BY <2>1, <2>2 DEF TInv, StoresFit, CellsFit, ThisFits
<1>2. CASE \/ PushConst \/ PushEmptyArray \/ LoadQuiet \/ LoadThisProp \/ Load \/ Dup \/ Pop \/ Bin
           \/ Not \/ IsNull \/ CastOp \/ Neg \/ ArrPushOp \/ ArrSet \/ IssetSlot \/ IssetThisProp
  <2>1. UNCHANGED <<frame, cells, this>>
    BY <1>2 DEF PushConst, PushEmptyArray, LoadQuiet, LoadThisProp, Load, Dup, Pop, Bin, Not,
       IsNull, CastOp, Neg, ArrPushOp, ArrSet, IssetSlot, IssetThisProp, Computes, env
  <2>2. QED
    BY <2>1, NothingStored
<1>3. CASE \/ LoadIndexQuiet \/ IssetIndex \/ LoadIndex \/ LoadPath \/ Jmp \/ JmpIf \/ IterInit
           \/ IterDone \/ PopIter \/ Line \/ CallFn \/ Echo
  <2>1. UNCHANGED <<frame, cells, this>>
    BY <1>3 DEF LoadIndexQuiet, IssetIndex, LoadIndex, LoadPath, Jmp, JmpIf, IterInit, IterDone,
       PopIter, Line, CallFn, Echo, Computes, env
  <2>2. QED
    BY <2>1, NothingStored
<1>4. QED
  BY <1>1, <1>2, <1>3, StoredIsValue, UnsetFits, BoundFits, LoopFits DEF Next

----------------------------------------------------------------------------
(* Values stay values. *)

\* Every run begins with values.
LEMMA InitTInv == Init => TInv
<1>1. SUFFICES ASSUME Init PROVE TInv
  OBVIOUS
<1>2. UInv
  BY <1>1, InitBInv DEF Init, UInv, UnassignedIsNull
<1>3. stack = <<>> /\ iters = <<>> /\ cells = <<>> /\ this = Props /\ assigned = {}
  BY <1>1 DEF Init
<1>4. StackFits /\ ItersFit /\ CellsFit
  BY <1>3 DEF StackFits, ItersFit, CellsFit
<1>5. SlotsFit
  BY <1>1, ScalarsAreValues DEF Init, SlotsFit, SlotFits
<1>6. ThisFits
  BY <1>3, LiteralsAreValues DEF ThisFits, IsValue
<1>7. QED
  BY <1>2, <1>3, <1>4, <1>5, <1>6 DEF TInv

\* No step makes anything else.
LEMMA StepTInv == TInv /\ [Next]_vars => TInv'
<1>1. SUFFICES ASSUME TInv, [Next]_vars PROVE TInv'
  OBVIOUS
<1>2. UInv'
  BY <1>1, StepUInv DEF TInv
<1>3. CASE UNCHANGED vars
  BY <1>1, <1>2, <1>3 DEF vars, TInv, StackFits, ItersFit, SlotsFit, CellsFit, ThisFits
<1>4. CASE Next
  BY <1>1, <1>2, <1>4, StackStep, ItersStep, StoreStep DEF TInv, StoresFit
<1>5. QED
  BY <1>1, <1>3, <1>4

\* Whatever the code computes: the machine stays inside its code, only slots
\* hold references, every reference leads to a cell (a static's or a global's),
\* and every iterator is at an entry of its snapshot or past the last.
THEOREM MachineTypes == Spec => []TypeOK
<1>1. TInv => TypeOK
  <2>1. SUFFICES ASSUME TInv PROVE TypeOK
    OBVIOUS
  <2>2. pc \in DOMAIN chunk.code /\ assigned \subseteq Slot
    BY <2>1, AtAPlace DEF TInv, UInv
  <2>3. DOMAIN slots = Slot
    BY <2>1 DEF TInv, UInv
  <2>4. \A x \in Slot : InCell(x) => slots[x][2] \in DOMAIN cells
    BY <2>1, SlotValueIsValue
  <2>5. \A i \in DOMAIN iters : iters[i].next \in 1..(Len(iters[i].entries) + 1)
    <3>1. PICK S : iters \in Seq(S)
      BY <2>1 DEF TInv, UInv, BInv, IsSeq
    <3>2. DOMAIN iters = 1..Len(iters)
      BY <3>1
    <3>3. QED
      BY <2>1, <3>2 DEF TInv, ItersFit, IterFits
  <2>6. QED
    BY <2>2, <2>3, <2>4, <2>5 DEF TypeOK
<1>2. QED
  BY <1>1, InitTInv, StepTInv, PTL DEF Spec
=============================================================================
