------------------------------- MODULE Stored -------------------------------
(***************************************************************************)
(* Values as text, and back: serialize and unserialize, JSON, var_export.   *)
(* A value is a tuple headed by its kind; the entries of an array and the   *)
(* properties of an object are <<key, value>> pairs.  Floats are counted in *)
(* hundredths; objects are trees here, as no format keeps their identity.   *)
(* A reader's result is <<>>, or <<what it read and the position after it>>. *)
(***************************************************************************)
EXTENDS CharText

CONSTANTS SerDepth, JsonDepth, ExportDepth     \* the depth at which each gives up

Null == <<"null">>
BoolVal(b) == <<"bool", b>>
IntVal(n) == <<"int", n>>
FloatVal(h) == <<"float", h>>
StrVal(s) == <<"str", s>>
ArrVal(entries) == <<"arr", entries>>
ObjVal(class, props) == <<"obj", class, props>>
Case(enum, name) == <<"case", enum, name>>

\* The classes of the program; unserialize calls a method of the last two.
Declared == {Chars("P"), Chars("W"), Chars("S")}
Waking == {Chars("W")}
Packing == {Chars("S")}
Enums == {Chars("E")}
Incomplete == Chars("__PHP_Incomplete_Class")
IncompleteName == StrVal(Chars("__PHP_Incomplete_Class_Name"))
StdClass == Chars("stdClass")

\* What S::__serialize() gives: its properties under other names; and what
\* S::__unserialize() makes of it.
Packed(props) == [k \in DOMAIN props |-> <<StrVal(<<"_">> \o props[k][1][2]), props[k][2]>>]
Unpacked(props) == [k \in DOMAIN props |-> <<StrVal(Tail(props[k][1][2])), props[k][2]>>]

----------------------------------------------------------------------------
(* Numbers and keys as text. *)

NatText(n) == Chars(ToString(n))
IntText(n) == IF n < 0 THEN <<"-">> \o NatText(-n) ELSE NatText(n)
Decimals(h) ==
  CASE h % 100 = 0 -> <<>>
    [] h % 100 # 0 /\ h % 10 = 0 -> <<".">> \o NatText((h % 100) \div 10)
    [] OTHER -> <<".">> \o NatText((h % 100) \div 10) \o NatText(h % 10)
FloatText(h) ==
  IF h < 0 THEN <<"-">> \o NatText((-h) \div 100) \o Decimals(-h) ELSE NatText(h \div 100) \o Decimals(h)

AtMost(a, b) == IF a < b THEN a ELSE b
Signed(s, n) == IF CharAt(s, 1) = "-" THEN -n ELSE n
Unsigned(s) == IF CharAt(s, 1) \in {"+", "-"} THEN Tail(s) ELSE s
Natural(s) == IF s # <<>> /\ \A k \in DOMAIN s : s[k] \in Digits THEN <<NumberOf(s)>> ELSE <<>>
Integer(s) == IF Natural(Unsigned(s)) = <<>> THEN <<>> ELSE <<Signed(s, NumberOf(Unsigned(s)))>>

\* Digits, a fraction and an exponent, read as hundredths.
Scaled(n, power) == IF power >= 0 THEN n * 10 ^ power ELSE n \div 10 ^ (-power)
Hundredths(digits, places, exponent) ==
  IF Natural(digits) = <<>> \/ exponent = <<>> THEN <<>> ELSE <<Scaled(NumberOf(digits), 2 - places + exponent[1])>>
FloatParts(s, whole, mantissa) ==
  IF CharAt(s, whole) \notin {".", "e", "E", NoChar} THEN <<>>
  ELSE Hundredths(SubSeq(s, 1, whole - 1) \o SubSeq(s, whole + 1, mantissa - 1),
                  IF mantissa = whole THEN 0 ELSE mantissa - 1 - whole,
                  IF mantissa > Len(s) THEN <<0>> ELSE Integer(SubSeq(s, mantissa + 1, Len(s))))
FloatSigned(s, h) == IF h = <<>> THEN <<>> ELSE <<Signed(s, h[1])>>
FloatRead(s, digits) == FloatSigned(s, FloatParts(digits, SpanEnd(digits, 1, Digits), Until(digits, 1, {"e", "E"})))
FloatOf(s) == FloatRead(s, Unsigned(s))

KeyText(k) == IF k[1] = "int" THEN IntText(k[2]) ELSE k[2]
\* A string that looks like an integer is one, as a key.
Canonical(s) ==
  LET digits == IF CharAt(s, 1) = "-" THEN Tail(s) ELSE s
  IN Natural(digits) # <<>> /\ (digits[1] # "0" \/ s = <<"0">>)
NormKey(k) == IF k[1] = "str" /\ Canonical(k[2]) THEN IntVal(Integer(k[2])[1]) ELSE k
PropKey(k) == StrVal(KeyText(k))
Insert(entries, k, v) ==
  IF \E j \in DOMAIN entries : entries[j][1] = k
  THEN [j \in DOMAIN entries |-> IF entries[j][1] = k THEN <<k, v>> ELSE entries[j]]
  ELSE Append(entries, <<k, v>>)

----------------------------------------------------------------------------
(* serialize *)

Quoted(s) == NatText(Len(s)) \o Chars(":\"") \o s \o <<"\"">>
SerString(s) == Chars("s:") \o Quoted(s) \o <<";">>
SerInt(n) == Chars("i:") \o IntText(n) \o <<";">>
SerKey(k) == IF k[1] = "int" THEN SerInt(k[2]) ELSE SerString(k[2])
PropsOf(v) == IF v[2] \in Packing THEN Packed(v[3]) ELSE v[3]

RECURSIVE Serialized(_, _), SerEntries(_, _)
SerEntries(entries, depth) ==
  IF entries = <<>> THEN <<>>
  ELSE SerKey(entries[1][1]) \o Serialized(entries[1][2], depth) \o SerEntries(Tail(entries), depth)
SerBraced(entries, depth) == NatText(Len(entries)) \o Chars(":{") \o SerEntries(entries, depth) \o <<"}">>
Serialized(v, depth) ==
  CASE depth > SerDepth \/ v[1] = "null" -> Chars("N;")
    [] depth <= SerDepth /\ v[1] = "bool" -> IF v[2] THEN Chars("b:1;") ELSE Chars("b:0;")
    [] depth <= SerDepth /\ v[1] = "int" -> SerInt(v[2])
    [] depth <= SerDepth /\ v[1] = "float" -> Chars("d:") \o FloatText(v[2]) \o <<";">>
    [] depth <= SerDepth /\ v[1] = "str" -> SerString(v[2])
    [] depth <= SerDepth /\ v[1] = "arr" -> Chars("a:") \o SerBraced(v[2], depth + 1)
    [] depth <= SerDepth /\ v[1] = "case" -> Chars("E:") \o Quoted(v[2] \o <<":">> \o v[3]) \o <<";">>
    [] depth <= SerDepth /\ v[1] = "obj" ->
         Chars("O:") \o Quoted(v[2]) \o <<":">> \o SerBraced(PropsOf(v), depth + 1)
Serialize(v) == Serialized(v, 0)

----------------------------------------------------------------------------
(* unserialize *)

Got(v, i) == <<[val |-> v, at |-> i]>>
Past(s, stop) == IF stop > Len(s) THEN stop ELSE stop + 1
GotIf(read, Make(_)) == IF read = <<>> THEN <<>> ELSE Got(Make(read[1].val), read[1].at)
GotNumber(number, i) == IF number = <<>> THEN <<>> ELSE Got(number[1], i)
Upto(s, i, stop) == SubSeq(s, i, stop - 1)
SerNumber(s, i, stop) == GotIf(GotNumber(Integer(Upto(s, i, stop)), Past(s, stop)), IntVal)
SerFloat(s, i, stop) == GotIf(GotNumber(FloatOf(Upto(s, i, stop)), Past(s, stop)), FloatVal)
Bytes(s, i, n) == IF i + n > Len(s) + 1 THEN <<>> ELSE Got(SubSeq(s, i, i + n - 1), i + n + 2)
\* A length and the position after its colon.
Length(s, i, stop) == GotNumber(Natural(Upto(s, i, stop)), Past(s, stop))
LengthAt(s, i) == Length(s, i, Until(s, i, {":"}))
\* The quotes of a name are skipped, those of a string are looked for.  The code
\* does not ask whether the text is long enough to hold a class name.
NameAt(s, length) == IF length = <<>> THEN <<>> ELSE Bytes(s, length[1].at + 1, length[1].val)
QuotedAt(s, length) ==
  IF length = <<>> THEN <<>> ELSE IF CharAt(s, length[1].at) = "\"" THEN NameAt(s, length) ELSE <<>>

\* An enum case is a placeholder until Restored finds it.
Colon(tag) == CHOOSE k \in 0..Len(tag) : (k = 0 \/ tag[k] = ":") /\ \A j \in (k + 1)..Len(tag) : tag[j] # ":"
CaseOf(tag) == <<"placeholder", SubSeq(tag, 1, Colon(tag) - 1), SubSeq(tag, Colon(tag) + 1, Len(tag))>>
CaseAt(read) == IF read = <<>> \/ Colon(read[1].val) = 0 THEN <<>> ELSE Got(CaseOf(read[1].val), read[1].at)

KeyOf(object, k) == IF object THEN PropKey(k) ELSE NormKey(k)
RECURSIVE UnserAt(_, _, _), UnserEntries(_, _, _, _, _, _), UnserValue(_, _, _, _, _, _), UnserKept(_, _, _, _, _, _, _)
UnserKept(s, key, value, n, entries, object, depth) ==
  IF value = <<>> THEN <<>>
  ELSE UnserEntries(s, value[1].at, n - 1, Insert(entries, KeyOf(object, key), value[1].val), object, depth)
UnserValue(s, key, n, entries, object, depth) ==
  IF key = <<>> THEN <<>>
  ELSE UnserKept(s, key[1].val, UnserAt(s, key[1].at, depth), n, entries, object, depth)
UnserEntries(s, i, n, entries, object, depth) ==
  IF n = 0 THEN Got(entries, i + 1) ELSE UnserValue(s, UnserAt(s, i, depth), n, entries, object, depth)
UnserBraced(s, count, object, depth) ==
  IF count = <<>> \/ CharAt(s, count[1].at) # "{" THEN <<>>
  ELSE UnserEntries(s, count[1].at + 1, count[1].val, <<>>, object, depth)
ObjAt(s, class, depth) ==
  IF class = <<>> THEN <<>>
  ELSE GotIf(UnserBraced(s, LengthAt(s, class[1].at), TRUE, depth), LAMBDA props : ObjVal(class[1].val, props))
UnserAt(s, i, depth) ==
  CASE depth > SerDepth \/ i > Len(s) -> <<>>
    [] depth <= SerDepth /\ CharAt(s, i) = "N" -> Got(Null, i + 2)
    [] depth <= SerDepth /\ CharAt(s, i) = "b" -> IF i + 2 > Len(s) THEN <<>> ELSE Got(BoolVal(s[i + 2] = "1"), i + 4)
    [] depth <= SerDepth /\ CharAt(s, i) = "i" -> SerNumber(s, i + 2, Until(s, i + 2, {";"}))
    [] depth <= SerDepth /\ CharAt(s, i) = "d" -> SerFloat(s, i + 2, Until(s, i + 2, {";"}))
    [] depth <= SerDepth /\ CharAt(s, i) = "s" -> GotIf(QuotedAt(s, LengthAt(s, i + 2)), StrVal)
    [] depth <= SerDepth /\ CharAt(s, i) = "a" -> GotIf(UnserBraced(s, LengthAt(s, i + 2), FALSE, depth + 1), ArrVal)
    [] depth <= SerDepth /\ CharAt(s, i) = "E" -> CaseAt(NameAt(s, LengthAt(s, i + 2)))
    [] depth <= SerDepth /\ CharAt(s, i) = "O" -> ObjAt(s, NameAt(s, LengthAt(s, i + 2)), depth + 1)
    [] OTHER -> <<>>

\* Cases become the enum's own, and objects of classes that are unknown or not
\* allowed become incomplete.  allowed is <<>>, or <<the classes>>.
LowerName(c) == [k \in DOMAIN c |-> Lower(c[k])]
Permitted(class, allowed) == allowed = <<>> \/ \E c \in allowed[1] : LowerName(c) = LowerName(class)
Kept(class, allowed) == class = Incomplete \/ (Permitted(class, allowed) /\ class \in Declared)
RECURSIVE AllInserted(_, _)
AllInserted(entries, more) ==
  IF more = <<>> THEN entries ELSE AllInserted(Insert(entries, more[1][1], more[1][2]), Tail(more))
RECURSIVE Restored(_, _)
RestoredIn(entries, allowed) == [k \in DOMAIN entries |-> <<entries[k][1], Restored(entries[k][2], allowed)>>]
Restored(v, allowed) ==
  CASE v[1] = "placeholder" -> IF v[2] \in Enums THEN Case(v[2], v[3]) ELSE BoolVal(FALSE)
    [] v[1] = "arr" -> ArrVal(RestoredIn(v[2], allowed))
    [] v[1] = "obj" /\ Kept(v[2], allowed) -> ObjVal(v[2], RestoredIn(v[3], allowed))
    [] v[1] = "obj" /\ ~Kept(v[2], allowed) ->
         ObjVal(Incomplete, AllInserted(<<<<IncompleteName, StrVal(v[2])>>>>, RestoredIn(v[3], allowed)))
    [] OTHER -> v

\* The methods that are called, those of what an object holds before its own.
\* A value is <<what it becomes, the classes called>>.
RECURSIVE Woken(_, _)
WokenEach(entries, depth) == [k \in DOMAIN entries |-> Woken(entries[k][2], depth)]
Values(entries, woken) == [k \in DOMAIN entries |-> <<entries[k][1], woken[k][1]>>]
Calls(woken) == FlattenSeq([k \in DOMAIN woken |-> woken[k][2]])
WokenObj(class, props, calls) ==
  CASE class \in Packing -> <<ObjVal(class, Unpacked(props)), Append(calls, class)>>
    [] class \in Waking -> <<ObjVal(class, props), Append(calls, class)>>
    [] OTHER -> <<ObjVal(class, props), calls>>
WokenIn(v, woken) ==
  IF v[1] = "arr" THEN <<ArrVal(Values(v[2], woken)), Calls(woken)>>
  ELSE WokenObj(v[2], Values(v[3], woken), Calls(woken))
Woken(v, depth) ==
  IF depth > SerDepth \/ v[1] \notin {"arr", "obj"} THEN <<v, <<>>>>
  ELSE WokenIn(v, WokenEach(v[Len(v)], depth + 1))
Unserialized(read, allowed) == Woken(Restored(IF read = <<>> THEN BoolVal(FALSE) ELSE read[1].val, allowed), 0)
Unserialize(s, allowed) == Unserialized(UnserAt(s, 1, 0), allowed)

----------------------------------------------------------------------------
(* JSON *)

HexText(n) == <<Chars("0123456789abcdef")[n \div 16 + 1], Chars("0123456789abcdef")[(n % 16) + 1]>>
JsonChar(c) ==
  CASE c \in {"\"", "\\", "/"} -> <<"\\", c>>
    [] c = "\n" -> Chars("\\n") [] c = "\r" -> Chars("\\r") [] c = "\t" -> Chars("\\t") [] c = "\f" -> Chars("\\f")
    [] Code[c] < 32 /\ c \notin {"\n", "\r", "\t", "\f"} -> Chars("\\u00") \o HexText(Code[c])
    [] OTHER -> <<c>>
JsonText(s) == <<"\"">> \o FlattenSeq([k \in DOMAIN s |-> JsonChar(s[k])]) \o <<"\"">>
Members(v) == IF v[1] = "case" THEN <<<<StrVal(Chars("name")), StrVal(v[3])>>>> ELSE v[Len(v)]
IsListAnyOrder(entries) ==
  {entries[k][1] : k \in DOMAIN entries} = {IntVal(k - 1) : k \in DOMAIN entries}
IsList(entries) == \A k \in DOMAIN entries : entries[k][1] = IntVal(k - 1)
Comma(entries) == IF Len(entries) > 1 THEN <<",">> ELSE <<>>

RECURSIVE JsonEncoded(_, _), JsonEntries(_, _, _)
JsonEntries(entries, list, depth) ==
  IF entries = <<>> THEN <<>>
  ELSE (IF list THEN <<>> ELSE JsonText(KeyText(entries[1][1])) \o <<":">>)
       \o JsonEncoded(entries[1][2], depth) \o Comma(entries) \o JsonEntries(Tail(entries), list, depth)
JsonBraced(entries, list, depth) ==
  <<IF list THEN "[" ELSE "{">> \o JsonEntries(entries, list, depth) \o <<IF list THEN "]" ELSE "}">>
JsonEncoded(v, depth) ==
  CASE depth > JsonDepth \/ v[1] = "null" -> Chars("null")
    [] depth <= JsonDepth /\ v[1] = "bool" -> IF v[2] THEN Chars("true") ELSE Chars("false")
    [] depth <= JsonDepth /\ v[1] = "int" -> IntText(v[2])
    [] depth <= JsonDepth /\ v[1] = "float" -> FloatText(v[2])
    [] depth <= JsonDepth /\ v[1] = "str" -> JsonText(v[2])
    [] depth <= JsonDepth /\ v[1] \in {"arr", "obj", "case"} ->
         JsonBraced(Members(v), v[1] = "arr" /\ IsList(Members(v)), depth + 1)
JsonEncode(v) == JsonEncoded(v, 0)

\* \b and what \u stands for beyond the characters of CharText are left out.
Escapes == [c \in {"\"", "\\", "/", "n", "t", "r", "f"} |->
  CASE c = "n" -> "\n" [] c = "t" -> "\t" [] c = "r" -> "\r" [] c = "f" -> "\f" [] OTHER -> c]
CharsOf(code) == IF code \in DOMAIN CharOf THEN <<CharOf[code]>> ELSE <<>>
RECURSIVE JsonString(_, _, _)
JsonEscape(s, i, out) ==
  CASE CharAt(s, i) \in DOMAIN Escapes -> JsonString(s, i + 1, Append(out, Escapes[s[i]]))
    [] CharAt(s, i) = "u" /\ SpanEnd(s, i + 1, HexDigits) > i + 4 ->
         JsonString(s, i + 5, out \o CharsOf(HexValue(SubSeq(s, i + 1, i + 4))))
    [] OTHER -> <<>>
JsonString(s, i, out) ==
  CASE i > Len(s) -> <<>>
    [] CharAt(s, i) = "\"" -> Got(out, i + 1)
    [] CharAt(s, i) = "\\" -> JsonEscape(s, i + 1, out)
    [] OTHER -> JsonString(s, i + 1, Append(out, s[i]))
JsonStringAt(s, i) == IF CharAt(s, i) = "\"" THEN JsonString(s, i + 1, <<>>) ELSE <<>>

JsonSpaces == {" ", "\t", "\n", "\r"}
Space(s, i) == SpanEnd(s, i, JsonSpaces)
Literal(s, i, word, v) == IF SubSeq(s, i, AtMost(Len(s), i + Len(word) - 1)) = word THEN Got(v, i + Len(word)) ELSE <<>>

WholeEnd(s, i) == SpanEnd(s, IF CharAt(s, i) = "-" THEN i + 1 ELSE i, Digits)
FractionEnd(s, i) == IF CharAt(s, i) = "." THEN SpanEnd(s, i + 1, Digits) ELSE i
ExponentEnd(s, i) ==
  IF CharAt(s, i) \in {"e", "E"} THEN SpanEnd(s, IF CharAt(s, i + 1) \in {"+", "-"} THEN i + 2 ELSE i + 1, Digits) ELSE i
NumberText(t, i) ==
  IF \E k \in DOMAIN t : t[k] \in {".", "e", "E"} THEN GotIf(GotNumber(FloatOf(t), i), FloatVal)
  ELSE GotIf(GotNumber(Integer(t), i), IntVal)
NumberTo(s, i, stop) == NumberText(Upto(s, i, stop), stop)
JsonNumber(s, i) == NumberTo(s, i, ExponentEnd(s, FractionEnd(s, WholeEnd(s, i))))

FinishObj(entries, assoc) ==
  IF assoc THEN ArrVal(entries)
  ELSE ObjVal(StdClass, AllInserted(<<>>, [k \in DOMAIN entries |-> <<PropKey(entries[k][1]), entries[k][2]>>]))
Close(object) == IF object THEN "}" ELSE "]"
RECURSIVE JsonAt(_, _, _, _), JsonMore(_, _, _, _, _, _), JsonKept(_, _, _, _, _, _, _), JsonKeyed(_, _, _, _, _, _),
          JsonNext(_, _, _, _, _, _)
JsonMore(s, i, entries, object, assoc, depth) ==
  CASE CharAt(s, i) = "," -> JsonNext(s, i + 1, entries, object, assoc, depth)
    [] CharAt(s, i) = Close(object) -> Got(entries, i + 1)
    [] OTHER -> <<>>
JsonKept(s, key, entries, value, object, assoc, depth) ==
  IF value = <<>> THEN <<>>
  ELSE JsonMore(s, Space(s, value[1].at), Insert(entries, key, value[1].val), object, assoc, depth)
\* Of a list, the key is the next number; of an object, it is read.
KeyAt(s, i, entries, object) ==
  IF ~object THEN Got(IntVal(Len(entries)), i)
  ELSE LET name == JsonStringAt(s, Space(s, i))
           colon == IF name = <<>> THEN 0 ELSE Space(s, name[1].at)
       IN IF CharAt(s, colon) = ":" THEN Got(NormKey(StrVal(name[1].val)), colon + 1) ELSE <<>>
JsonKeyed(s, key, entries, object, assoc, depth) ==
  IF key = <<>> THEN <<>>
  ELSE JsonKept(s, key[1].val, entries, JsonAt(s, key[1].at, assoc, depth), object, assoc, depth)
JsonNext(s, i, entries, object, assoc, depth) ==
  JsonKeyed(s, KeyAt(s, i, entries, object), entries, object, assoc, depth)
JsonFirst(s, i, object, assoc, depth) ==
  IF CharAt(s, i) = Close(object) THEN Got(<<>>, i + 1) ELSE JsonNext(s, i, <<>>, object, assoc, depth)
JsonBrackets(s, i, object, assoc, depth) ==
  GotIf(JsonFirst(s, Space(s, i), object, assoc, depth),
        LAMBDA entries : IF object THEN FinishObj(entries, assoc) ELSE ArrVal(entries))
JsonValue(s, i, assoc, depth) ==
  CASE depth > JsonDepth \/ i > Len(s) -> <<>>
    [] depth <= JsonDepth /\ CharAt(s, i) = "n" -> Literal(s, i, Chars("null"), Null)
    [] depth <= JsonDepth /\ CharAt(s, i) = "t" -> Literal(s, i, Chars("true"), BoolVal(TRUE))
    [] depth <= JsonDepth /\ CharAt(s, i) = "f" -> Literal(s, i, Chars("false"), BoolVal(FALSE))
    [] depth <= JsonDepth /\ CharAt(s, i) = "\"" -> GotIf(JsonString(s, i + 1, <<>>), StrVal)
    [] depth <= JsonDepth /\ CharAt(s, i) \in {"[", "{"} -> JsonBrackets(s, i + 1, s[i] = "{", assoc, depth + 1)
    [] OTHER -> JsonNumber(s, i)
JsonAt(s, i, assoc, depth) == JsonValue(s, Space(s, i), assoc, depth)
JsonWhole(s, read) == IF read = <<>> THEN Null ELSE IF Space(s, read[1].at) > Len(s) THEN read[1].val ELSE Null
JsonDecode(s, assoc) == JsonWhole(s, JsonAt(s, 1, assoc, 0))

----------------------------------------------------------------------------
(* var_export *)

Pad(n) == [k \in 1..n |-> " "]
ExportChar(c) == IF c \in {"'", "\\"} THEN <<"\\", c>> ELSE <<c>>
ExportString(s) == <<"'">> \o FlattenSeq([k \in DOMAIN s |-> ExportChar(s[k])]) \o <<"'">>
ExportFloat(h) == FloatText(h) \o (IF h % 100 = 0 THEN Chars(".0") ELSE <<>>)
ExportKey(k) == IF k[1] = "int" THEN IntText(k[2]) ELSE <<"'">> \o k[2] \o <<"'">>
BeforeArray(v, indent) == IF v[1] = "arr" THEN <<"\n">> \o Pad(2 * indent + 2) ELSE <<>>

RECURSIVE Exported(_, _), ExportEntries(_, _, _)
ExportEntry(entry, indent, object) ==
  Pad(2 * indent + (IF object THEN 3 ELSE 2)) \o ExportKey(entry[1]) \o Chars(" => ")
  \o (IF object THEN <<>> ELSE BeforeArray(entry[2], indent)) \o Exported(entry[2], indent + 1) \o Chars(",\n")
ExportEntries(entries, indent, object) ==
  IF entries = <<>> THEN <<>>
  ELSE ExportEntry(entries[1], indent, object) \o ExportEntries(Tail(entries), indent, object)
ExportBraced(open, entries, indent, object, close) ==
  open \o <<"\n">> \o ExportEntries(entries, indent, object) \o Pad(2 * indent) \o close
Exported(v, indent) ==
  CASE indent > ExportDepth \/ v[1] = "null" -> Chars("NULL")
    [] indent <= ExportDepth /\ v[1] = "bool" -> IF v[2] THEN Chars("true") ELSE Chars("false")
    [] indent <= ExportDepth /\ v[1] = "int" -> IntText(v[2])
    [] indent <= ExportDepth /\ v[1] = "float" -> ExportFloat(v[2])
    [] indent <= ExportDepth /\ v[1] = "str" -> ExportString(v[2])
    [] indent <= ExportDepth /\ v[1] \in {"arr", "obj", "case"} ->
         ExportBraced(IF v[1] = "arr" THEN Chars("array (") ELSE <<"\\">> \o v[2] \o Chars("::__set_state(array("),
                      Members(v), indent, v[1] # "arr", IF v[1] = "arr" THEN <<")">> ELSE Chars("))"))
VarExport(v) == Exported(v, 0)
=============================================================================
