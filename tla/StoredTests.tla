----------------------------- MODULE StoredTests -----------------------------
(***************************************************************************)
(* Values for Stored, and what each format must give back of them.  Left   *)
(* out, as the formats do not keep them: more than two decimals, numbers   *)
(* as properties of packed objects, quotes in the keys var_export writes,  *)
(* and enum cases there.                                                   *)
(***************************************************************************)
EXTENDS Stored

Unknown == Chars("U")
Strings == {Chars(s) : s \in {"", "a", "5", "-0", "it's", "a\\b", "c:/d", "x\";}", "s:1:\"x\";", "}{", "[1,]", "\\u0041"}}
           \cup {<<"\n", "\t", "\r", "\f">>, <<Nul, "z">>}
Leaves == {Null, BoolVal(TRUE), BoolVal(FALSE), Case(Chars("E"), Chars("A"))}
          \cup {IntVal(n) : n \in {0, -7, 15}} \cup {FloatVal(h) : h \in {150, -25, 200, 5}} \cup {StrVal(s) : s \in Strings}
Keys == {IntVal(n) : n \in {0, 1, -1, 10}} \cup {StrVal(Chars(s)) : s \in {"", "a", "05", "-0", "1x"}}
Names == {StrVal(Chars(s)) : s \in {"a", "1", "0", "05"}}
Classes == Declared \cup {Unknown, StdClass, Incomplete}

Few == {IntVal(1), StrVal(Chars("x\";}"))}
Pairs(keys, first, second) ==
  {<<<<k, v>>, <<l, w>>>> : k \in keys, l \in keys, v \in first, w \in second}
Distinct(entries) == entries[1][1] # entries[2][1]
Arrays == {ArrVal(<<>>)} \cup {ArrVal(<<<<k, v>>>>) : k \in Keys, v \in Leaves}
          \cup {ArrVal(entries) : entries \in {p \in Pairs(Keys, Few, {Null}) : Distinct(p)}}
Objects == {ObjVal(c, <<>>) : c \in Classes} \cup {ObjVal(c, <<<<k, v>>>>) : c \in Classes, k \in Names, v \in Few}
           \cup {ObjVal(c, entries) : c \in Classes, entries \in {p \in Pairs(Names, {Null}, Few) : Distinct(p)}}

\* v inside of what the letters of path say.
Inside(letter, v) ==
  CASE letter = "l" -> ArrVal(<<<<IntVal(0), Null>>, <<IntVal(1), v>>>>)
    [] letter = "m" -> ArrVal(<<<<StrVal(Chars("k")), v>>, <<IntVal(0), ObjVal(Chars("W"), <<>>)>>>>)
    [] letter = "s" -> ObjVal(Chars("S"), <<<<StrVal(Chars("p")), v>>>>)
    [] letter = "w" -> ObjVal(Chars("W"), <<<<StrVal(Chars("q")), v>>, <<StrVal(Chars("r")), ObjVal(Chars("S"), <<>>)>>>>)
    [] letter = "u" -> ObjVal(Unknown, <<<<StrVal(Chars("p")), v>>>>)
RECURSIVE Nest(_, _)
Nest(path, v) == IF path = <<>> THEN v ELSE Inside(path[1], Nest(Tail(path), v))
Deep == {Nest(path, v) : path \in UNION {[1..n -> {"l", "m", "s", "w", "u"}] : n \in 1..3},
                         v \in {IntVal(1), ArrVal(<<>>), Case(Chars("E"), Chars("A"))}}
        \cup {Nest([k \in 1..n |-> letter], v) : n \in 4..(SerDepth + 2), letter \in {"l", "s", "u"}, v \in {Null, ArrVal(<<>>)}}
SomeValues == Leaves \cup Arrays \cup Objects \cup Deep

----------------------------------------------------------------------------
(* What the values are made of. *)

RECURSIVE Nested(_), HasCase(_)
Parts(v) == IF v[1] \in {"arr", "obj"} THEN {v[Len(v)][k][2] : k \in DOMAIN v[Len(v)]} ELSE {}
LargestOf(S) == IF S = {} THEN 0 ELSE CHOOSE n \in S : \A m \in S : m <= n
\* How deep the deepest value is; a case holds its name.
Nested(v) == IF v[1] = "case" THEN 1 ELSE LargestOf({1 + Nested(w) : w \in Parts(v)})
SerNested(v) == IF v[1] = "case" THEN 0 ELSE LargestOf({1 + IF w[1] = "case" THEN 0 ELSE Nested(w) : w \in Parts(v)})
HasCase(v) == v[1] = "case" \/ \E w \in Parts(v) : HasCase(w)

Allowances == {<<>>, <<{}>>, <<{Chars("w")}>>}
IsExact(v) == ~HasCase(v)
StoredTests ==
  {<<"serialize", v, a>> : v \in SomeValues, a \in Allowances}
  \cup {<<"json", v, assoc>> : v \in SomeValues, assoc \in BOOLEAN}
  \cup {<<"spaced", v, assoc>> : v \in {w \in SomeValues : IsExact(w)}, assoc \in BOOLEAN}
  \cup {<<"cut", v, FALSE>> : v \in {w \in Arrays \cup Objects : w[Len(w)] # <<>>}}
ExportTests == {<<"export", v>> : v \in {w \in SomeValues : ~HasCase(w) /\ Nested(w) <= ExportDepth}}

----------------------------------------------------------------------------
(* The answers. *)

\* JSON with blanks everywhere, each character of a string as \u and its code,
\* and each float with an exponent.
Escaped(c) == Chars("\\u00") \o <<Chars("0123456789ABCDEF")[Code[c] \div 16 + 1], Chars("0123456789ABCDEF")[(Code[c] % 16) + 1]>>
Spelled(s) == <<"\"">> \o FlattenSeq([k \in DOMAIN s |-> Escaped(s[k])]) \o <<"\"">>
Blank == <<" ", "\n">>
RECURSIVE Spaced(_), SpacedEntries(_, _)
SpacedEntries(entries, list) ==
  IF entries = <<>> THEN <<>>
  ELSE (IF list THEN <<>> ELSE Blank \o Spelled(KeyText(entries[1][1])) \o Blank \o <<":">>)
       \o Spaced(entries[1][2]) \o (IF Len(entries) > 1 THEN <<",">> ELSE <<>>) \o SpacedEntries(Tail(entries), list)
Bracketed(entries, list) ==
  IF list THEN <<"[">> \o Blank \o SpacedEntries(entries, TRUE) \o <<"]">>
  ELSE <<"{">> \o Blank \o SpacedEntries(entries, FALSE) \o <<"}">>
InOrder(v) == v[1] = "arr" /\ [k \in DOMAIN v[2] |-> v[2][k][1]] = [k \in DOMAIN v[2] |-> IntVal(k - 1)]
SpacedText(v) ==
  CASE v[1] = "float" -> IntText(v[2]) \o Chars("E-2")
    [] v[1] = "str" -> Spelled(v[2])
    [] v[1] \in {"arr", "obj"} -> Bracketed(v[Len(v)], InOrder(v))
    [] OTHER -> JsonEncode(v)
Spaced(v) == Blank \o SpacedText(v) \o Blank

\* Of a text of several values, every proper beginning, and twice the text.
Broken(text) == {SubSeq(text, 1, n) : n \in 0..(Len(text) - 1)} \cup {text \o text}
TextOf(test) == IF test[1] = "spaced" THEN Spaced(test[2]) ELSE JsonEncode(test[2])
StoredAnswer(test) ==
  CASE test[1] = "serialize" -> Unserialize(Serialize(test[2]), test[3])
    [] test[1] \in {"json", "spaced"} -> JsonDecode(TextOf(test), test[3])
    [] test[1] = "cut" -> {JsonDecode(text, test[3]) : text \in Broken(JsonEncode(test[2]))}
ExportSource(test) == Chars("<?php return ") \o VarExport(test[2]) \o <<";">>

----------------------------------------------------------------------------
(* What they should be. *)

\* serialize: an object is its class's again, or an incomplete one that says
\* which; those with methods for it are called, after those they hold.
Known(class, allowed) ==
  \/ class = Incomplete
  \/ class \in Declared /\ (allowed = <<>> \/ (class = Chars("W") /\ Chars("w") \in allowed[1]))
Prefixed(props) == [k \in DOMAIN props |-> <<StrVal(Chars("_") \o props[k][1][2]), props[k][2]>>]
RECURSIVE Seen(_, _), Hooks(_, _)
SeenIn(entries, allowed) == [k \in DOMAIN entries |-> <<entries[k][1], Seen(entries[k][2], allowed)>>]
Seen(v, allowed) ==
  CASE v[1] = "arr" -> ArrVal(SeenIn(v[2], allowed))
    [] v[1] = "obj" /\ Known(v[2], allowed) -> ObjVal(v[2], SeenIn(v[3], allowed))
    [] v[1] = "obj" /\ ~Known(v[2], allowed) ->
         ObjVal(Incomplete, <<<<StrVal(Chars("__PHP_Incomplete_Class_Name")), StrVal(v[2])>>>>
                            \o SeenIn(IF v[2] = Chars("S") THEN Prefixed(v[3]) ELSE v[3], allowed))
    [] OTHER -> v
Hooks(v, allowed) ==
  IF v[1] \notin {"arr", "obj"} THEN <<>>
  ELSE FlattenSeq([k \in DOMAIN v[Len(v)] |-> Hooks(v[Len(v)][k][2], allowed)])
       \o IF v[1] = "obj" /\ v[2] \in {Chars("W"), Chars("S")} /\ Known(v[2], allowed) THEN <<v[2]>> ELSE <<>>

\* JSON: numbers without a fraction are ints, lists stay arrays, and the rest
\* is an object, or the array of its properties.
AsProps(entries) == [k \in DOMAIN entries |-> <<StrVal(KeyText(entries[k][1])), entries[k][2]>>]
AsKeys(entries) == [k \in DOMAIN entries |-> <<NormKey(entries[k][1]), entries[k][2]>>]
ObjectView(entries, assoc) == IF assoc THEN ArrVal(AsKeys(entries)) ELSE ObjVal(StdClass, AsProps(entries))
RECURSIVE View(_, _, _)
ViewIn(entries, assoc, exact) == [k \in DOMAIN entries |-> <<entries[k][1], View(entries[k][2], assoc, exact)>>]
View(v, assoc, exact) ==
  CASE v[1] = "float" /\ ~exact /\ v[2] % 100 = 0 -> IntVal(v[2] \div 100)
    [] InOrder(v) -> ArrVal(ViewIn(v[2], assoc, exact))
    [] v[1] \in {"arr", "obj"} /\ ~InOrder(v) -> ObjectView(ViewIn(v[Len(v)], assoc, exact), assoc)
    [] v[1] = "case" -> ObjectView(<<<<StrVal(Chars("name")), StrVal(v[3])>>>>, assoc)
    [] OTHER -> v

StoredIsRight(test, answer) ==
  CASE test[1] = "serialize" ->
         answer = IF SerNested(test[2]) > SerDepth THEN <<BoolVal(FALSE), <<>>>>
                  ELSE <<Seen(test[2], test[3]), Hooks(test[2], test[3])>>
    [] test[1] \in {"json", "spaced"} ->
         answer = IF Nested(test[2]) > JsonDepth THEN Null ELSE View(test[2], test[3], test[1] = "spaced")
    [] test[1] = "cut" -> answer = {Null}

\* var_export: the syntax of a literal of the value.
Negated(n, e) == IF n < 0 THEN <<"unary", "-", e>> ELSE e
Absolute(n) == IF n < 0 THEN -n ELSE n
Joined(s) == FoldLeft(LAMBDA word, c : word \o c, "", s)
FloatToken(h) ==
  ToString(h \div 100) \o "."
  \o (IF h % 10 = 0 THEN ToString((h % 100) \div 10) ELSE ToString((h % 100) \div 10) \o ToString(h % 10))
RECURSIVE Literally(_)
Items(entries) == [k \in DOMAIN entries |-> <<<<Literally(entries[k][1])>>, FALSE, FALSE, Literally(entries[k][2])>>]
Literally(v) ==
  CASE v[1] = "null" -> v
    [] v[1] = "bool" -> IF v[2] THEN <<"true">> ELSE <<"false">>
    [] v[1] = "int" -> Negated(v[2], <<"int", Absolute(v[2])>>)
    [] v[1] = "float" -> Negated(v[2], <<"float", FloatToken(Absolute(v[2]))>>)
    [] v[1] = "str" -> <<"str", v[2]>>
    [] v[1] = "arr" -> <<"array", Items(v[2])>>
    [] v[1] = "obj" ->
         <<"staticcall", <<"const", <<"name", TRUE, <<Joined(v[2])>>>>>>, <<"id", "__set_state">>,
           <<<<FALSE, <<>>, FALSE, <<"array", Items(v[3])>>>>>>>>
Exact(test, answer) == answer = <<"program", <<<<"marked", 1, <<"return", <<Literally(test[2])>>>>>>>>>>
=============================================================================
