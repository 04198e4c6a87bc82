------------------------------ MODULE MCVmCode ------------------------------
(***************************************************************************)
(* Bodies for VmCode: every construct the compiler accepts, nested in the  *)
(* ways that make it patch jumps, and operands on both sides of each       *)
(* decision.  Left out are the shapes on which machine and walker differ;  *)
(* the README lists them.                                                  *)
(***************************************************************************)
EXTENDS VmCode, TLC

MCVarName == {"x", "y", "a", "k", "u"}
MCProps == "p" :> EmptyArr @@ "q" :> IntVal(1)
MCLiteral == {Null, BoolVal(TRUE), BoolVal(FALSE), StrVal(<<>>), StrVal(<<97>>), EmptyArr}
             \cup {IntVal(n) : n \in 0..20}

Var(x) == <<"var", x>>
Lit(n) == <<"lit", IntVal(n)>>
Text == <<"lit", StrVal(<<97>>)>>
X == Var("x")
Undefined == Var("u")
Call(e) == <<"call", <<e>>>>
Op2(op, l, r) == <<"binary", op, l, r>>
Incr(x) == <<"incdec", TRUE, 1, Var(x)>>
Set(x, e) == <<"expr", <<"assign", Var(x), e>>>>
Do(e) == <<"expr", e>>
EchoOf(e) == <<"echo", <<e>>>>
L(s) == <<"line", s>>
Pair(e, f) == <<"array", <<<<NoExpr, e>>, <<NoExpr, f>>>>>>

\* $x = 0; $a = [10, 20]; ...
Prepared(stmts) == <<L(Set("x", Lit(0))), L(Set("a", Pair(Lit(10), Lit(20))))>> \o stmts

----------------------------------------------------------------------------
(* Control flow. *)

Leaving == {<<"break", 1>>, <<"continue", 1>>, <<"return", X>>, <<"return", NoExpr>>}
Quit(c, s) == <<L(<<"if", <<<<Op2("==", X, Lit(c)), <<L(s)>>>>>>, <<>>>>), L(EchoOf(X))>>
Rounds == {Quit(c, s) : c \in {1, 2}, s \in Leaving}

WhileOf(v, b) == <<"while", Op2("<", Incr(v), Lit(3)), b>>
DoOf(v, b) == <<"dowhile", b, Op2("<", Incr(v), Lit(3))>>
ForOf(v, b) == <<"for", <<<<"assign", Var(v), Lit(1)>>>>,
                 <<Call(Lit(7)), Op2("<=", Var(v), Lit(2))>>, <<Incr(v)>>, b>>
ForeverOf(v, b) == <<"for", <<>>, <<>>, <<Incr(v)>>,
                     <<L(<<"if", <<<<Op2(">", Var(v), Lit(2)), <<L(<<"break", 1>>)>>>>>>, <<>>>>)>> \o b>>
ForeachOf(v, b) == <<"foreach", Var("a"), Var("k"), Var("y"),
                     <<L(Set(v, Op2("+", Var(v), Lit(1))))>> \o b>>
LoopsOf(v, b) == {WhileOf(v, b), DoOf(v, b), ForOf(v, b), ForeverOf(v, b), ForeachOf(v, b)}

\* A switch on $x; the default is last, or nothing matches after it.
SwitchOf(b, c) ==
  {<<"switch", X, <<<<Lit(1), b>>, <<Lit(2), <<L(EchoOf(Text))>>>>, <<NoExpr, c>>>>>>,
   <<"switch", Call(X), <<<<Lit(1), <<>>>>, <<Call(Lit(2)), b \o <<L(<<"break", 1>>)>>>>,
                          <<NoExpr, c>>, <<Lit(9), <<L(EchoOf(Text))>>>>>>>>}
BranchOf(b, c) == <<"if", <<<<Op2("==", X, Lit(1)), b>>, <<Op2("==", X, Lit(2)), c>>>>,
                    <<L(EchoOf(Text))>>>>

SwitchArms == {<<L(<<"break", 1>>)>>, <<L(EchoOf(Lit(5)))>>, <<L(<<"return", X>>)>>}

Flat == UNION {LoopsOf("x", r) : r \in Rounds}
NestedLoops == UNION {LoopsOf("x", <<L(s)>> \o r) :
                        s \in (LoopsOf("k", <<L(EchoOf(Lit(8)))>>) \ {ForeachOf("k", <<L(EchoOf(Lit(8)))>>)})
                              \cup UNION {LoopsOf("u", Quit(1, l)) : l \in Leaving},
                        r \in {Quit(2, <<"continue", 1>>), Quit(2, <<"break", 1>>)}}
Switches == UNION {LoopsOf("x", <<L(s), L(EchoOf(X))>>) :
                     s \in UNION {SwitchOf(b, c) : b, c \in SwitchArms}}
Branches == UNION {LoopsOf("x", <<L(BranchOf(b, c)), L(EchoOf(X))>>) :
                     b, c \in {<<>>} \cup {<<L(s)>> : s \in Leaving}}

\* A variable that is counted up needs a value first.
Counted2(s) == Prepared(<<L(Set("u", Lit(0))), L(Set("k", Lit(0))), L(s)>>)

----------------------------------------------------------------------------
(* Expressions. *)

Atoms == {Lit(0), Text, X, Undefined, Call(Lit(1))}
Simple == {Op2(op, l, r) : op \in {"&&", "||"}, l, r \in Atoms}
  \cup {Op2(op, l, r) : op \in {"+", ".", "==", "<", "===", "<=>"}, l \in Atoms, r \in {Lit(1), X, Call(Text)}}
  \cup {<<"cond", c, m, e>> : c \in Atoms, m \in {NoExpr, Lit(2), Call(Lit(3))}, e \in {Undefined, Lit(4)}}
  \cup {Op2("??", l, r) : l \in {X, Undefined, <<"index", Var("a"), Lit(1)>>, <<"index", Var("a"), Lit(9)>>},
                          r \in Atoms}
  \cup {<<"isset", s>> : s \in {<<X>>, <<Undefined>>, <<X, Undefined, X>>, <<X, Var("a")>>,
                                <<<<"index", Var("a"), Lit(0)>>, <<"index", Var("a"), Lit(7)>>>>,
                                <<<<"prop", "q">>, <<"index", <<"prop", "p">>, Lit(0)>>>>}}
  \cup {<<"empty", v>> : v \in {X, Undefined}} \cup {<<"unary", "!", e>> : e \in Atoms}
  \cup {<<"unary", op, e>> : op \in {"-", "+"}, e \in {X, Lit(3), Text}}
  \cup {<<"cast", t, e>> : t \in {"int", "bool", "str", "float"}, e \in {X, Text, Lit(3)}}
  \cup {<<"assign", X, Call(Lit(6))>>, <<"assignop", "+", X, Lit(2)>>, <<"assignop", ".", X, Text>>,
        Incr("x"), <<"incdec", FALSE, 1, X>>, <<"incdec", TRUE, -1, X>>, <<"incdec", FALSE, -1, X>>}
  \cup {<<"template", <<Text, e, Text>>>> : e \in Atoms}
  \cup {<<"index", Var("a"), e>> : e \in {Lit(0), Lit(5), Text, Call(Lit(1))}}
Deep == {Op2("&&", s, Call(Lit(9))) : s \in Simple}
  \cup {<<"cond", Call(Lit(0)), Lit(1), s>> : s \in Simple}
Expressions == {Prepared(<<L(EchoOf(e)), L(<<"return", X>>)>>) : e \in Simple \cup Deep}

----------------------------------------------------------------------------
(* Stores. *)

Element(base, e) == <<"index", base, e>>
Prop == <<"prop", "p">>
Stores ==
  {<<"assign", Element(b, k), v>> : b \in {Var("a"), Var("u"), Prop}, k \in {Lit(0), Text, NoExpr}, v \in {X, Call(Lit(3))}}
  \cup {<<"assign", Element(Element(b, Lit(1)), k), Lit(4)>> : b \in {Var("a"), Var("u"), Prop}, k \in {Text, NoExpr}}
  \cup {<<"assign", Element(Element(Element(b, Lit(1)), Text), Text), X>> : b \in {Var("a"), Prop}}
  \cup {<<"assign", <<"prop", q>>, Call(X)>> : q \in {"p", "q"}}
  \cup {<<"assignop", op, <<"prop", "q">>, Lit(2)>> : op \in {"+", "."}}
  \cup {<<"assignop", ".", v, Lit(2)>> : v \in {X, Undefined}}
Settings == {Do(e) : e \in Stores}
  \cup {<<"unset", <<e>>>> : e \in {X, Undefined, Element(Var("a"), Lit(0)), Element(Var("u"), Lit(0)),
                                    Element(Prop, Lit(0)), <<"prop", "q">>}}
  \cup {<<"static", "a", Pair(Call(Lit(1)), X)>>, <<"static", "x", NoExpr>>,
        <<"global", "x">>, <<"global", "a">>}
  \cup {Set("y", Element(Element(Var("a"), Lit(1)), Text)),
        Set("a", <<"array", <<<<Lit(3), X>>, <<NoExpr, Call(Lit(1))>>, <<Lit(1), Pair(X, X)>>>>>>)}
  \cup {ForeachOf("x", <<L(Do(<<"assign", Element(Var("a"), NoExpr), X>>))>>),
        <<"foreach", X, NoExpr, Var("a"), <<>>>>, <<"foreach", Undefined, NoExpr, X, <<>>>>}
Probes == {Do(<<"assign", Element(Var("a"), NoExpr), Call(Lit(3))>>),
           Do(<<"assign", Element(Element(Prop, Lit(1)), Text), Lit(4)>>),
           <<"unset", <<Element(Var("a"), Lit(0))>>>>, <<"unset", <<X>>>>, <<"global", "a">>,
           <<"static", "a", Pair(Call(Lit(1)), X)>>,
           Set("y", Element(Element(Var("a"), Lit(1)), Text)),
           ForeachOf("x", <<L(Do(<<"assign", Element(Var("a"), NoExpr), X>>))>>)}
StoreBodies == {Prepared(<<L(s), L(t), L(<<"return", Op2("??", Var("a"), Prop)>>)>>) :
                   s \in Settings, t \in Probes}
  \cup {Prepared(<<L(Set("y", Element(Var("x"), Lit(0)))), L(EchoOf(Var("y")))>>)}
  \cup {<<L(s), L(t), L(<<"return", <<"isset", <<X>>>>>>)>> :
          s \in {<<"static", "x", Call(Lit(1))>>, <<"global", "x">>, <<"static", "a", NoExpr>>},
          t \in {Do(<<"incdec", FALSE, 1, X>>), Do(<<"assignop", ".", X, Text>>), Set("x", Lit(5)),
                 Do(<<"assign", Element(Var("a"), NoExpr), Lit(1)>>), <<"unset", <<X>>>>,
                 <<"unset", <<Element(Var("a"), Lit(0))>>>>}}

MCBodies == {Counted2(s) : s \in Flat \cup NestedLoops \cup Switches \cup Branches}
  \cup Expressions \cup StoreBodies

\* The parts of an expression or a statement, and all parts of some.
Arms(arms) == FlattenSeq([i \in DOMAIN arms |-> <<arms[i][1]>> \o arms[i][2]])
PartsOf(e) ==
  CASE e[1] \in {"template", "isset", "call", "block", "echo", "unset"} -> e[2]
    [] e[1] = "array" -> FlattenSeq(e[2])
    [] e[1] = "if" -> Arms(e[2]) \o e[3]
    [] e[1] = "switch" -> <<e[2]>> \o Arms(e[3])
    [] e[1] = "while" -> <<e[2]>> \o e[3]
    [] e[1] = "dowhile" -> <<e[3]>> \o e[2]
    [] e[1] = "for" -> e[2] \o e[3] \o e[4] \o e[5]
    [] e[1] = "foreach" -> <<e[2], e[3], e[4]>> \o e[5]
    [] e[1] \in {"assign", "index", "cond", "line", "expr", "return", "empty"} -> Tail(e)
    [] e[1] \in {"binary", "assignop", "unary", "cast", "static"} -> SubSeq(e, 3, Len(e))
    [] e[1] = "incdec" -> <<e[4]>>
    [] OTHER -> <<>>
WithParts(es) ==
  es \cup {PartsOf(x[1])[x[2]] : x \in {y \in es \X (1..6) : y[2] \in DOMAIN PartsOf(y[1])}}
MCSyntax ==
  LET within[depth \in 0..10] ==
        IF depth = 0 THEN {<<"block", b>> : b \in MCBodies} ELSE WithParts(within[depth - 1])
  IN within[10]
=============================================================================
