---------------------------- MODULE SyntaxTests ----------------------------
(***************************************************************************)
(* Programs for Parser.  A program is written from its syntax with the     *)
(* fewest parentheses PHP's table of precedence allows, as a sequence of   *)
(* lexemes, and laid out as text; reading the text must give the syntax    *)
(* back, with the line each statement starts on.                           *)
(***************************************************************************)
EXTENDS Parser

(* PHP's table, loosest first.  An operand of a left-associative operator   *)
(* may stand to its left without parentheses, and so on.                    *)
Table ==
  <<{"throw", "fn", "include"}, {"or"}, {"xor"}, {"and"}, {"print"}, {"yield"}, {"assign"}, {"ternary"},
    {"??"}, {"||"}, {"&&"}, {"|"}, {"^"}, {"&"}, {"==", "!=", "===", "!==", "<=>"}, {"<", ">", "<=", ">="},
    {"|>"}, {"."}, {"<<", ">>"}, {"+", "-"}, {"*", "/", "%"}, {"!"}, {"instanceof"}, {"unary"}, {"**"},
    {"new", "closure"}, {"primary"}>>
LevelOf == [w \in UNION {Table[k] : k \in DOMAIN Table} |-> CHOOSE k \in DOMAIN Table : w \in Table[k]]
Binaries ==
  UNION {Table[k] : k \in LevelOf["??"]..LevelOf["*"]} \cup {"or", "xor", "and", "**"}
RightAssociative == {"??", "**"}
NonAssociative == {"==", "!=", "===", "!==", "<=>", "<", ">", "<=", ">="}

\* The parser reads `!$a instanceof B` as `(!$a) instanceof B`, so ! is
\* written with parentheses around whatever is not closer than instanceof.
KindOf(e) ==
  CASE e[1] = "bin" -> e[2]
    [] e[1] = "unary" -> IF e[2] = "!" THEN "!" ELSE "unary"
    [] e[1] \in {"cast", "clone"} -> "unary"
    [] e[1] \in {"assign", "assignref", "assignop"} -> "assign"
    [] e[1] = "yieldfrom" -> "yield"
    [] e[1] = "newanon" -> "new"
    [] e[1] = "call" /\ e[2] = Simple("include") -> "include"
    [] e[1] \in DOMAIN LevelOf -> e[1]
    [] OTHER -> "primary"
\* What these take extends as far as it can, and nothing stands before them
\* that could take them for its own, so at the end they need no parentheses.
Opens(e) == KindOf(e) \in {"unary", "!", "assign", "print", "yield", "throw", "fn", "include"}
Tightest == Len(Table)
OperandLevel(op, right) ==
  CASE op \in NonAssociative -> LevelOf[op] + 1
    [] op \in RightAssociative -> IF right THEN LevelOf[op] ELSE LevelOf[op] + 1
    [] OTHER -> IF right THEN LevelOf[op] + 1 ELSE LevelOf[op]

\* Sequences of lexemes; StatementMark stands before the first one of each
\* statement.
StatementMark == "STATEMENT"
Parens(s) == <<"(">> \o s \o <<")">>
RECURSIVE Separated(_, _)
Separated(sep, ss) ==
  CASE ss = <<>> -> <<>> [] Len(ss) = 1 -> ss[1] [] OTHER -> ss[1] \o <<sep>> \o Separated(sep, Tail(ss))
When(cond, s) == IF cond THEN s ELSE <<>>
NameText(name) ==
  (IF name[2] THEN "\\" ELSE "") \o FoldLeft(LAMBDA t, s : t \o "\\" \o s, name[3][1], Tail(name[3]))
OpAssign(e) == IF e[1] = "assignop" THEN <<e[2] \o "=">> ELSE <<"=">> \o When(e[1] = "assignref", <<"&">>)
PrefixWord(e) ==
  CASE e[1] = "unary" -> <<e[2]>>
    [] e[1] = "cast" -> <<"(", e[2], ")">>
    [] e[1] = "yieldfrom" -> <<"yield", "from">>
    [] OTHER -> <<e[1]>>
PrefixLevel(e) ==
  CASE KindOf(e) = "!" -> LevelOf["unary"]
    [] e[1] = "clone" -> LevelOf["new"]
    [] OTHER -> LevelOf[KindOf(e)]

RECURSIVE Written(_, _, _), WrittenProgram(_, _)
\* The whole of e, where it stands in brackets.
Whole(e) == Written(e, 1, TRUE)
WrittenOpt(o) == IF o = <<>> THEN <<>> ELSE Whole(o[1])
WrittenArg(a) ==
  When(a[1], <<"...">>) \o When(a[2] # <<>>, a[2] \o <<":">>) \o When(a[3], <<"&">>) \o Whole(a[4])
WrittenArgs(args) ==
  IF args = <<Callable>> THEN <<"(", "...", ")">>
  ELSE Parens(Separated(",", [k \in DOMAIN args |-> WrittenArg(args[k])]))
\* A parenthesis after include holds its argument.
Included(s) == IF s[1] = "(" THEN Parens(s) ELSE s
\* Before an arrow, which yield would take.
BeforeArrow(e) == Written(e, LevelOf["yield"] + 1, FALSE)
WrittenItem(a) ==
  When(a[1] # <<>>, BeforeArrow(a[1][1]) \o <<"=>">>) \o When(a[2], <<"...">>) \o When(a[3], <<"&">>)
  \o BeforeArrow(a[4])
WrittenSlot(s) == IF s = <<>> THEN <<>> ELSE WrittenItem(s[1])
WrittenParam(p) ==
  SetToSeq(p[1]) \o p[2] \o When(p[3], <<"&">>) \o When(p[4], <<"...">>) \o <<"$" \o p[5]>>
  \o When(p[6] # <<>>, <<"=">> \o WrittenOpt(p[6]))
WrittenParams(ps) == Parens(Separated(",", [k \in DOMAIN ps |-> WrittenParam(ps[k])]))
WrittenUses(us) ==
  When(us # <<>>, <<"use">> \o Parens(Separated(",",
    [k \in DOMAIN us |-> When(us[k][1], <<"&">>) \o <<"$" \o us[k][2]>>])))
WrittenArm(a) ==
  (IF a[1] = <<>> THEN <<"default">> ELSE Separated(",", [k \in DOMAIN a[1] |-> BeforeArrow(a[1][k])]))
  \o <<"=>">> \o Whole(a[2])
WrittenMember(name) ==
  CASE name[1] = "id" -> <<name[2]>> [] name[1] = "var" -> <<"$" \o name[2]>> [] OTHER -> <<"{">> \o Whole(name) \o <<"}">>
Base(e) == Written(e, Tightest, FALSE)
\* A name after -> or :: before arguments is a method's.
Callee(e) == IF e[1] \in {"prop", "classconst"} THEN Parens(Whole(e)) ELSE Base(e)
\* In a class reference after new.
NewTarget(e) == IF e[1] \in {"const", "var"} THEN Whole(e) ELSE Base(e)
ExprList(es) == Separated(",", [k \in DOMAIN es |-> Whole(es[k])])
Quoted(s) == "'" \o s \o "'"
RECURSIVE PartText(_)
PartText(parts) ==
  CASE parts = <<>> -> "\""
    [] parts # <<>> /\ Head(parts)[1] = "lit" -> Word(Head(parts)[2]) \o PartText(Tail(parts))
    [] OTHER -> "{" \o FoldLeft(LAMBDA t, s : t \o s, "", Whole(Head(parts)[2])) \o "}" \o PartText(Tail(parts))
WrittenBlock(style, b) == <<"{">> \o WrittenProgram(style, b) \o <<"}">>
ClassTail(parent, interfaces, members) ==
  When(parent # <<>>, <<"extends", NameText(parent[1])>>)
  \o When(interfaces # <<>>, <<"implements">> \o Separated(",", [k \in DOMAIN interfaces |-> <<NameText(interfaces[k])>>]))
  \o <<"{">> \o members \o <<"}">>

Raw(e, last) ==
  CASE e[1] = "bin" ->
         Written(e[3], OperandLevel(e[2], FALSE), FALSE) \o <<e[2]>> \o Written(e[4], OperandLevel(e[2], TRUE), last)
    [] e[1] \in {"unary", "cast", "clone", "print", "throw", "yieldfrom"} ->
         PrefixWord(e) \o Written(e[Len(e)], PrefixLevel(e), last)
    [] e[1] \in {"assign", "assignref", "assignop"} ->
         Whole(e[Len(e) - 1]) \o OpAssign(e) \o Written(e[Len(e)], LevelOf["assign"], last)
    [] e[1] = "ternary" ->
         Written(e[2], LevelOf["ternary"] + 1, FALSE) \o <<"?">> \o WrittenOpt(e[3]) \o <<":">>
         \o Written(e[4], LevelOf["ternary"] + 1, last)
    [] e[1] = "instanceof" ->
         Written(e[2], LevelOf["instanceof"] + 1, FALSE) \o <<"instanceof">> \o NewTarget(e[3])
    [] e[1] = "yield" ->
         <<"yield">> \o When(Len(e) > 1 /\ e[2] # <<>>, BeforeArrow(e[2][1]) \o <<"=>">>)
         \o When(Len(e) > 1, Written(e[3], LevelOf["assign"], last))
    [] e[1] = "fn" ->
         When(e[2], <<"static">>) \o <<"fn">> \o WrittenParams(e[3]) \o <<"=>">> \o Written(e[4], LevelOf["assign"], last)
    [] KindOf(e) = "include" -> <<"include">> \o Included(Written(e[3][1][4], LevelOf["assign"], last))
    [] e[1] \in {"true", "false", "null"} -> <<e[1]>>
    [] e[1] = "int" -> <<ToString(e[2])>>
    [] e[1] \in {"float", "magic"} -> <<e[2]>>
    [] e[1] = "str" -> <<Quoted(Word(e[2]))>>
    [] e[1] = "template" -> <<"\"" \o PartText(e[2])>>
    [] e[1] = "var" -> <<"$" \o e[2]>>
    [] e[1] = "varvar" -> IF e[2][1] = "var" THEN <<"$">> \o Whole(e[2]) ELSE <<"$", "{">> \o Whole(e[2]) \o <<"}">>
    [] e[1] = "const" -> <<NameText(e[2])>>
    [] e[1] = "array" -> <<"[">> \o Separated(",", [k \in DOMAIN e[2] |-> WrittenItem(e[2][k])]) \o <<"]">>
    [] e[1] = "list" -> <<"list">> \o Parens(Separated(",", [k \in DOMAIN e[2] |-> WrittenSlot(e[2][k])]))
    [] e[1] \in {"isset", "empty"} -> <<e[1]>> \o Parens(IF e[1] = "isset" THEN ExprList(e[2]) ELSE Whole(e[2]))
    [] e[1] = "index" -> Base(e[2]) \o <<"[">> \o WrittenOpt(e[3]) \o <<"]">>
    [] e[1] = "prop" -> Base(e[2]) \o <<IF e[4] THEN "?->" ELSE "->">> \o WrittenMember(e[3])
    [] e[1] = "mcall" -> Base(e[2]) \o <<IF e[5] THEN "?->" ELSE "->">> \o WrittenMember(e[3]) \o WrittenArgs(e[4])
    [] e[1] = "staticprop" -> Base(e[2]) \o <<"::", "$" \o e[3]>>
    [] e[1] = "classconst" -> Base(e[2]) \o <<"::", e[3]>>
    [] e[1] = "staticcall" -> Base(e[2]) \o <<"::">> \o WrittenMember(e[3]) \o WrittenArgs(e[4])
    [] e[1] = "call" -> Callee(e[2]) \o WrittenArgs(e[3])
    [] e[1] = "post" -> Base(e[3]) \o <<e[2]>>
    [] e[1] = "new" -> <<"new">> \o NewTarget(e[2]) \o WrittenArgs(e[3])
    [] e[1] = "newanon" -> <<"new", "class">> \o WrittenArgs(e[2]) \o ClassTail(e[3], e[4], <<>>)
    [] e[1] = "match" ->
         <<"match">> \o Parens(Whole(e[2])) \o <<"{">>
         \o Separated(",", [k \in DOMAIN e[3] |-> WrittenArm(e[3][k])]) \o <<"}">>
    [] e[1] = "closure" ->
         When(e[2], <<"static">>) \o <<"function">> \o When(e[3], <<"&">>) \o WrittenParams(e[4]) \o WrittenUses(e[5])
         \o WrittenBlock("braces", e[6])
Written(e, least, last) ==
  IF LevelOf[KindOf(e)] >= least \/ (last /\ Opens(e)) THEN Raw(e, last) ELSE Parens(Raw(e, TRUE))

----------------------------------------------------------------------------
(* Statements, their bodies in braces, in the alternative syntax, or alone   *)
(* where one simple statement is all there is. *)

SimpleStatement(s) == s[1] = "marked" /\ s[3][1] \in {"expr", "echo", "return", "break", "continue"}
Body(style, b, end) ==
  CASE style = "alt" -> <<":">> \o WrittenProgram(style, b) \o When(end # "", <<end, ";">>)
    [] style = "single" /\ Len(b) = 1 /\ SimpleStatement(b[1]) -> WrittenProgram(style, b)
    [] OTHER -> WrittenBlock(style, b)
WrittenIf(style, s) ==
  Separated("elseif", [k \in DOMAIN s[2] |-> Parens(Whole(s[2][k][1])) \o Body(style, s[2][k][2], "")])
  \o When(s[3] # <<>>, <<"else">> \o Body(style, s[3][1], "")) \o When(style = "alt", <<"endif", ";">>)
WrittenCase(style, c) ==
  (IF c[1] = <<>> THEN <<"default">> ELSE <<"case">> \o Whole(c[1][1])) \o <<":">> \o WrittenProgram(style, c[2])
WrittenCatch(style, c) ==
  <<"catch">> \o Parens(Separated("|", [k \in DOMAIN c[1] |-> <<NameText(c[1][k])>>])
                        \o When(c[2] # <<>>, <<"$" \o c[2][1]>>)) \o WrittenBlock(style, c[3])
WrittenUse(u) == <<NameText(u[1])>> \o When(u[2] # <<>>, <<"as">> \o u[2])
WrittenStatic(v) == <<"$" \o v[1]>> \o When(v[2] # <<>>, <<"=">> \o WrittenOpt(v[2]))
WrittenConst(c) == <<c[Len(c) - 1], "=">> \o Whole(c[Len(c)])
Many(op(_), xs) == Separated(",", [k \in DOMAIN xs |-> op(xs[k])])
WrittenMethod(style, f) ==
  SetToSeq(f[1]) \o <<"function">> \o When(f[2], <<"&">>) \o <<f[3]>> \o WrittenParams(f[4])
  \o When(f[5] # <<>>, <<":">> \o f[5]) \o (IF f[6] = <<>> THEN <<";">> ELSE WrittenBlock(style, f[6][1]))
EachOf(op(_), xs) == FlattenSeq([k \in DOMAIN xs |-> op(xs[k])])
WrittenMembers(style, m) ==
  When(m.traits # <<>>, <<"use">> \o Many(LAMBDA t : <<NameText(t)>>, m.traits) \o <<";">>)
  \o EachOf(LAMBDA c : <<"case", c[1]>> \o When(c[2] # <<>>, <<"=">> \o WrittenOpt(c[2])) \o <<";">>, m.cases)
  \o EachOf(LAMBDA c : <<c[1], "const">> \o WrittenConst(c) \o <<";">>, m.consts)
  \o EachOf(LAMBDA p : SetToSeq(p[1]) \o p[2] \o WrittenStatic(<<p[3], p[4]>>) \o <<";">>, m.props)
  \o EachOf(LAMBDA f : WrittenMethod(style, f), m.methods)
StatementText(style, s) ==
  CASE s[1] = "expr" -> Whole(s[2]) \o <<";">>
    [] s[1] \in {"echo", "throw"} -> <<s[1]>> \o (IF s[1] = "echo" THEN ExprList(s[2]) ELSE Whole(s[2])) \o <<";">>
    [] s[1] = "return" -> <<"return">> \o WrittenOpt(s[2]) \o <<";">>
    [] s[1] \in {"break", "continue"} -> <<s[1]>> \o When(s[2] # 1, <<ToString(s[2])>>) \o <<";">>
    [] s[1] = "if" -> <<"if">> \o WrittenIf(style, s)
    [] s[1] = "while" -> <<"while">> \o Parens(Whole(s[2])) \o Body(style, s[3], "endwhile")
    [] s[1] = "dowhile" ->
         <<"do">> \o (IF style = "alt" THEN WrittenBlock(style, s[2]) ELSE Body(style, s[2], ""))
         \o <<"while">> \o Parens(Whole(s[3])) \o <<";">>
    [] s[1] = "for" ->
         <<"for">> \o Parens(ExprList(s[2]) \o <<";">> \o ExprList(s[3]) \o <<";">> \o ExprList(s[4]))
         \o Body(style, s[5], "endfor")
    [] s[1] = "foreach" ->
         <<"foreach">> \o Parens(Whole(s[2]) \o <<"as">> \o When(s[4] # <<>>, WrittenOpt(s[4]) \o <<"=>">>)
                                 \o When(s[3], <<"&">>) \o Whole(s[5]))
         \o Body(style, s[6], "endforeach")
    [] s[1] = "switch" ->
         <<"switch">> \o Parens(Whole(s[2])) \o <<IF style = "alt" THEN ":" ELSE "{">>
         \o EachOf(LAMBDA c : WrittenCase(style, c), s[3]) \o (IF style = "alt" THEN <<"endswitch", ";">> ELSE <<"}">>)
    [] s[1] = "try" ->
         <<"try">> \o WrittenBlock(style, s[2]) \o EachOf(LAMBDA c : WrittenCatch(style, c), s[3])
         \o When(s[4] # <<>>, <<"finally">> \o WrittenBlock(style, s[4][1]))
    [] s[1] = "namespace" ->
         <<"namespace">> \o When(s[2] # <<>>, <<NameText(s[2][1])>>)
         \o (IF s[3] = <<>> THEN <<";">> ELSE WrittenBlock(style, s[3][1]))
    [] s[1] = "use" -> <<"use">> \o Many(WrittenUse, s[2]) \o <<";">>
    [] s[1] = "global" -> <<"global">> \o Many(LAMBDA v : <<"$" \o v>>, s[2]) \o <<";">>
    [] s[1] = "static" -> <<"static">> \o Many(WrittenStatic, s[2]) \o <<";">>
    [] s[1] = "unset" -> <<"unset">> \o Parens(ExprList(s[2])) \o <<";">>
    [] s[1] = "constdecl" -> <<"const">> \o Many(WrittenConst, s[2]) \o <<";">>
    [] s[1] = "declare" -> <<"declare", "(", "strict_types", "=", IF s[2] THEN "1" ELSE "0", ")", ";">>
    [] s[1] = "func" -> WrittenMethod(style, <<{}>> \o SubSeq(s, 2, 5) \o <<<<s[6]>>>>)
    [] s[1] = "class" ->
         SetToSeq(s[2]) \o <<s[3], s[4]>> \o When(s[5] # <<>>, <<":">> \o s[5])
         \o ClassTail(s[6], s[7], WrittenMembers(style, s[8]))
    [] s[1] = "goto" -> <<"goto", s[2], ";">>
    [] s[1] = "label" -> <<s[2], ":">>
    [] s[1] = "block" -> WrittenBlock(style, s[2])
    [] s[1] = "nop" -> <<";">>
\* Raw HTML, and echo written with its own tags, are no marked statements.
WrittenStatement(style, s) ==
  CASE s[1] = "marked" -> <<StatementMark>> \o StatementText(style, s[3])
    [] s[1] = "html" -> <<"?>" \o Word(s[2]) \o "<?php ">>
    [] s[1] = "echo" -> <<"?><?=">> \o ExprList(s[2]) \o <<"?><?php ">>
WrittenProgram(style, b) == EachOf(LAMBDA s : WrittenStatement(style, s), b)

----------------------------------------------------------------------------
(* Layouts: tight, spread over lines and comments, and with a comment in    *)
(* the place of a semicolon before a close tag. *)

OpChars == {",", ":", "?", "@", "+", "-", "*", "/", "%", ".", "=", "<", ">", "!", "&", "|", "^", "~", "#"}
Clash(prev, next) ==
  \/ prev \in WordChars /\ next \in WordChars \cup {"\\", "'", "\""}
  \/ prev \in OpChars /\ next \in OpChars
  \/ prev \in Digits /\ next = "."
  \/ prev = "." /\ next \in Digits
Gaps == <<Chars("\n"), Chars(" /* ; ' \n */ "), Chars(" # ) \" \n"), Chars("\t// ?\r\n\n"), Chars("  ")>>
Gap(layout, n, prev, next) ==
  CASE layout = "spread" -> Gaps[1 + (n % Len(Gaps))]
    [] layout # "spread" /\ Clash(prev, next) -> <<" ">>
    [] OTHER -> <<>>
NewlinesIn(s) == Cardinality({k \in DOMAIN s : s[k] = "\n"})
CloseAt(lexemes, k) ==
  k \in DOMAIN lexemes /\ Len(lexemes[k]) > 1 /\ SubSeq(lexemes[k], 1, 2) = "?>"
Before(layout, lexemes, k, text) ==
  IF layout = "closed" /\ CloseAt(lexemes, k) THEN Chars("// }")
  ELSE Gap(layout, k, Last(text), SubSeq(lexemes[k], 1, 1))
\* acc: the text so far, its newlines, the lines of the statements in it, and
\* the next lexeme.
PlacedAfter(acc, gap, lexeme, marked) ==
  LET line == acc.line + NewlinesIn(gap)
  IN [text |-> acc.text \o gap \o Chars(lexeme), line |-> line,
      lines |-> IF marked THEN Append(acc.lines, line) ELSE acc.lines, next |-> acc.next + 1]
Placed(layout, lexemes, acc) ==
  LET k == acc.next IN
  IF \/ lexemes[k] = StatementMark
     \/ lexemes[k] = ";" /\ layout = "closed" /\ CloseAt(lexemes, k + 1)
  THEN [acc EXCEPT !.next = k + 1]
  ELSE PlacedAfter(acc, Before(layout, lexemes, k, acc.text), lexemes[k],
                   k > 1 /\ lexemes[k - 1] = StatementMark)
\* At most 2^n lexemes from acc.next on: as in TokensFrom.
RECURSIVE LaidFrom(_, _, _, _)
LaidFrom(layout, lexemes, n, acc) ==
  CASE acc.next > Len(lexemes) -> acc
    [] n = 0 -> Placed(layout, lexemes, acc)
    [] OTHER -> LaidFrom(layout, lexemes, n - 1, LaidFrom(layout, lexemes, n - 1, acc))
Laid(layout, lexemes) ==
  LaidFrom(layout, lexemes, 8, [text |-> Chars("<?php "), line |-> 1, lines |-> <<>>, next |-> 1])

----------------------------------------------------------------------------
(* Expressions: every operator in every place of every operator, and the    *)
(* ones of a few levels three deep. *)

Leaf == <<<<"var", "x">>, <<"int", 1>>, <<"str", <<"s">>>>>>
BaseLeaf == <<"var", "o">>
Unary == {"-", "+", "!", "~", "@"}
Shapes ==
  {<<"bin", op>> : op \in Binaries} \cup {<<"unary", op>> : op \in Unary} \cup {<<"cast", "int">>}
  \cup {<<w>> : w \in {"assign", "assignop", "ternary", "short", "instanceof", "print", "throw", "yield", "yieldkey", "fn",
                      "include", "base", "inside", "call", "arg", "array", "clone", "isset", "match"}}
\* The shape with e in one place and variables and literals in the others.
With(shape, place, e) ==
  LET at == [k \in 1..3 |-> IF k = place THEN e ELSE Leaf[k]] IN
  CASE shape[1] = "bin" -> <<"bin", shape[2], at[1], at[2]>>
    [] shape[1] \in {"unary", "cast"} -> <<shape[1], shape[2], e>>
    [] shape[1] = "assign" -> <<"assign", BaseLeaf, e>>
    [] shape[1] = "assignop" -> <<"assignop", "??", <<"index", BaseLeaf, <<>>>>, e>>
    [] shape[1] = "ternary" -> <<"ternary", at[1], <<at[2]>>, at[3]>>
    [] shape[1] = "short" -> <<"ternary", at[1], <<>>, at[2]>>
    [] shape[1] = "instanceof" -> <<"instanceof", e, Simple("B")>>
    [] shape[1] \in {"print", "throw", "clone"} -> <<shape[1], e>>
    [] shape[1] = "yield" -> <<"yield", <<>>, e>>
    [] shape[1] = "yieldkey" -> <<"yield", <<at[1]>>, at[2]>>
    [] shape[1] = "fn" -> <<"fn", FALSE, <<>>, e>>
    [] shape[1] = "include" -> <<"call", Simple("include"), <<PlainArg(e)>>>>
    [] shape[1] = "base" -> <<"prop", e, <<"id", "p">>, FALSE>>
    [] shape[1] = "inside" -> <<"index", BaseLeaf, <<e>>>>
    [] shape[1] = "call" -> <<"call", e, <<>>>>
    [] shape[1] = "arg" -> <<"call", Simple("f"), <<PlainArg(e), <<TRUE, <<>>, FALSE, Leaf[1]>>>>>>
    [] shape[1] = "array" -> <<"array", <<<<<<e>>, FALSE, TRUE, Leaf[1]>>, <<<<>>, FALSE, FALSE, e>>>>>>
    [] shape[1] = "isset" -> <<"isset", <<Leaf[1], e>>>>
    [] shape[1] = "match" -> <<"match", at[1], <<<<<<at[2], at[1]>>, at[2]>>, <<<<>>, at[1]>>>>>>
\* A variable where the shape has no operand in it.
Inner == {With(shape, 0, Leaf[1]) : shape \in Shapes}
Pairs == {With(shape, place, e) : shape \in Shapes, place \in 1..3, e \in Inner}
FewShapes ==
  {<<"bin", op>> : op \in {"or", "??", "==", "|>", "-", "**"}} \cup {<<"unary", "!">>, <<"unary", "-">>}
  \cup {<<w>> : w \in {"assign", "ternary", "print", "base"}}
FewInner == {With(shape, 0, Leaf[1]) : shape \in FewShapes}
FewPairs == {With(shape, place, e) : shape \in FewShapes, place \in 1..2, e \in FewInner}
Triples == {With(shape, place, e) : shape \in FewShapes, place \in 1..2, e \in FewPairs}

\* What the words for the logical operators and the pipe stand for.
RECURSIVE Meant(_)
Meant(e) ==
  CASE e[1] = "bin" /\ e[2] = "|>" -> <<"call", Meant(e[4]), <<PlainArg(Meant(e[3]))>>>>
    [] e[1] = "bin" /\ e[2] # "|>" -> <<"bin", BinOf(e[2]), Meant(e[3]), Meant(e[4])>>
    [] e[1] \in {"unary", "cast", "assign"} -> <<e[1], e[2], Meant(e[3])>>
    [] e[1] = "assignop" -> <<e[1], e[2], e[3], Meant(e[4])>>
    [] e[1] = "ternary" -> <<e[1], Meant(e[2]), [k \in DOMAIN e[3] |-> Meant(e[3][k])], Meant(e[4])>>
    [] e[1] = "instanceof" -> <<e[1], Meant(e[2]), e[3]>>
    [] e[1] \in {"print", "throw", "clone"} -> <<e[1], Meant(e[2])>>
    [] e[1] = "yield" -> <<e[1], [k \in DOMAIN e[2] |-> Meant(e[2][k])], Meant(e[3])>>
    [] e[1] = "fn" -> <<e[1], e[2], e[3], Meant(e[4])>>
    [] e[1] = "prop" -> <<e[1], Meant(e[2]), e[3], e[4]>>
    [] e[1] = "index" -> <<e[1], e[2], [k \in DOMAIN e[3] |-> Meant(e[3][k])]>>
    [] e[1] = "call" -> <<e[1], Meant(e[2]), [k \in DOMAIN e[3] |-> [e[3][k] EXCEPT ![4] = Meant(@)]]>>
    [] e[1] = "array" ->
         <<e[1], [k \in DOMAIN e[2] |-> <<[j \in DOMAIN e[2][k][1] |-> Meant(e[2][k][1][j])], e[2][k][2], e[2][k][3], Meant(e[2][k][4])>>]>>
    [] e[1] = "isset" -> <<e[1], [k \in DOMAIN e[2] |-> Meant(e[2][k])]>>
    [] e[1] = "match" ->
         <<e[1], Meant(e[2]), [k \in DOMAIN e[3] |-> <<[j \in DOMAIN e[3][k][1] |-> Meant(e[3][k][1][j])], Meant(e[3][k][2])>>]>>
    [] OTHER -> e

----------------------------------------------------------------------------
(* Statements.  l is the line of each marked statement, in their order. *)

Var(v) == <<"var", v>>
Num(n) == <<"int", n>>
Named(s) == <<"name", FALSE, <<s>>>>
Global(s, t) == <<"name", TRUE, <<s, t>>>>
Echo(line, n) == <<"marked", line, <<"echo", <<Num(n)>>>>>>
Html(s) == <<"html", Chars(s)>>
Give(v, e) == <<"assign", Var(v), e>>
Parameter(v) == <<{}, <<>>, FALSE, FALSE, v, <<>>>>
TypedParameter == <<{"private", "readonly"}, <<"?int">>, TRUE, FALSE, "p", <<Num(2)>>>>
RestParameter == <<{}, <<"A|\\B\\C">>, FALSE, TRUE, "r", <<>>>>
Catcher(line) == <<<<Named("E"), Global("F", "G")>>, <<"e">>, <<Echo(line, 3)>>>>
ClosureOf(line) == <<"closure", TRUE, TRUE, <<Parameter("a")>>, <<<<TRUE, "u">>, <<FALSE, "w">>>>, <<Echo(line, 1)>>>>
MethodOf(flags, name, params, type, body) == <<flags, FALSE, name, params, type, body>>
MembersOf(l) ==
  [traits |-> <<Named("T"), Global("U", "V")>>, cases |-> <<>>,
   consts |-> <<<<"private", "K", Num(1)>>, <<"public", "L", <<"classconst", Simple("self"), "K">>>>>>,
   props |-> <<<<{"public", "static"}, <<"int">>, "s", <<Num(1)>>>>, <<{"protected", "readonly"}, <<>>, "q", <<>>>>>>,
   methods |-> <<MethodOf({"public"}, "list", <<TypedParameter, RestParameter>>, <<"static">>, <<<<Echo(l[2], 1)>>>>),
                 MethodOf({"protected", "abstract"}, "f", <<>>, <<>>, <<>>),
                 MethodOf({"private", "static", "final"}, "g", <<>>, <<>>, <<<<>>>>)>>]
Programs(n, l) ==
  CASE n = 1 -> <<<<"marked", l[1], <<"if", <<<<Var("a"), <<Echo(l[2], 1)>>>>, <<Give("b", Num(1)), <<Echo(l[3], 2), Html("h;")>>>>>>,
                    <<<<Echo(l[4], 3)>>>>>>>>, Echo(l[5], 4)>>
    [] n = 2 -> <<<<"marked", l[1], <<"while", Var("a"),
                    <<<<"marked", l[2], <<"if", <<<<Var("b"), <<<<"marked", l[3], <<"break", 2>>>>>>>>>>, <<>>>>>>,
                      <<"marked", l[4], <<"continue", 1>>>>>>>>>>>>
    [] n = 3 -> <<<<"marked", l[1], <<"for", <<Give("i", Num(0)), Give("j", Num(1))>>, <<>>, <<<<"post", "++", Var("i")>>>>,
                    <<Echo(l[2], 1)>>>>>>,
                  <<"marked", l[3], <<"dowhile", <<Echo(l[4], 2)>>, <<"unary", "!", Var("a")>>>>>>>>
    [] n = 4 -> <<<<"marked", l[1], <<"foreach", Var("a"), TRUE, <<Var("k")>>, Var("v"), <<Echo(l[2], 1)>>>>>>,
                  <<"marked", l[3], <<"foreach", <<"array", <<>>>>, FALSE, <<>>,
                    <<"list", <<<<>>, <<<<<<>>, FALSE, FALSE, Var("b")>>>>>>>>, <<Echo(l[4], 2)>>>>>>>>
    [] n = 5 -> <<<<"marked", l[1], <<"switch", Var("a"),
                    <<<<<<Num(1)>>, <<>>>>, <<<<<<"float", "1.5e3">>>>, <<Echo(l[2], 1), <<"marked", l[3], <<"break", 1>>>>>>>>,
                      <<<<>>, <<Html("d"), Echo(l[4], 2)>>>>>>>>>>, Echo(l[5], 3)>>
    [] n = 6 -> <<<<"marked", l[1], <<"try", <<<<"marked", l[2], <<"throw", Var("e")>>>>>>, <<Catcher(l[3]), <<<<Named("E")>>, <<>>, <<>>>>>>,
                    <<<<Echo(l[4], 5)>>>>>>>>, Html("end")>>
    [] n = 7 -> <<<<"marked", l[1], <<"declare", TRUE>>>>, <<"marked", l[2], <<"namespace", <<<<"name", FALSE, <<"N", "M">>>>>>, <<>>>>>>,
                  <<"marked", l[3], <<"use", <<<<<<"name", FALSE, <<"A", "B">>>>, <<"C">>>>, <<Global("D", "E"), <<>>>>>>>>>>,
                  <<"marked", l[4], <<"constdecl", <<<<"X", Num(1)>>, <<"Y", <<"magic", "__LINE__">>>>>>>>>>,
                  <<"marked", l[5], <<"nop">>>>, <<"marked", l[6], <<"goto", "here">>>>, <<"marked", l[7], <<"label", "here">>>>,
                  <<"marked", l[8], <<"block", <<Echo(l[9], 1)>>>>>>>>
    [] n = 8 -> <<<<"marked", l[1], <<"func", TRUE, "f", <<TypedParameter, RestParameter>>, <<"?A">>,
                    <<<<"marked", l[2], <<"global", <<"x", "y">>>>>>,
                      <<"marked", l[3], <<"static", <<<<"s", <<>>>>, <<"t", <<Num(1)>>>>>>>>>>,
                      <<"marked", l[4], <<"unset", <<Var("x"), <<"index", Var("y"), <<Num(0)>>>>>>>>>>,
                      <<"marked", l[5], <<"return", <<>>>>>>>>>>>>,
                  <<"marked", l[6], <<"return", <<ClosureOf(l[7])>>>>>>>>
    [] n = 9 -> <<<<"marked", l[1], <<"class", {"abstract"}, "class", "C", <<>>, <<Named("P")>>, <<Named("I"), Global("J", "K")>>, MembersOf(l)>>>>,
                  Echo(l[3], 1)>>
    [] n = 10 -> <<<<"marked", l[1], <<"class", {}, "enum", "S", <<"string">>, <<>>, <<Named("I")>>,
                     [NoMembers EXCEPT !.cases = <<<<"A", <<<<"str", <<"a">>>>>>>>, <<"B", <<>>>>>>]>>>>,
                   <<"marked", l[2], <<"class", {"final"}, "trait", "T", <<>>, <<>>, <<>>, NoMembers>>>>,
                   <<"marked", l[3], <<"expr", <<"newanon", <<PlainArg(Num(1))>>, <<Named("P")>>, <<Named("I")>>, NoMembers>>>>>>>>
    [] n = 11 -> <<Html("a"), <<"echo", <<Var("a"), <<"ternary", Var("b"), <<>>, Num(1)>>>>>>, Html("b"), Echo(l[1], 1), Html("c"),
                   <<"marked", l[2], <<"func", FALSE, "g", <<>>, <<>>, <<<<"echo", <<Num(1)>>>>>>>>>>>>
    [] n = 12 -> <<<<"marked", l[1], <<"expr", <<"call", <<"fn", FALSE, <<>>, ClosureOf(l[2])>>, <<Callable>>>>>>>>,
                   <<"marked", l[3], <<"expr", <<"assignref", <<"staticprop", Simple("A"), "p">>, <<"mcall", <<"new", Simple("B"), <<>>>>,
                     <<"id", "m">>, <<<<FALSE, <<"n">>, FALSE, Num(1)>>>>, TRUE>>>>>>>>,
                   <<"marked", l[4], <<"return", <<<<"template", <<<<"lit", Chars("a ")>>, <<"expr", <<"prop", Var("o"), Var("p"), FALSE>>>>,
                     <<"expr", <<"index", Var("q"), <<Num(0)>>>>>>>>>>>>>>>>,
                   <<"marked", l[5], <<"expr", <<"staticcall", Simple("A"), Var("f"), <<>>>>>>>>,
                   <<"marked", l[6], <<"expr", <<"varvar", <<"varvar", Var("v")>>>>>>>>,
                   <<"marked", l[7], <<"expr", <<"new", <<"index", <<"prop", Var("o"), <<"id", "p">>, FALSE>>, <<Num(1)>>>>, <<>>>>>>>>>>
    [] n = 13 -> [k \in 1..MaxDepth |-> Echo(l[k], 1)]
ProgramNames == 1..13
Styles == {"braces", "alt", "single"}
Layouts == {"tight", "spread", "closed"}

----------------------------------------------------------------------------
(* Forms that say the same as others, or are passed over. *)

Fn(line, params) == <<"marked", line, <<"func", FALSE, "f", params, <<>>, <<>>>>>>
ClassOf1(line, name, parent, interfaces, members) ==
  <<"marked", line, <<"class", {}, "class", name, <<>>, parent, interfaces, members>>>>
Expression1(line, e) == <<"marked", line, <<"expr", e>>>>
Mark == <<StatementMark>>
Hook(name, params, body) == <<{"public"}, FALSE, name, params, <<>>, body>>
Other(n, l) ==
  CASE n = 1 ->
         <<Mark \o <<"class", "C", "{", "int", "$p", "=", "1", "{", "get", "=>", "$x", ";", "final", "set", "(", "$v", ")", "{">>
             \o Mark \o <<"echo", "1", ";", "}", "}", "public", "$q", "{", "set", "=>", "2", ";", "&", "get", ";", "}", "}">>,
           <<ClassOf1(l[1], "C", <<>>, <<>>,
               [NoMembers EXCEPT
                  !.props = <<<<{"public"}, <<"int">>, "p", <<Num(1)>>>>, <<{"public"}, <<>>, "q", <<>>>>>>,
                  !.methods = <<Hook("__hook_get_p", <<>>, <<<<<<"return", <<Var("x")>>>>>>>>),
                                Hook("__hook_set_p", <<Parameter("v")>>, <<<<Echo(l[2], 1)>>>>),
                                Hook("__hook_set_q", <<Parameter("value")>>,
                                     <<<<<<"expr", <<"assign", <<"prop", Var("this"), <<"id", "q">>, FALSE>>, Num(2)>>>>>>>>),
                                <<{"public", "abstract"}, FALSE, "__hook_get_q", <<>>, <<>>, <<>>>>>>])>>>>
    [] n = 2 ->
         <<Mark \o <<"use", "A\\{", "B", "as", "C", ",", "function", "D\\E", ",", "}", ";">>,
           <<<<"marked", l[1], <<"use", <<<<<<"name", FALSE, <<"A", "B">>>>, <<"C">>>>, <<<<"name", FALSE, <<"A", "D", "E">>>>, <<>>>>>>>>>>>>>>
    [] n = 3 ->
         <<Mark \o <<"#[", "A", "(", "[", "1", "]", ")", "]", "#[", "B", "]", "function", "f", "(", "#[", "C", "]", "$a", ",", ")", "{", "}">>
             \o Mark \o <<"#[", "A", "]", ";">> \o Mark \o <<"#[", "A", "]", "fn", "(", ")", "=>", "1", ";">>,
           <<Fn(l[1], <<Parameter("a")>>), <<"marked", l[2], <<"nop">>>>,
             Expression1(l[3], <<"fn", FALSE, <<>>, Num(1)>>)>>>>
    [] n = 4 ->
         <<Mark \o <<"class", "C", "{", "use", "T", "{", "a", "as", "b", ";", "{", "}", "}", "var", "$a", ",", "$b", ";",
                     "protected", "(", "set", ")", "static", "$c", "{", "bad", "+", "}", "const", "int", "K", "=", "1", ",",
                     "L", "=", "2", ";", "function", "g", "(", ")", ";", "}">>,
           <<ClassOf1(l[1], "C", <<>>, <<>>,
               [NoMembers EXCEPT
                  !.traits = <<Named("T")>>, !.consts = <<<<"public", "K", Num(1)>>, <<"public", "L", Num(2)>>>>,
                  !.props = <<<<{"public"}, <<>>, "a", <<>>>>, <<{"public"}, <<>>, "b", <<>>>>,
                              <<{"protected", "static"}, <<>>, "c", <<>>>>>>,
                  !.methods = <<MethodOf({"public"}, "g", <<>>, <<>>, <<>>)>>])>>>>
    [] n = 5 ->
         <<Mark \o <<"parent", "::", "$p", "::", "set", "(", "1", ",", ")", ";">> \o Mark \o <<"parent", "::", "$p", "::", "get", "(", ")", ";">>
             \o Mark \o <<"A", "::", "{", "$m", "}", "(", ")", ";">>,
           <<Expression1(l[1], <<"assign", ThisProp("p"), Num(1)>>), Expression1(l[2], ThisProp("p")),
             Expression1(l[3], <<"staticcall", Simple("A"), Var("m"), <<>>>>)>>>>
    [] n = 6 ->
         <<Mark \o <<"IF", "(", "1", ")", "{", "}", "Else", "if", "(", "2", ")">> \o Mark \o <<";", "else", "{", "}">> \o Mark
             \o <<"switch", "(", "1", ")", "{", "case", "1", ";", "default", ":", "}">>,
           <<<<"marked", l[1], <<"if", <<<<Num(1), <<>>>>, <<Num(2), <<<<"marked", l[2], <<"nop">>>>>>>>>>, <<<<>>>>>>>>,
             <<"marked", l[3], <<"switch", Num(1), <<<<<<Num(1)>>, <<>>>>, <<<<>>, <<>>>>>>>>>>>>>>
    [] n = 7 ->
         <<Mark \o <<"array", "(", "1", ",", ",", "2", ",", ")", ";">> \o Mark \o <<"exit", ";">> \o Mark \o <<"die", "(", "1", ")", ";">>
             \o Mark \o <<"match", "(", "1", ")", "{", "1", ",", "=>", "2", ",", "}", ";">>
             \o Mark \o <<"(", "function", "(", ")", "use", "(", "$a", ",", ")", ":", "int", "{", "}", ")", "(", ")", ";">>,
           <<Expression1(l[1], <<"array", <<<<<<>>, FALSE, FALSE, Num(1)>>, <<<<>>, FALSE, FALSE, Num(2)>>>>>>),
             Expression1(l[2], <<"call", Simple("exit"), <<>>>>), Expression1(l[3], <<"call", Simple("die"), <<PlainArg(Num(1))>>>>),
             Expression1(l[4], <<"match", Num(1), <<<<<<Num(1)>>, Num(2)>>>>>>),
             Expression1(l[5], <<"call", <<"closure", FALSE, FALSE, <<>>, <<<<FALSE, "a">>>>, <<>>>>, <<>>>>)>>>>
    [] n = 8 ->
         <<Mark \o <<"interface", "I", "extends", "A", ",", "B", "{", "}">> \o Mark \o <<"readonly", "class", "D", "extends", "E", "{", "}">>,
           <<<<"marked", l[1], <<"class", {}, "interface", "I", <<>>, <<Named("A")>>, <<Named("B")>>, NoMembers>>>>,
             ClassOf1(l[2], "D", <<Named("E")>>, <<>>, NoMembers)>>>>
OtherNames == 1..8

\* Nesting is bounded, length is not.
NestedIn(k) == Mark \o <<"return">> \o [j \in 1..k |-> "("] \o <<"1">> \o [j \in 1..k |-> ")"] \o <<";">>
LongSum(k) == Mark \o <<"return", "1">> \o [j \in 1..(2 * k) |-> IF j % 2 = 1 THEN "+" ELSE "1"] \o <<";">>
RECURSIVE SumOf(_)
SumOf(k) == IF k = 0 THEN Num(1) ELSE <<"bin", "+", SumOf(k - 1), Num(1)>>

----------------------------------------------------------------------------
(* Tests and their answers. *)

SourceTests ==
  {<<"expression", layout, e>> : layout \in {"tight", "spread"}, e \in Pairs}
  \cup {<<"expression", "tight", e>> : e \in Triples}
  \cup {<<"program", layout, n, style>> : layout \in Layouts, n \in ProgramNames, style \in Styles}
  \cup {<<"other", layout, n>> : layout \in {"tight", "spread"}, n \in OtherNames}
  \cup {<<"nested", "tight", k>> : k \in 0..(MaxDepth + 2)} \cup {<<"long", "tight", k>> : k \in {MaxDepth, 3 * MaxDepth}}
NoLines == [k \in 1..MaxDepth |-> 0]
LexemesOf(t) ==
  CASE t[1] = "expression" -> Mark \o <<"return">> \o Whole(t[3]) \o <<";">>
    [] t[1] = "program" -> WrittenProgram(t[4], Programs(t[3], NoLines))
    [] t[1] = "other" -> Other(t[3], NoLines)[1]
    [] t[1] = "nested" -> NestedIn(t[3])
    [] t[1] = "long" -> LongSum(t[3])
Return(line, e) == <<<<"marked", line, <<"return", <<e>>>>>>>>
\* A program of no more than MaxDepth levels: the statement, what it returns,
\* and the parentheses.
Expected(t, l) ==
  CASE t[1] = "expression" -> <<"program", Return(l[1], Meant(t[3]))>>
    [] t[1] = "program" -> <<"program", Programs(t[3], l)>>
    [] t[1] = "other" -> <<"program", Other(t[3], l)[2]>>
    [] t[1] = "nested" -> IF t[3] + 2 <= MaxDepth THEN <<"program", Return(l[1], Num(1))>> ELSE <<"error">>
    [] t[1] = "long" -> <<"program", Return(l[1], SumOf(t[3]))>>
LaidOut(t) == Laid(t[2], LexemesOf(t))
ReadBack(t, source, answer) == answer = Expected(t, source.lines)
=============================================================================
