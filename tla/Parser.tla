------------------------------- MODULE Parser -------------------------------
(***************************************************************************)
(* The parser of parser.rs: tokens to syntax, by recursive descent with    *)
(* precedence climbing.  A node is a tuple whose first element says what   *)
(* it is; what may be missing is a sequence of at most one element.        *)
(*                                                                         *)
(* p is the parser: the tokens t, their lines n (none in a fragment of a   *)
(* string), the position i, the depth d, and whether an error ended it     *)
(* (bad), in which case it stands at the end.  A rule takes p and returns  *)
(* a node with p after it.  Such a pair, with the node still under         *)
(* construction, is a builder b; the operators Add... append a child that  *)
(* they read.                                                              *)
(***************************************************************************)
EXTENDS Lexer

CONSTANT MaxDepth         \* MAX_DEPTH, on nested statements and expressions

Tok(p) == p.t[p.i]
TokAt(p, k) == IF p.i + k <= Len(p.t) THEN p.t[p.i + k] ELSE Eof
Kind(p) == Tok(p)[1]
KindAt(p, k) == TokAt(p, k)[1]
Is(p, w) == Tok(p) = Op(w)
IsAt(p, k, w) == TokAt(p, k) = Op(w)
KwAt(p, k) == IF KindAt(p, k) = "ident" THEN TokAt(p, k)[3] ELSE ""
Kw(p) == KwAt(p, 0)

Bump(p) == IF p.i < Len(p.t) THEN [p EXCEPT !.i = @ + 1] ELSE p
Eat(p, w) == IF Is(p, w) THEN Bump(p) ELSE p
EatKw(p, w) == IF Kw(p) = w THEN Bump(p) ELSE p
Failed(p) == [p EXCEPT !.bad = TRUE, !.i = Len(p.t)]
Fail(p) == <<<<"error">>, Failed(p)>>
Expect(p, w) == IF Is(p, w) THEN Bump(p) ELSE Failed(p)
AtEnd(p) == Is(p, ";") \/ Kind(p) \in {"close", "eof"}
Terminated(p) == IF AtEnd(p) THEN Eat(p, ";") ELSE Failed(p)

----------------------------------------------------------------------------
(* Builders, and the rules by name; x is what a rule is given. *)

New(node, p) == <<node, p>>
Past(b, w) == <<b[1], Expect(b[2], w)>>
Bumped(b) == <<b[1], Bump(b[2])>>
Semi(b) == <<b[1], Terminated(b[2])>>
Add(b, r) == <<Append(b[1], r[1]), r[2]>>
AddValue(b, v) == <<Append(b[1], v), b[2]>>
Some(r) == <<<<r[1]>>, r[2]>>
AddFlag(b, w) == <<Append(b[1], Is(b[2], w)), Eat(b[2], w)>>
\* The text of a token of this kind.
Text(kind, p) == IF Kind(p) = kind THEN <<Tok(p)[2], Bump(p)>> ELSE Fail(p)
AddText(b, kind) == Add(b, Text(kind, b[2]))
Name(p) == Text("ident", p)

RECURSIVE Read(_, _, _)
Expr(p) == Read("expr", 0, p)
AddRule(b, rule, x) == Add(b, Read(rule, x, b[2]))
AddExpr(b) == AddRule(b, "expr", 0)
AddParens(b) == Past(AddExpr(Past(b, "(")), ")")
\* What may be missing: here it is there if `present`.
AddOpt(b, present, rule, x) == IF present THEN Add(b, Some(Read(rule, x, b[2]))) ELSE AddValue(b, <<>>)
AddDefault(b) == IF Is(b[2], "=") THEN AddOpt(Bumped(b), TRUE, "expr", 0) ELSE AddValue(b, <<>>)

\* Children up to a closing token, with commas between and perhaps after them.
\* In arrays a comma may also stand alone, in list() it skips an element.
MoreItems(rule, close, b) == Read("items", <<rule, close, b[1]>>, b[2])
AfterItem(rule, close, b) == IF Is(b[2], ",") THEN MoreItems(rule, close, Bumped(b)) ELSE b
Items(rule, close, b) ==
  CASE Is(b[2], close) \/ b[2].bad -> b
    [] Is(b[2], ",") /\ rule = "element" -> MoreItems(rule, close, Bumped(b))
    [] Is(b[2], ",") /\ rule = "slot" -> MoreItems(rule, close, Bumped(AddValue(b, <<>>)))
    [] OTHER -> AfterItem(rule, close, AddRule(b, rule, 0))
List(rule, close, p) == Past(Read("items", <<rule, close, <<>>>>, p), close)
AddList(b, rule, close) == Add(b, List(rule, close, b[2]))
\* One child at least, with a separator between them.
RECURSIVE Chain(_, _, _)
Chained(rule, sep, b) == IF Is(b[2], sep) THEN Chain(rule, sep, Bumped(b)) ELSE b
Chain(rule, sep, b) == Chained(rule, sep, AddRule(b, rule, 0))
AddChain(b, rule, sep) == Add(b, Chain(rule, sep, New(<<>>, b[2])))

----------------------------------------------------------------------------
(* Names and types. *)

RECURSIVE Segments(_, _)
Segments(fq, b) ==
  IF Is(b[2], "\\") THEN Segments(fq, AddText(Bumped(b), "ident")) ELSE <<<<"name", fq, b[1]>>, b[2]>>
AtName(p) == Kind(p) = "ident" \/ Is(p, "\\")
Path(p) == Segments(Is(p, "\\"), Some(Name(Eat(p, "\\"))))

\* The text of a type: paths joined by | and &, perhaps with a ? before.
RECURSIVE TypeText(_, _), TypePath(_, _)
TypeJoin(text, p) ==
  IF Is(p, "|") \/ (Is(p, "&") /\ (KindAt(p, 1) = "ident" \/ IsAt(p, 1, "\\")))
  THEN TypeText(text \o Tok(p)[2], Bump(p)) ELSE <<text, p>>
TypePath(text, p) ==
  CASE Is(p, "\\") /\ KindAt(p, 1) = "ident" -> TypePath(text \o "\\" \o TokAt(p, 1)[2], Bump(Bump(p)))
    [] Is(p, "\\") /\ KindAt(p, 1) # "ident" -> TypeJoin(text \o "\\", Bump(p))
    [] OTHER -> TypeJoin(text, p)
TypeText(text, p) ==
  CASE Is(p, "\\") -> TypeText(text \o "\\", Bump(p))
    [] Kind(p) = "ident" -> TypePath(text \o Tok(p)[2], Bump(p))
    [] OTHER -> <<text, p>>
Type(p) ==
  CASE Is(p, "?") -> Some(TypeText("?", Bump(p)))
    [] AtName(p) -> Some(TypeText("", p))
    [] OTHER -> <<<<>>, p>>
AddType(b) == Add(b, Type(b[2]))
AddReturnType(b) == IF Is(b[2], ":") THEN AddType(Bumped(b)) ELSE AddValue(b, <<>>)

\* Attributes, adaptation blocks, hooks and set-visibility are skipped by
\* counting brackets.
RECURSIVE Balance(_, _, _, _)
Balance(p, open, close, depth) ==
  CASE depth = 0 \/ Kind(p) = "eof" -> p
    [] depth # 0 /\ Is(p, open) -> Balance(Bump(p), open, close, depth + 1)
    [] depth # 0 /\ Is(p, close) -> Balance(Bump(p), open, close, depth - 1)
    [] OTHER -> Balance(Bump(p), open, close, depth)
SkipBraces(p) == IF Is(p, "{") THEN Balance(Bump(p), "{", "}", 1) ELSE p
RECURSIVE SkipAttributes(_), SkipTo(_, _)
SkipAttributes(p) == IF Is(p, "#[") THEN SkipAttributes(Balance(Bump(p), "[", "]", 1)) ELSE p
SkipTo(p, w) == IF Is(p, w) \/ Kind(p) = "eof" THEN Eat(p, w) ELSE SkipTo(Bump(p), w)

\* Modifiers in any order, as a set; a visibility replaces the one before.
Visibilities == {"public", "protected", "private"}
SkipSetVisibility(p) == IF Is(p, "(") THEN SkipTo(p, ")") ELSE p
RECURSIVE Modifiers(_, _, _)
Modifiers(allowed, seen, p) ==
  CASE Kw(p) \in allowed \cap Visibilities ->
         Modifiers(allowed, (seen \ Visibilities) \cup {Kw(p)}, SkipSetVisibility(Bump(p)))
    [] Kw(p) \in allowed \ Visibilities -> Modifiers(allowed, seen \cup {Kw(p)}, Bump(p))
    [] Kw(p) = "var" /\ "static" \in allowed /\ KindAt(p, 1) = "var" ->
         Modifiers(allowed, (seen \ Visibilities) \cup {"public"}, Bump(p))
    [] OTHER -> <<seen, p>>

----------------------------------------------------------------------------
(* Bodies. *)

\* Statements up to what ends a program, a block, the alternative syntax or
\* a case.
BodyEnds(mode, words, p) ==
  \/ Kind(p) = "eof"
  \/ mode \in {"block", "case"} /\ Is(p, "}")
  \/ Kw(p) \in words
OpenEcho(p) == Semi(AddChain(New(<<"echo">>, Bump(p)), "expr", ","))
BodyPart(mode, p) ==
  CASE Kind(p) = "html" -> <<<<"html", Tok(p)[2]>>, Bump(p)>>
    [] Kind(p) = "openecho" /\ mode \in {"program", "block"} -> OpenEcho(p)
    [] OTHER -> Read("statement", 0, p)
MoreStatements(mode, words, b) == Read("statements", <<mode, words, b[1]>>, b[2])
Statements(mode, words, b) ==
  CASE BodyEnds(mode, words, b[2]) -> b
    [] Kind(b[2]) \in {"open", "close"} -> MoreStatements(mode, words, Bumped(b))
    [] OTHER -> MoreStatements(mode, words, Add(b, BodyPart(mode, b[2])))
Block(p) == Past(Read("statements", <<"block", {}, <<>>>>, Expect(p, "{")), "}")
AddBlock(b) == Add(b, Block(b[2]))
Single(p) == Some(Read("statement", 0, p))
BodyUntil(words, p) ==
  CASE Is(p, ":") -> Read("statements", <<"alt", words, <<>>>>, Bump(p))
    [] Is(p, "{") -> Block(p)
    [] OTHER -> Single(p)
AddBody(b, words) == Add(b, BodyUntil(words, b[2]))
\* The closing word of the alternative syntax, taken after any body.
EndWord(w, b) == IF Kw(b[2]) = w THEN Semi(Bumped(b)) ELSE b

----------------------------------------------------------------------------
(* Statements; p stands after the keyword. *)

IfWords == {"elseif", "else", "endif"}
AddBranch(b) == Add(b, AddBody(AddParens(New(<<>>, b[2])), IfWords))
IfDone(branches, els) == EndWord("endif", New(<<"if", branches, els[1]>>, els[2]))
RECURSIVE Branches(_)
Branches(b) ==
  CASE Kw(b[2]) = "elseif" -> Branches(AddBranch(Bumped(b)))
    [] Kw(b[2]) = "else" /\ KwAt(b[2], 1) = "if" -> Branches(AddBranch(Bumped(Bumped(b))))
    [] Kw(b[2]) = "else" /\ KwAt(b[2], 1) # "if" -> IfDone(b[1], Some(BodyUntil({"endif"}, Bump(b[2]))))
    [] OTHER -> IfDone(b[1], <<<<>>, b[2]>>)
If(p) == Branches(AddBranch(New(<<>>, p)))
While(p) == EndWord("endwhile", AddBody(AddParens(New(<<"while">>, p)), {"endwhile"}))
DoWhileRest(b) == IF Kw(b[2]) = "while" THEN Semi(AddParens(Bumped(b))) ELSE Fail(b[2])
DoWhile(p) == DoWhileRest(Add(New(<<"dowhile">>, p), IF Is(p, "{") THEN Block(p) ELSE Single(p)))
AddExprs(b, w) == Past(IF Is(b[2], w) THEN AddValue(b, <<>>) ELSE AddChain(b, "expr", ","), w)
For(p) ==
  EndWord("endfor",
    AddBody(AddExprs(AddExprs(AddExprs(New(<<"for">>, Expect(p, "(")), ";"), ";"), ")"), {"endfor"}))

\* foreach (array as [key =>] [&] value)
ForeachBody(b) == EndWord("endforeach", AddBody(Past(b, ")"), {"endforeach"}))
ForeachValue(array, ref, key, p) ==
  ForeachBody(AddExpr(New(<<"foreach", array, ref \/ Is(p, "&"), key>>, Eat(p, "&"))))
ForeachVars(array, ref, first) ==
  IF Is(first[2], "=>") THEN ForeachValue(array, ref, <<first[1]>>, Bump(first[2]))
  ELSE ForeachBody(New(<<"foreach", array, ref, <<>>, first[1]>>, first[2]))
ForeachAs(r) ==
  IF Kw(r[2]) = "as" THEN ForeachVars(r[1], IsAt(r[2], 1, "&"), Expr(Eat(Bump(r[2]), "&"))) ELSE Fail(r[2])
Foreach(p) == ForeachAs(Expr(Expect(p, "(")))

CaseWords == {"case", "default", "endswitch"}
AddCase(b, test) ==
  Add(b, Add(New(<<test[1]>>, test[2]),
             Read("statements", <<"case", CaseWords, <<>>>>,
                  IF Is(test[2], ":") THEN Bump(test[2]) ELSE Eat(test[2], ";"))))
RECURSIVE Cases(_)
Cases(b) ==
  CASE Kw(b[2]) = "case" -> Cases(AddCase(b, Some(Expr(Bump(b[2])))))
    [] Kw(b[2]) = "default" -> Cases(AddCase(b, <<<<>>, Bump(b[2])>>))
    [] OTHER -> b
EndSwitch(b) == <<b[1], EatKw(b[2], "endswitch")>>
SwitchBody(b) ==
  IF Is(b[2], ":") THEN Semi(EndSwitch(Add(b, Cases(New(<<>>, Bump(b[2]))))))
  ELSE Past(Add(b, Cases(New(<<>>, Expect(b[2], "{")))), "}")
Switch(p) == SwitchBody(AddParens(New(<<"switch">>, p)))

CatchVar(b) == IF Kind(b[2]) = "var" THEN Add(b, Some(Text("var", b[2]))) ELSE AddValue(b, <<>>)
Catch(p) == AddBlock(Past(CatchVar(AddChain(New(<<>>, Expect(p, "(")), "path", "|")), ")"))
RECURSIVE Catches(_)
Catches(b) == IF Kw(b[2]) = "catch" THEN Catches(Add(b, Catch(Bump(b[2])))) ELSE b
AddFinally(b) == IF Kw(b[2]) = "finally" THEN Add(b, Some(Block(Bump(b[2])))) ELSE AddValue(b, <<>>)
AddCatches(b) == Add(b, Catches(New(<<>>, b[2])))
Try(p) == AddFinally(AddCatches(AddBlock(New(<<"try">>, p))))

NamespaceBody(b) == IF Is(b[2], "{") THEN Add(b, Some(Block(b[2]))) ELSE Semi(AddValue(b, <<>>))
Namespace(p) == NamespaceBody(AddOpt(New(<<"namespace">>, p), AtName(p), "path", 0))

\* use A\B as C, D\{E, function F as G}; an item is a path and perhaps an
\* alias.
SkipKind(p) == EatKw(EatKw(p, "function"), "const")
AddAlias(b) == IF Kw(b[2]) = "as" THEN Add(b, Some(Name(Bump(b[2])))) ELSE AddValue(b, <<>>)
GroupItem(fq, parts, r) == AddAlias(New(<<<<"name", fq, parts \o r[1][3]>>>>, r[2]))
RECURSIVE GroupItems(_, _, _), UseItems(_), UsePath(_, _, _)
GroupMore(fq, parts, b) == IF Is(b[2], ",") THEN GroupItems(fq, parts, Bumped(b)) ELSE Past(b, "}")
GroupItems(fq, parts, b) ==
  IF Is(b[2], "}") \/ b[2].bad THEN Past(b, "}")
  ELSE GroupMore(fq, parts,
         Add(b, GroupItem(fq, parts, Segments(FALSE, Some(Name(SkipKind(b[2])))))))
UseMore(b) == IF Is(b[2], ",") THEN UseItems(Bumped(b)) ELSE b
\* b holds the path so far.
UsePath(fq, items, b) ==
  CASE Is(b[2], "\\") /\ IsAt(b[2], 1, "{") -> UseMore(GroupItems(fq, b[1], New(items, Bump(Bump(b[2])))))
    [] Is(b[2], "\\") /\ ~IsAt(b[2], 1, "{") -> UsePath(fq, items, AddText(Bumped(b), "ident"))
    [] OTHER -> UseMore(Add(New(items, b[2]), AddAlias(New(<<<<"name", fq, b[1]>>>>, b[2]))))
UseItems(b) == UsePath(Is(b[2], "\\"), b[1], Some(Name(Eat(b[2], "\\"))))
Use(p) == Semi(Add(New(<<"use">>, p), UseItems(New(<<>>, SkipKind(p)))))

\* Variables with commas between them; what is no variable is passed over.
VarItem(kind, p) ==
  CASE kind = "global" -> Text("var", p)
    [] kind = "static" -> AddDefault(Some(Text("var", p)))
    [] kind = "use" -> AddText(AddFlag(New(<<>>, p), "&"), "var")
StartsVar(kind, p) == KindAt(p, IF kind = "use" /\ Is(p, "&") THEN 1 ELSE 0) = "var"
RECURSIVE Vars(_, _)
VarsMore(kind, b) == IF Is(b[2], ",") THEN Vars(kind, Bumped(b)) ELSE b
NoVar(kind, b) == IF kind = "use" THEN <<b[1], Eat(b[2], "&")>> ELSE b
Vars(kind, b) == VarsMore(kind, IF StartsVar(kind, b[2]) THEN Add(b, VarItem(kind, b[2])) ELSE NoVar(kind, b))
AddVars(b, kind) == Add(b, Vars(kind, New(<<>>, b[2])))

\* declare(...): whether strict_types is given as 1, its last value counting.
Directives(p) == [k \in 1..(Balance(p, "(", ")", 1).i - p.i) |-> TokAt(p, k - 1)]
RECURSIVE Strict(_, _, _)
Strict(toks, saw, strict) ==
  CASE toks = <<>> -> strict
    [] toks # <<>> /\ Head(toks)[1] = "ident" /\ Head(toks)[2] = "strict_types" -> Strict(Tail(toks), TRUE, strict)
    [] toks # <<>> /\ Head(toks)[1] = "int" /\ saw -> Strict(Tail(toks), FALSE, Head(toks)[2] = 1)
    [] OTHER -> Strict(Tail(toks), saw, strict)
DeclareRest(declare, p) ==
  IF Is(p, "{") THEN LET r == Block(p) IN <<<<"block", <<declare>> \o r[1]>>, r[2]>>
  ELSE Semi(<<declare, p>>)
Declare(p) == DeclareRest(<<"declare", Strict(Directives(p), FALSE, FALSE)>>, Balance(p, "(", ")", 1))
Level(b) == IF Kind(b[2]) = "int" THEN AddText(b, "int") ELSE AddValue(b, 1)
FunctionRest(b) == AddBlock(AddReturnType(AddList(Past(b, "("), "param", ")")))
Function(p) == FunctionRest(AddText(AddFlag(New(<<"func">>, p), "&"), "ident"))

DeclKeywords == {"abstract", "final", "class", "interface", "trait", "enum"}
IsFunctionDecl(p) == KindAt(p, 1) = "ident" \/ (IsAt(p, 1, "&") /\ KindAt(p, 2) = "ident")
StartsClass(p) == Kw(p) \in DeclKeywords \/ (Kw(p) = "readonly" /\ KwAt(p, 1) = "class")
ByKeyword(kw, p) ==
  CASE kw = "echo" -> Semi(AddChain(New(<<"echo">>, p), "expr", ","))
    [] kw = "if" -> If(p)
    [] kw = "while" -> While(p)
    [] kw = "do" -> DoWhile(p)
    [] kw = "for" -> For(p)
    [] kw = "foreach" -> Foreach(p)
    [] kw = "switch" -> Switch(p)
    [] kw \in {"break", "continue"} -> Semi(Level(New(<<kw>>, p)))
    [] kw = "return" -> Semi(AddOpt(New(<<"return">>, p), ~AtEnd(p), "expr", 0))
    [] kw = "function" -> Function(p)
    [] kw \in {"global", "static"} -> Semi(AddVars(New(<<kw>>, p), kw))
    [] kw = "unset" -> Semi(AddList(New(<<"unset">>, Expect(p, "(")), "expr", ")"))
    [] kw = "const" -> Semi(AddChain(New(<<"constdecl">>, p), "constant", ","))
    [] kw = "throw" -> Semi(AddExpr(New(<<"throw">>, p)))
    [] kw = "try" -> Try(p)
    [] kw = "namespace" -> Namespace(p)
    [] kw = "use" -> Use(p)
    [] kw = "declare" -> Declare(Expect(p, "("))
    [] kw = "goto" -> Semi(AddText(New(<<"goto">>, p), "ident"))
Keywords ==
  {"echo", "if", "while", "do", "for", "foreach", "switch", "break", "continue", "return", "global",
   "unset", "const", "throw", "try", "namespace", "use", "declare"}
StartsKeyword(p) ==
  \/ Kw(p) \in Keywords
  \/ Kw(p) = "function" /\ IsFunctionDecl(p)
  \/ Kw(p) = "static" /\ KindAt(p, 1) = "var"
  \/ Kw(p) = "goto" /\ KindAt(p, 1) = "ident"
Unattributed(p) ==
  CASE StartsKeyword(p) -> ByKeyword(Kw(p), Bump(p))
    [] StartsClass(p) -> Read("class", 0, p)
    [] Kind(p) = "ident" /\ ~StartsKeyword(p) /\ ~StartsClass(p) /\ IsAt(p, 1, ":") ->
         <<<<"label", Tok(p)[2]>>, Bump(Bump(p))>>
    [] Is(p, "{") -> AddBlock(New(<<"block">>, p))
    [] Is(p, ";") -> <<<<"nop">>, Bump(p)>>
    [] OTHER -> Semi(AddExpr(New(<<"expr">>, p)))
AfterAttributes(p) == IF Is(p, ";") \/ Kind(p) = "eof" THEN <<<<"nop">>, Eat(p, ";")>> ELSE Unattributed(p)
Unmarked(p) == IF Is(p, "#[") THEN AfterAttributes(SkipAttributes(p)) ELSE Unattributed(p)

\* A statement carries the line it starts on, unless it is in a string.
LineOf(p) == IF p.n = <<>> THEN 0 ELSE p.n[p.i]
Marked(line, r) == IF line > 0 THEN <<<<"marked", line, r[1]>>, r[2]>> ELSE r
Deeper(p) == [p EXCEPT !.d = @ + 1]
Back(d, r) == <<r[1], [r[2] EXCEPT !.d = d]>>
Statement(p) ==
  IF p.d >= MaxDepth THEN Fail(p) ELSE Back(p.d, Marked(LineOf(p), Unmarked(Deeper(p))))

----------------------------------------------------------------------------
(* Parameters and arguments. *)

Constant(p) == AddExpr(Past(AddText(New(<<>>, p), "ident"), "="))
ParamRest(b) == AddDefault(AddText(AddFlag(AddFlag(AddType(b), "&"), "..."), "var"))
Param(p) == ParamRest(Some(Modifiers(Visibilities \cup {"readonly"}, {}, SkipAttributes(p))))

ArgName(b) ==
  IF Kind(b[2]) = "ident" /\ IsAt(b[2], 1, ":") THEN Past(Add(b, Some(Name(b[2]))), ":") ELSE AddValue(b, <<>>)
Arg(p) == AddExpr(AddFlag(ArgName(AddFlag(New(<<>>, p), "...")), "&"))
PlainArg(e) == <<FALSE, <<>>, FALSE, e>>
\* f(...) makes a callable.
Callable == <<FALSE, <<"...">>, FALSE, <<"null">>>>
AddArgs(b) ==
  IF Is(b[2], "(") /\ IsAt(b[2], 1, "...") /\ IsAt(b[2], 2, ")")
  THEN <<Append(b[1], <<Callable>>), Bump(Bump(Bump(b[2])))>>
  ELSE AddList(Past(b, "("), "arg", ")")
AddOptArgs(b) == IF Is(b[2], "(") THEN AddArgs(b) ELSE AddValue(b, <<>>)

----------------------------------------------------------------------------
(* Classes: modifiers, members and hooks. *)

AddParent(b) ==
  IF Kw(b[2]) = "extends" THEN AddOpt(Bumped(b), TRUE, "path", 0) ELSE AddValue(b, <<>>)
Implemented(b) == IF Kw(b[2]) = "implements" THEN Chain("path", ",", Bumped(b)) ELSE b
\* An interface may extend several.
Extended(p, several) == IF several /\ Is(p, ",") THEN Chain("path", ",", New(<<>>, Bump(p))) ELSE New(<<>>, p)
AddInterfaces(b, named) == Add(b, Implemented(Extended(b[2], named /\ Last(b[1]) # <<>>)))
NoMembers == [traits |-> <<>>, cases |-> <<>>, consts |-> <<>>, props |-> <<>>, methods |-> <<>>]
AddMembers(b, kind) == Past(Add(b, Read("members", <<kind, NoMembers>>, Expect(b[2], "{"))), "}")
ClassKinds == {"class", "interface", "trait", "enum"}
AddBacking(b, kind) == IF kind = "enum" THEN AddReturnType(b) ELSE AddValue(b, <<>>)
ClassOf(kind, b) ==
  AddMembers(AddInterfaces(AddParent(AddBacking(AddText(AddValue(b, kind), "ident"), kind)), TRUE), kind)
ClassNext(modifiers, p) ==
  IF Kw(p) \in ClassKinds THEN ClassOf(Kw(p), New(<<"class", modifiers \ {"readonly"}>>, Bump(p))) ELSE Fail(p)
ClassAfter(r) == ClassNext(r[1], r[2])
Class(p) == ClassAfter(Modifiers({"abstract", "final", "readonly"}, {}, p))

Flags(modifiers) ==
  IF modifiers \cap Visibilities = {} THEN modifiers \cup {"public"} ELSE modifiers
MoreMembers(kind, b) == Read("members", <<kind, b[1]>>, b[2])
TraitsEnd(b) == IF Is(b[2], "{") THEN <<b[1], SkipBraces(b[2])>> ELSE Semi(b)
Traits(m, r) == TraitsEnd(<<[m EXCEPT !.traits = @ \o r[1]], r[2]>>)
Case(m, r) == <<[m EXCEPT !.cases = Append(@, r[1])], r[2]>>
ConstType(p) ==
  IF Is(p, "?") \/ Is(p, "\\") \/ (Kind(p) = "ident" /\ ~IsAt(p, 1, "=")) THEN Type(p)[2] ELSE p
Consts(m, visibility, r) ==
  <<[m EXCEPT !.consts = @ \o [k \in DOMAIN r[1] |-> <<visibility>> \o r[1][k]]], r[2]>>
MethodBody(b) == IF Is(b[2], "{") THEN Add(b, Some(Block(b[2]))) ELSE Semi(AddValue(b, <<>>))
MethodRest(b) == MethodBody(AddReturnType(AddList(Past(b, "("), "param", ")")))
Method(m, r) == <<[m EXCEPT !.methods = Append(@, r[1])], r[2]>>

\* A hook becomes a method with a name of its own; what follows its name is
\* an expression, a block or nothing.
RECURSIVE SkipWords(_, _)
SkipWords(words, p) == IF Kw(p) \in words THEN SkipWords(words, Bump(p)) ELSE p
HookBody(b) ==
  CASE Is(b[2], "=>") -> Semi(AddExpr(AddValue(Bumped(b), "value")))
    [] Is(b[2], "{") -> AddBlock(AddValue(b, "block"))
    [] OTHER -> Semi(AddValue(b, "none"))
ValueParam == <<{}, <<>>, FALSE, FALSE, "value", <<>>>>
HookParams(kind, b) ==
  IF Is(b[2], "(") THEN AddList(Bumped(b), "param", ")")
  ELSE AddValue(b, IF kind = "set" THEN <<ValueParam>> ELSE <<>>)
ThisProp(prop) == <<"prop", <<"var", "this">>, <<"id", prop>>, FALSE>>
HookCode(kind, prop, h) ==
  CASE h[3] = "block" -> h[4]
    [] h[3] = "value" /\ kind = "get" -> <<<<"return", <<h[4]>>>>>>
    [] h[3] = "value" /\ kind = "set" -> <<<<"expr", <<"assign", ThisProp(prop), h[4]>>>>>>
\* h holds the word of the hook, its parameters, and its body.
HookMethod(kind, prop, visibility, h) ==
  CASE kind \notin {"get", "set"} -> <<{visibility}, FALSE, "__hookbad_" \o prop, <<>>, <<h[1]>>, <<>>>>
    [] kind \in {"get", "set"} /\ h[3] = "none" ->
         <<{visibility, "abstract"}, FALSE, "__hook_" \o kind \o "_" \o prop, h[2], <<>>, <<>>>>
    [] OTHER ->
         <<{visibility}, FALSE, "__hook_" \o kind \o "_" \o prop, h[2], <<>>, <<HookCode(kind, prop, h)>>>>
HookMore(kind, prop, visibility, methods, h) ==
  Read("hooks", <<prop, visibility,
                  IF h[2].bad THEN methods ELSE Append(methods, HookMethod(kind, prop, visibility, h[1]))>>, h[2])
HookAt(prop, visibility, methods, p) ==
  HookMore(Kw(p), prop, visibility, methods, HookBody(HookParams(Kw(p), AddText(New(<<>>, p), "ident"))))
Hooks(prop, visibility, methods, p) ==
  IF Is(p, "}") \/ p.bad THEN <<methods, p>>
  ELSE HookAt(prop, visibility, methods, Eat(SkipWords({"final"} \cup Visibilities, p), "&"))
\* What cannot be read as hooks is skipped.
Hooked(m, h, p) ==
  IF h[2].bad THEN <<m, SkipBraces(p)>> ELSE <<[m EXCEPT !.methods = @ \o h[1]], h[2]>>

VisibilityIn(flags) == CHOOSE v \in Visibilities : v \in flags
RECURSIVE Props(_, _, _)
PropNext(prop, flags, type, b) ==
  CASE Is(b[2], "{") ->
         Hooked(b[1], Past(Read("hooks", <<prop, VisibilityIn(flags), <<>>>>, Bump(b[2])), "}"), b[2])
    [] Is(b[2], ",") -> Props(flags, type, Bumped(b))
    [] OTHER -> Semi(b)
PropAdd(m, flags, type, r) ==
  PropNext(r[1][1], flags, type, <<[m EXCEPT !.props = Append(@, <<flags, type>> \o r[1])], r[2]>>)
Props(flags, type, b) == PropAdd(b[1], flags, type, AddDefault(Some(Text("var", b[2]))))
PropsTyped(m, flags, r) == Props(flags, r[1], <<m, r[2]>>)

Member(m, modifiers, p) ==
  CASE Kw(p) = "const" ->
         Consts(m, VisibilityIn(Flags(modifiers)), Semi(Chain("constant", ",", New(<<>>, ConstType(Bump(p))))))
    [] Kw(p) = "function" ->
         Method(m, MethodRest(AddText(AddFlag(New(<<Flags(modifiers \ {"readonly"})>>, Bump(p)), "&"), "ident")))
    [] OTHER -> PropsTyped(m, Flags(modifiers \ {"abstract"}), Type(p))
MemberModified(m, r) == Member(m, r[1], r[2])
MemberModifiers == Visibilities \cup {"static", "abstract", "final", "readonly"}
MemberAt(kind, m, p) ==
  CASE Kw(p) = "use" -> Traits(m, Chain("path", ",", New(<<>>, Bump(p))))
    [] kind = "enum" /\ Kw(p) = "case" -> Case(m, Semi(AddDefault(Some(Name(Bump(p))))))
    [] OTHER -> MemberModified(m, Modifiers(MemberModifiers, {}, p))
Members(kind, m, p) ==
  IF Is(p, "}") \/ Kind(p) = "eof" THEN <<m, p>> ELSE MoreMembers(kind, MemberAt(kind, m, SkipAttributes(p)))

----------------------------------------------------------------------------
(* Operators between expressions, by binding power. *)

Powers ==
  LET levels == <<{"or"}, {"xor"}, {"and"}, {}, {"?"}, {"??"}, {"||"}, {"&&"}, {"|"}, {"^"}, {"&"},
                  {"==", "!=", "===", "!==", "<=>"}, {"<", ">", "<=", ">="}, {"|>"}, {"."}, {"<<", ">>"},
                  {"+", "-"}, {"*", "/", "%"}, {"instanceof"}, {}, {"**"}>>
  IN [w \in UNION {levels[k] : k \in DOMAIN levels} |-> 2 + 2 * (CHOOSE k \in DOMAIN levels : w \in levels[k])]
\* ?? and ** take the right operand first.
LeftPower == [Powers EXCEPT !["??"] = 15, !["**"] = 45]
\* Mutant: every operator groups to the left.
RightPowerLeft == [w \in DOMAIN Powers |-> LeftPower[w] + 1]
RightPower == [w \in DOMAIN Powers |-> IF w \in {"??", "**"} THEN LeftPower[w] - 1 ELSE LeftPower[w] + 1]
AssignPower == 10
UnaryPower == 42
NotPower == 41
Assigning == {"=", "+=", "-=", "*=", "/=", "%=", "**=", ".=", "&=", "|=", "^=", "<<=", ">>=", "??="}
Lvalues == {"var", "varvar", "index", "prop", "staticprop", "list", "array"}

Between(p) == IF Kind(p) = "op" THEN Tok(p)[2] ELSE Kw(p)
BinOf(w) == CASE w = "and" -> "&&" [] w = "or" -> "||" [] OTHER -> w
Assigned(w, l, p) ==
  CASE w = "=" /\ Is(p, "&") -> AddRule(New(<<"assignref", l>>, Bump(p)), "expr", AssignPower)
    [] w = "=" /\ ~Is(p, "&") -> AddRule(New(<<"assign", l>>, p), "expr", AssignPower)
    [] OTHER -> AddRule(New(<<"assignop", SubSeq(w, 1, Len(w) - 1), l>>, p), "expr", AssignPower)
Piped(arg, r) == <<<<"call", r[1], <<PlainArg(arg)>>>>, r[2]>>
ClassName(p) == Add(New(<<"const">>, p), Path(p))
InstanceOf(b) == IF AtName(b[2]) THEN Add(b, ClassName(b[2])) ELSE AddRule(b, "prefix", 0)
Joined(w, l, p) ==
  CASE w = "?" -> AddRule(Past(AddOpt(New(<<"ternary", l>>, p), ~Is(p, ":"), "expr", 0), ":"), "expr", LeftPower["?"])
    [] w = "instanceof" -> InstanceOf(New(<<"instanceof", l>>, p))
    [] w = "|>" -> Piped(l, Read("expr", RightPower[w], p))
    [] OTHER -> AddRule(New(<<"bin", BinOf(w), l>>, p), "expr", RightPower[w])
RECURSIVE Climb(_, _)
ClimbWith(min, w, b) ==
  CASE w \in Assigning /\ (AssignPower >= min \/ b[1][1] \in Lvalues) ->
         Climb(min, Assigned(w, b[1], Bump(b[2])))
    [] w \in DOMAIN LeftPower /\ LeftPower[w] >= min -> Climb(min, Joined(w, b[1], Bump(b[2])))
    [] OTHER -> b
Climb(min, b) == ClimbWith(min, Between(b[2]), b)

\* Before an expression.  & says nothing there.
Unaries == {"-", "+", "!", "~", "@", "++", "--"}
Casts ==
  [w \in {"int", "integer"} |-> "int"] @@ [w \in {"float", "double", "real"} |-> "float"]
  @@ [w \in {"string", "binary"} |-> "string"] @@ [w \in {"bool", "boolean"} |-> "bool"]
  @@ [w \in {"array", "object", "unset"} |-> w]
IsCast(p) == Is(p, "(") /\ KwAt(p, 1) \in DOMAIN Casts /\ IsAt(p, 2, ")")
RECURSIVE Postfix(_)
Prefix(p) ==
  CASE Kind(p) = "op" /\ Tok(p)[2] \in Unaries ->
         AddRule(New(<<"unary", Tok(p)[2]>>, Bump(p)), "expr", IF Is(p, "!") THEN NotPower ELSE UnaryPower)
    [] Is(p, "&") -> Read("expr", UnaryPower, Bump(p))
    [] IsCast(p) -> AddRule(New(<<"cast", Casts[KwAt(p, 1)]>>, Bump(Bump(Bump(p)))), "expr", UnaryPower)
    [] Is(p, "(") /\ ~IsCast(p) -> Postfix(Past(Expr(Bump(p)), ")"))
    [] OTHER -> Postfix(Read("primary", 0, p))

----------------------------------------------------------------------------
(* Primary expressions. *)

Element(b) ==
  IF Is(b[2], "=>")
  THEN AddExpr(AddFlag(New(<<<<b[1][3]>>, FALSE>>, Bump(b[2])), "&"))
  ELSE <<<<<<>>, b[1][1], b[1][2], b[1][3]>>, b[2]>>
Keyed(r) == IF Is(r[2], "=>") THEN AddExpr(New(<<<<r[1]>>, FALSE, FALSE>>, Bump(r[2]))) ELSE <<<<<<>>, FALSE, FALSE, r[1]>>, r[2]>>
\* An element is its key, whether it is spread, whether it is a reference,
\* and its value.
ArrayItem(p) == Element(AddExpr(AddFlag(AddFlag(New(<<>>, p), "..."), "&")))
Array(p) == AddList(New(<<"array">>, p), "element", "]")
Slot(p) == Some(Keyed(Expr(p)))

RECURSIVE Conditions(_)
\* The comma before the arrow may be there.
Conditions(b) ==
  CASE Is(b[2], ",") /\ IsAt(b[2], 1, "=>") -> Bumped(b)
    [] Is(b[2], ",") /\ ~IsAt(b[2], 1, "=>") -> Conditions(AddExpr(Bumped(b)))
    [] OTHER -> b
Arm(p) ==
  AddExpr(Past(IF Kw(p) = "default" THEN New(<<<<>>>>, Bump(p)) ELSE Some(Conditions(AddExpr(New(<<>>, p)))), "=>"))
Static(p) == Kw(p) = "static" /\ KwAt(p, 1) \in {"function", "fn"}
AddUses(b) == IF Kw(b[2]) = "use" THEN Past(AddVars(Past(Bumped(b), "("), "use"), ")") ELSE AddValue(b, <<>>)
NoReturnType(b) == <<b[1], IF Is(b[2], ":") THEN Type(Bump(b[2]))[2] ELSE b[2]>>
ClosureRest(b) == AddBlock(NoReturnType(AddUses(AddList(Past(b, "("), "param", ")"))))
Closure(static, p) == ClosureRest(AddFlag(New(<<"closure", static>>, p), "&"))
ArrowRest(b) == AddRule(Past(NoReturnType(AddList(Past(b, "("), "param", ")")), "=>"), "expr", AssignPower)
Arrow(static, p) == ArrowRest(New(<<"fn", static>>, Eat(p, "&")))

YieldValue(r) ==
  IF Is(r[2], "=>") THEN AddRule(New(<<"yield", <<r[1]>>>>, Bump(r[2])), "expr", AssignPower)
  ELSE <<<<"yield", <<>>, r[1]>>, r[2]>>
Yield(p) ==
  CASE Kw(p) = "from" -> AddRule(New(<<"yieldfrom">>, Bump(p)), "expr", AssignPower)
    [] Kind(p) = "eof" \/ \E w \in {";", ")", "]", ","} : Is(p, w) -> <<<<"yield">>, p>>
    [] OTHER -> YieldValue(Read("expr", AssignPower, p))
CallLikes == {"include", "include_once", "require", "require_once", "eval", "exit", "die"}
OneArg(f, r) == <<<<"call", f, <<PlainArg(r[1])>>>>, r[2]>>
CallLike(f, p) ==
  CASE Is(p, "(") -> AddArgs(New(<<"call", f>>, p))
    [] AtEnd(p) \/ Is(p, ")") -> <<<<"call", f, <<>>>>, p>>
    [] OTHER -> OneArg(f, Read("expr", AssignPower, p))
Simple(name) == <<"const", <<"name", FALSE, <<name>>>>>>

\* The name after `new`, and what -> :: and [] reach from an expression there.
PropName(p) ==
  CASE Kind(p) = "ident" -> Add(New(<<"id">>, p), Name(p))
    [] Kind(p) = "var" -> <<Tok(p), Bump(p)>>
    [] Is(p, "{") -> Past(Expr(Bump(p)), "}")
    [] Is(p, "$") -> Read("primary", 0, p)
    [] OTHER -> Fail(p)
AddPropName(b) == Add(b, PropName(b[2]))
IndexOf(b) == Past(AddOpt(b, ~Is(b[2], "]"), "expr", 0), "]")
RECURSIVE MemberChain(_)
MemberChain(b) ==
  CASE Between(b[2]) \in {"->", "?->"} ->
         MemberChain(AddValue(AddPropName(New(<<"prop", b[1]>>, Bump(b[2]))), Is(b[2], "?->")))
    [] Is(b[2], "::") -> MemberChain(AddText(New(<<"classconst", b[1]>>, Bump(b[2])), "ident"))
    [] Is(b[2], "[") -> MemberChain(IndexOf(New(<<"index", b[1]>>, Bump(b[2]))))
    [] OTHER -> b
AnonymousClass(b) == AddMembers(AddInterfaces(AddParent(AddOptArgs(b)), FALSE), "class")
NewAfter(p) ==
  CASE Kw(p) = "class" -> AnonymousClass(New(<<"newanon">>, Bump(p)))
    [] AtName(p) /\ Kw(p) # "class" -> AddOptArgs(Add(New(<<"new">>, p), ClassName(p)))
    [] OTHER -> AddOptArgs(Add(New(<<"new">>, p), MemberChain(Read("primary", 0, p))))

\* The source text of an embedded expression is lexed and parsed on its own.
Reader(tokens, lines) == [t |-> tokens, n |-> lines, i |-> 1, d |-> 0, bad |-> FALSE]
Tokens(lexed) == [k \in DOMAIN lexed |-> lexed[k][1]]
EmbeddedResult(r) == IF r[2].bad THEN <<"error">> ELSE <<"expr", r[1]>>
EmbeddedIn(tokens) == IF Last(tokens) = LexError THEN <<"error">> ELSE EmbeddedResult(Expr(Bump(Reader(tokens, <<>>))))
ParseEmbedded(text) == EmbeddedIn(Tokens(Tokenize(Chars("<?php ") \o text)))
PartOf(part) == IF part[1] = "lit" THEN part ELSE Read("embedded", part[2], Reader(<<Eof>>, <<>>))
Parts(read, p) ==
  IF \E k \in DOMAIN read : read[k] = <<"error">> THEN Fail(p) ELSE <<<<"template", read>>, p>>
BuildTemplate(parts, p) ==
  IF Len(parts) = 1 /\ parts[1][1] = "lit" THEN <<<<"str", parts[1][2]>>, p>>
  ELSE Parts([k \in DOMAIN parts |-> PartOf(parts[k])], p)

Magics ==
  {"__line__", "__file__", "__dir__", "__function__", "__class__", "__trait__", "__method__",
   "__namespace__", "__compiler_halt_offset__"}
VarVar(p) ==
  IF Is(p, "{") THEN Past(AddExpr(New(<<"varvar">>, Bump(p))), "}") ELSE AddRule(New(<<"varvar">>, p), "primary", 0)
ByWord(w, p) ==
  CASE w \in {"true", "false", "null"} -> <<<<w>>, p>>
    [] w = "new" -> NewAfter(SkipAttributes(p))
    [] w = "clone" -> AddRule(New(<<"clone">>, p), "expr", UnaryPower)
    [] w = "print" -> AddRule(New(<<"print">>, p), "expr", AssignPower)
    [] w = "throw" -> AddExpr(New(<<"throw">>, p))
    [] w = "yield" -> Yield(p)
    [] w = "isset" -> AddList(New(<<"isset">>, Expect(p, "(")), "expr", ")")
    [] w = "empty" -> AddParens(New(<<"empty">>, p))
    [] w = "list" -> AddList(New(<<"list">>, Expect(p, "(")), "slot", ")")
    [] w = "match" -> AddList(Past(AddParens(New(<<"match">>, p)), "{"), "arm", "}")
    [] w = "function" -> Closure(FALSE, p)
    [] w = "fn" -> Arrow(FALSE, p)
ExprWords == {"true", "false", "null", "new", "clone", "print", "throw", "yield", "isset", "empty", "list",
              "match", "function", "fn"}
ByIdent(w, p) ==
  CASE w \in ExprWords -> ByWord(w, Bump(p))
    [] w \in CallLikes -> CallLike(Simple(Tok(p)[2]), Bump(p))
    [] w = "array" /\ IsAt(p, 1, "(") -> AddList(New(<<"array">>, Bump(Bump(p))), "element", ")")
    [] Static(p) /\ KwAt(p, 1) = "function" -> Closure(TRUE, Bump(Bump(p)))
    [] Static(p) /\ KwAt(p, 1) = "fn" -> Arrow(TRUE, Bump(Bump(p)))
    [] w \in Magics /\ ~IsAt(p, 1, "\\") -> <<<<"magic", Tok(p)[2]>>, Bump(p)>>
    [] OTHER -> ClassName(p)
PrimaryAt(p) ==
  CASE Kind(p) \in {"int", "float", "str", "var"} -> <<Tok(p), Bump(p)>>
    [] Kind(p) = "template" -> BuildTemplate(Tok(p)[2], Bump(p))
    [] Is(p, "$") -> VarVar(Bump(p))
    [] Is(p, "[") -> Array(Bump(p))
    [] Is(p, "\\") -> ClassName(p)
    [] Kind(p) = "ident" -> ByIdent(Kw(p), p)
    [] OTHER -> Fail(p)
Primary(p) == PrimaryAt(SkipAttributes(p))

----------------------------------------------------------------------------
(* What follows an expression. *)

\* parent::$p::get() and ::set(v) in a hook reach the property itself.
IsHookCall(p) == IsAt(p, 1, "::") /\ KwAt(p, 2) \in {"get", "set"}
HookCall(kind, prop, r) ==
  CASE kind = "get" -> <<ThisProp(prop), r[2]>>
    [] kind = "set" /\ r[1] = <<>> -> <<<<"assign", ThisProp(prop), <<"null">>>>, r[2]>>
    [] OTHER -> <<<<"assign", ThisProp(prop), r[1][1][4]>>, r[2]>>
FirstOf(r) == <<r[1][1], r[2]>>
\* A call if arguments follow, or else what is given.
CallOr(target, other, p) == IF Is(p, "(") THEN AddArgs(New(target, p)) ELSE <<other, p>>
ScopedName(e, r) == CallOr(<<"staticcall", e, <<"id", r[1]>>>>, <<"classconst", e, r[1]>>, r[2])
\* The name in C::{...} counts only in a call.
ScopedExpr(e, r) == CallOr(<<"staticcall", e, r[1]>>, <<"classconst", e, "">>, r[2])
Scoped(e, p) ==
  CASE Kind(p) = "var" /\ IsHookCall(p) ->
         HookCall(KwAt(p, 2), Tok(p)[2], FirstOf(AddArgs(New(<<>>, Bump(Bump(Bump(p)))))))
    [] Kind(p) = "var" /\ ~IsHookCall(p) ->
         CallOr(<<"staticcall", e, Tok(p)>>, <<"staticprop", e, Tok(p)[2]>>, Bump(p))
    [] Is(p, "{") -> ScopedExpr(e, Past(Expr(Bump(p)), "}"))
    [] OTHER -> ScopedName(e, Name(p))
Reached(e, nullsafe, r) ==
  IF Is(r[2], "(") THEN AddValue(AddArgs(New(<<"mcall", e, r[1]>>, r[2])), nullsafe)
  ELSE <<<<"prop", e, r[1], nullsafe>>, r[2]>>
PostfixWith(w, b) ==
  CASE w \in {"->", "?->"} -> Postfix(Reached(b[1], w = "?->", PropName(Bump(b[2]))))
    [] w = "::" -> Postfix(Scoped(b[1], Bump(b[2])))
    [] w = "[" -> Postfix(IndexOf(New(<<"index", b[1]>>, Bump(b[2]))))
    [] w = "(" -> Postfix(AddArgs(New(<<"call", b[1]>>, b[2])))
    [] w \in {"++", "--"} -> Postfix(<<<<"post", w, b[1]>>, Bump(b[2])>>)
    [] OTHER -> b
Postfix(b) == PostfixWith(Between(b[2]), b)

----------------------------------------------------------------------------
(* The rules by name, and whole programs. *)

Expression(min, p) == IF p.d >= MaxDepth THEN Fail(p) ELSE Back(p.d, Climb(min, Prefix(Deeper(p))))
Read(rule, x, p) ==
  CASE rule = "expr" -> Expression(x, p)
    [] rule = "prefix" -> Prefix(p)
    [] rule = "primary" -> Primary(p)
    [] rule = "embedded" -> ParseEmbedded(x)
    [] rule = "statement" -> Statement(p)
    [] rule = "statements" -> Statements(x[1], x[2], New(x[3], p))
    [] rule = "items" -> Items(x[1], x[2], New(x[3], p))
    [] rule = "path" -> Path(p)
    [] rule = "constant" -> Constant(p)
    [] rule = "param" -> Param(p)
    [] rule = "arg" -> Arg(p)
    [] rule = "element" -> ArrayItem(p)
    [] rule = "slot" -> Slot(p)
    [] rule = "arm" -> Arm(p)
    [] rule = "class" -> Class(p)
    [] rule = "members" -> Members(x[1], x[2], p)
    [] rule = "hooks" -> Hooks(x[1], x[2], x[3], p)
Result(r) == IF r[2].bad THEN <<"error">> ELSE <<"program", r[1]>>
Program(p) == Result(Read("statements", <<"program", {}, <<>>>>, p))
Lines(lexed) == [k \in DOMAIN lexed |-> lexed[k][2]]
ParseTokens(lexed) == IF Last(lexed)[1] = LexError THEN <<"error">> ELSE Program(Reader(Tokens(lexed), Lines(lexed)))
Parse(c) == ParseTokens(Tokenize(c))
=============================================================================
