-------------------------------- MODULE Lexer --------------------------------
(***************************************************************************)
(* The lexer of lexer.rs: source characters to tokens, with the line each  *)
(* of them starts on.  A reader takes the source c and a position i and    *)
(* returns a token with the position after it.                             *)
(* Floats stay the digits they are written with.                           *)
(***************************************************************************)
EXTENDS CharText, FiniteSets

CONSTANT LargestInt       \* i64::MAX

Word(s) == FoldLeft(LAMBDA w, c : w \o c, "", s)
Lowered(s) == Word([k \in DOMAIN s |-> Lower(s[k])])
AtMost(n, m) == IF n <= m THEN n ELSE m
From(c, i, n) == Word(SubSeq(c, i, AtMost(i + n - 1, Len(c))))
Starts(c, i, w) == From(c, i, Len(w)) = w
LineBlanks == {" ", "\t"}
IdentStart == Letters \cup {"_"}
\* The first position from i on where the text w starts.
Find(c, i, w) ==
  LET at == {j \in i..Len(c) : Starts(c, j, w)}
  IN IF at = {} THEN Len(c) + 1 ELSE CHOOSE j \in at : \A k \in at : j <= k

Eof == <<"eof">>
LexError == <<"error">>
Op(w) == <<"op", w>>

----------------------------------------------------------------------------
(* Blanks and comments.  A line comment ends before a close tag too, and    *)
(* #[ opens an attribute. *)

CommentEnd(c, i) == AtMost(Until(c, i, {"\n"}), Find(c, i, "?>"))
RECURSIVE SkipTrivia(_, _)
SkipTrivia(c, i) ==
  CASE CharAt(c, i) \in LineBlanks \cup {"\r", "\n"} -> SkipTrivia(c, i + 1)
    [] Starts(c, i, "//") -> SkipTrivia(c, CommentEnd(c, i))
    [] CharAt(c, i) = "#" /\ CharAt(c, i + 1) # "[" -> SkipTrivia(c, CommentEnd(c, i))
    [] Starts(c, i, "/*") -> SkipTrivia(c, AtMost(Find(c, i + 2, "*/") + 2, Len(c) + 1))
    [] OTHER -> i

----------------------------------------------------------------------------
(* Names and numbers. *)

IdentAt(c, i) ==
  LET s == SubSeq(c, i, SpanEnd(c, i, WordChars) - 1)
  IN <<<<"ident", Word(s), Lowered(s)>>, i + Len(s)>>
VariableAt(c, i) ==
  IF CharAt(c, i + 1) \in IdentStart
  THEN <<<<"var", Word(SubSeq(c, i + 1, SpanEnd(c, i + 1, WordChars) - 1))>>, SpanEnd(c, i + 1, WordChars)>>
  ELSE <<Op("$"), i + 1>>

Value(digits, radix) == FoldLeft(LAMBDA n, d : radix * n + HexDigit(d), 0, digits)
Plain(s) == SelectSeq(s, LAMBDA d : d # "_")
\* 0 stands for what an i64 cannot hold.
RadixValue(digits, radix) ==
  IF Value(digits, radix) <= LargestInt THEN Value(digits, radix) ELSE 0
RadixAt(c, i, radix, digits) ==
  LET end == SpanEnd(c, i + 2, digits \cup {"_"})
  IN <<<<"int", RadixValue(Plain(SubSeq(c, i + 2, end - 1)), radix)>>, end>>

\* An exponent is one e with digits to the end.
Exponents == {"e", "E"}
\* Digits with at most one point and exponents; what an i64 cannot hold is a
\* float.
RECURSIVE NumberEnd(_, _, _)
NumberEnd(c, i, float) ==
  CASE CharAt(c, i) \in Digits \cup {"_"} -> NumberEnd(c, i + 1, float)
    [] CharAt(c, i) = "." /\ ~float /\ CharAt(c, i + 1) # "." -> NumberEnd(c, i + 1, TRUE)
    [] CharAt(c, i) \in Exponents ->
         NumberEnd(c, IF CharAt(c, i + 1) \in {"+", "-"} THEN i + 2 ELSE i + 1, TRUE)
    [] OTHER -> i
Octals == {"0", "1", "2", "3", "4", "5", "6", "7"}
IsOctal(s) == Len(s) > 1 /\ s[1] = "0" /\ Range(s) \subseteq Octals
IsFloat(s) ==
  \/ Range(s) \cap Exponents = {}
  \/ s[Len(s)] \in Digits /\ Until(s, Until(s, 1, Exponents) + 1, Exponents) > Len(s)
Number(s) ==
  CASE ~(Range(s) \subseteq Digits) -> IF IsFloat(s) THEN <<"float", Word(s)>> ELSE LexError
    [] IsOctal(s) /\ Value(s, 8) <= LargestInt -> <<"int", Value(s, 8)>>
    [] ~IsOctal(s) /\ Len(s) < 10 /\ NumberOf(s) <= LargestInt -> <<"int", NumberOf(s)>>
    [] OTHER -> <<"float", Word(s)>>
DecimalAt(c, i, end) == <<Number(Plain(SubSeq(c, i, end - 1))), end>>
NumberAt(c, i) ==
  CASE CharAt(c, i) = "0" /\ CharAt(c, i + 1) \in {"x", "X"} -> RadixAt(c, i, 16, HexDigits)
    [] CharAt(c, i) = "0" /\ CharAt(c, i + 1) \in {"b", "B"} -> RadixAt(c, i, 2, {"0", "1"})
    [] CharAt(c, i) = "0" /\ CharAt(c, i + 1) \in {"o", "O"} -> RadixAt(c, i, 8, Octals)
    [] OTHER -> DecimalAt(c, i, NumberEnd(c, i, FALSE))

----------------------------------------------------------------------------
(* Strings.  A template is a sequence of literal parts and of the source    *)
(* texts of embedded expressions. *)

RECURSIVE SingleQuoted(_, _, _)
SingleQuoted(c, i, out) ==
  CASE i > Len(c) -> <<LexError, i>>
    [] CharAt(c, i) = "'" -> <<<<"str", out>>, i + 1>>
    [] CharAt(c, i) = "\\" /\ CharAt(c, i + 1) \in {"'", "\\"} ->
         SingleQuoted(c, i + 2, Append(out, c[i + 1]))
    [] OTHER -> SingleQuoted(c, i + 1, Append(out, c[i]))

Chr(n) == IF n \in DOMAIN CharOf THEN CharOf[n] ELSE "CHR" \o ToString(n)
Short == [c \in {"n", "t", "r", "v", "f", "e", "\\", "$", "\""} |->
  CASE c = "n" -> "\n" [] c = "t" -> "\t" [] c = "r" -> "\r" [] c = "v" -> VTab
    [] c = "f" -> "\f" [] c = "e" -> "ESC" [] OTHER -> c]
HexEscape(c, i, end) ==
  IF end = i THEN <<<<"\\", "x">>, i>> ELSE <<<<Chr(HexValue(SubSeq(c, i, end - 1)))>>, end>>
CodePoint(c, i, close) == <<<<Chr(HexValue(SubSeq(c, i, close - 1)))>>, close + 1>>
OctalEscape(c, i, end) ==
  LET n == Value(SubSeq(c, i, end - 1), 8) IN <<<<Chr(IF n < 256 THEN n ELSE 0)>>, end>>
\* What the text after a backslash stands for.
EscapeAt(c, i) ==
  LET e == CharAt(c, i) IN
  CASE e = NoChar -> <<<<>>, i>>
    [] e \in DOMAIN Short -> <<<<Short[e]>>, i + 1>>
    [] e = "x" -> HexEscape(c, i + 1, AtMost(SpanEnd(c, i + 1, HexDigits), i + 3))
    [] e = "u" /\ CharAt(c, i + 1) = "{" -> CodePoint(c, i + 2, Until(c, i + 2, {"}"}))
    [] e \in Octals -> OctalEscape(c, i, AtMost(SpanEnd(c, i, Octals), i + 3))
    [] OTHER -> <<<<"\\", e>>, i + 1>>

\* $name with one ->name or [...] after it.
Accessor(c, i) ==
  CASE Starts(c, i, "->") /\ CharAt(c, i + 2) \in IdentStart -> SpanEnd(c, i + 2, WordChars)
    [] CharAt(c, i) = "[" -> AtMost(Until(c, i, {"]"}) + 1, Len(c) + 1)
    [] OTHER -> i
SimpleEnd(c, i) == Accessor(c, SpanEnd(c, i + 1, WordChars))
\* The position of the brace that closes the one before i; quotes do not count.
RECURSIVE Balanced(_, _, _)
Balanced(c, i, depth) ==
  CASE i > Len(c) -> i
    [] CharAt(c, i) = "{" -> Balanced(c, i + 1, depth + 1)
    [] CharAt(c, i) = "}" -> IF depth = 1 THEN i ELSE Balanced(c, i + 1, depth - 1)
    [] OTHER -> Balanced(c, i + 1, depth)

\* The string ends at a quote, or, in a heredoc, with the text.
Flushed(parts, lit) == IF lit = <<>> THEN parts ELSE Append(parts, <<"lit", lit>>)
Template(parts) == <<"template", IF parts = <<>> THEN <<<<"lit", <<>>>>>> ELSE parts>>
RECURSIVE Interpolated(_, _, _, _, _)
Escaped(c, heredoc, parts, lit, r) == Interpolated(c, r[2], heredoc, parts, lit \o r[1])
Embedded(c, heredoc, parts, text, next) ==
  IF next > Len(c) + 1 THEN <<LexError, next>>
  ELSE Interpolated(c, next, heredoc, Append(parts, <<"expr", text>>), <<>>)
InBraces(c, i, heredoc, parts, sigil, close) ==
  Embedded(c, heredoc, parts, sigil \o SubSeq(c, i, close - 1), close + 1)
Interpolated(c, i, heredoc, parts, lit) ==
  CASE i > Len(c) -> <<IF heredoc THEN Template(Flushed(parts, lit)) ELSE LexError, i>>
    [] CharAt(c, i) = "\"" /\ ~heredoc -> <<Template(Flushed(parts, lit)), i + 1>>
    [] CharAt(c, i) = "\\" -> Escaped(c, heredoc, parts, lit, EscapeAt(c, i + 1))
    [] CharAt(c, i) = "$" /\ CharAt(c, i + 1) \in IdentStart ->
         Embedded(c, heredoc, Flushed(parts, lit), SubSeq(c, i, SimpleEnd(c, i) - 1), SimpleEnd(c, i))
    [] Starts(c, i, "${") ->
         InBraces(c, i + 2, heredoc, Flushed(parts, lit), <<"$">>, Balanced(c, i + 2, 1))
    [] Starts(c, i, "{$") ->
         InBraces(c, i + 1, heredoc, Flushed(parts, lit), <<>>, Balanced(c, i + 1, 1))
    [] OTHER -> Interpolated(c, i + 1, heredoc, parts, Append(lit, CharAt(c, i)))

----------------------------------------------------------------------------
(* Heredocs and nowdocs: the body ends at the line that has nothing but     *)
(* blanks before the label; the newline before that line is not part of    *)
(* it, and the indentation of the label stays in the body. *)

NowdocOrTemplate(body, nowdoc) ==
  IF nowdoc THEN <<"str", body>> ELSE Interpolated(body, 1, TRUE, <<>>, <<>>)[1]
BodyEnd(c, line) ==
  CASE CharAt(c, line - 1) # "\n" -> line
    [] CharAt(c, line - 1) = "\n" /\ CharAt(c, line - 2) = "\r" -> line - 2
    [] OTHER -> line - 1
RECURSIVE HeredocBody(_, _, _, _, _)
ClosingAt(c, start, line, label, nowdoc, at) ==
  IF Starts(c, at, label) /\ CharAt(c, at + Len(label)) \notin WordChars
  THEN <<NowdocOrTemplate(SubSeq(c, start, BodyEnd(c, line) - 1), nowdoc), at + Len(label)>>
  ELSE HeredocBody(c, start, Until(c, line, {"\n"}) + 1, label, nowdoc)
HeredocBody(c, start, line, label, nowdoc) ==
  IF line > Len(c) + 1 THEN <<LexError, line>>
  ELSE ClosingAt(c, start, line, label, nowdoc, SpanEnd(c, line, LineBlanks))
AfterLine(c, i) == IF CharAt(c, i) = "\n" THEN i + 1 ELSE i
HeredocLabelled(c, i, end, quote) ==
  LET start == AfterLine(c, SpanEnd(c, IF quote \in {"'", "\""} THEN end + 1 ELSE end, LineBlanks \cup {"\r"}))
  IN IF end = i THEN <<LexError, i>> ELSE HeredocBody(c, start, start, From(c, i, end - i), quote = "'")
HeredocQuoted(c, i) ==
  IF CharAt(c, i) \in {"'", "\""}
  THEN HeredocLabelled(c, i + 1, SpanEnd(c, i + 1, WordChars), c[i])
  ELSE HeredocLabelled(c, i, SpanEnd(c, i, WordChars), NoChar)
HeredocAt(c, i) == HeredocQuoted(c, SpanEnd(c, i + 3, LineBlanks))

----------------------------------------------------------------------------
(* Operators, longest first. *)

Three == {"===", "!==", "<=>", "**=", "...", "<<=", ">>=", "??=", "?->"}
Two == {"==", "!=", "<>", "<=", ">=", "&&", "||", "++", "--", "+=", "-=", "*=", "/=", "%=", ".=",
        "&=", "|=", "|>", "^=", "**", "->", "=>", "::", "<<", ">>", "??", "#["}
One == {")", "[", "]", "{", "}", ";", ",", ":", "?", "@", "\\", "+", "-", "*", "/", "%", ".", "=", "<", ">",
        "!", "&", "|", "^", "~", "("}
\* Mutant: two characters before three.
OperatorAtShort(c, i) ==
  IF From(c, i, 2) \in Two THEN <<Op(From(c, i, 2)), i + 2>> ELSE <<Op(c[i]), i + 1>>
OperatorAt(c, i) ==
  CASE From(c, i, 3) \in Three -> <<Op(From(c, i, 3)), i + 3>>
    [] From(c, i, 2) \in Two -> <<IF From(c, i, 2) = "<>" THEN Op("!=") ELSE Op(From(c, i, 2)), i + 2>>
    [] From(c, i, 1) \in One -> <<Op(c[i]), i + 1>>
    [] OTHER -> <<LexError, i>>

----------------------------------------------------------------------------
(* Code and HTML. *)

\* One newline after a close tag belongs to it.
CloseTag(c, i) ==
  <<<<"close">>, CASE CharAt(c, i) = "\n" -> i + 1 [] Starts(c, i, "\r\n") -> i + 2 [] OTHER -> i>>
CodeToken(c, i) ==
  LET e == CharAt(c, i)
      prefixed == e \in {"b", "B"}
  IN CASE e = NoChar -> <<Eof, i>>
       [] Starts(c, i, "?>") -> CloseTag(c, i + 2)
       [] e = "$" -> VariableAt(c, i)
       [] e = "'" -> SingleQuoted(c, i + 1, <<>>)
       [] e = "\"" -> Interpolated(c, i + 1, FALSE, <<>>, <<>>)
       [] prefixed /\ CharAt(c, i + 1) = "\"" -> Interpolated(c, i + 2, FALSE, <<>>, <<>>)
       [] prefixed /\ CharAt(c, i + 1) = "'" -> SingleQuoted(c, i + 2, <<>>)
       [] prefixed /\ Starts(c, i + 1, "<<<") -> HeredocAt(c, i + 1)
       [] Starts(c, i, "<<<") -> HeredocAt(c, i)
       [] e \in Digits \/ (e = "." /\ CharAt(c, i + 1) \in Digits) -> NumberAt(c, i)
       [] e \in IdentStart /\ ~(prefixed /\ (CharAt(c, i + 1) \in {"\"", "'"} \/ Starts(c, i + 1, "<<<"))) ->
            IdentAt(c, i)
       [] OTHER -> OperatorAt(c, i)
HtmlToken(c, i) ==
  LET open == Find(c, i, "<?") IN
  CASE open > i -> <<<<"html", SubSeq(c, i, open - 1)>>, open>>
    [] i > Len(c) -> <<Eof, i>>
    [] Starts(c, i, "<?=") -> <<<<"openecho">>, i + 3>>
    [] Starts(c, i, "<?php") ->
         <<<<"open">>, IF CharAt(c, i + 5) \in {" ", "\t", "\n", "\r"} THEN i + 6 ELSE i + 5>>
    [] OTHER -> <<<<"open">>, i + 2>>

\* A token with its line, which counts the newlines before its start.
LineAt(c, i) == 1 + Cardinality({j \in 1..(i - 1) : c[j] = "\n"})
\* The state between two tokens: position, whether in code, tokens so far.
InCode(php, token) ==
  CASE token[1] \in {"open", "openecho"} -> TRUE [] token[1] = "close" -> FALSE [] OTHER -> php
Lexed(c, start, s, r) ==
  <<r[2], InCode(s[2], r[1]), Append(s[3], <<r[1], LineAt(c, start)>>)>>
CodeAt(c, i, s) == Lexed(c, i, s, CodeToken(c, i))
NextToken(c, s) ==
  IF s[2] THEN CodeAt(c, SkipTrivia(c, s[1]), s) ELSE Lexed(c, s[1], s, HtmlToken(c, s[1]))
Ended(s) == s[3] # <<>> /\ s[3][Len(s[3])][1] \in {Eof, LexError}
\* At most 2^k tokens from s on: halving keeps the evaluation shallow.
RECURSIVE TokensFrom(_, _, _)
TokensFrom(c, k, s) ==
  CASE Ended(s) -> s [] k = 0 -> NextToken(c, s) [] OTHER -> TokensFrom(c, k - 1, TokensFrom(c, k - 1, s))
MostTokens == 10     \* as a power of two
Tokenize(c) == TokensFrom(c, MostTokens, <<1, FALSE, <<>>>>)[3]
==============================================================================
