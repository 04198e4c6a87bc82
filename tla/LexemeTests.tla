---------------------------- MODULE LexemeTests ----------------------------
(***************************************************************************)
(* Lexemes for Lexer: strings, numbers, runs of operators, pages of HTML    *)
(* and code, and strings with expressions in them.  Each is written from    *)
(* what it stands for by PHP's rules, in every form that means the same,    *)
(* and must be read as that.                                               *)
(***************************************************************************)
EXTENDS Lexer

UpTo(S, n) == UNION {[1..k -> S] : k \in 0..n}

----------------------------------------------------------------------------
(* Strings.  "all" escapes all that may be escaped, "few" only what would   *)
(* be something else without its backslash.  prev and next are the          *)
(* characters around it, quotes included. *)

Contents == UpTo({"a", "n", "0", "'", "\"", "\\", "$", "{", "\n"}, 3)
Quotes == {"single", "double", "heredoc", "nowdoc"}
Escapable == [single |-> {"'", "\\"}, double |-> {"\"", "\\", "$"}, heredoc |-> {"\\", "$"}, nowdoc |-> {}]
\* The characters a backslash changes.  In PHP a heredoc keeps the backslash
\* of \" and one at its end; the lexer drops both, so neither is written.
AfterBackslash ==
  [single |-> {"'", "\\"}, double |-> {"n", "0", "\"", "\\", "$", "{"},
   heredoc |-> {"n", "0", "\"", "\\", "$", "{"}, nowdoc |-> {}]
Needed(style, prev, c, next) ==
  CASE c = "\\" -> next \in AfterBackslash[style]
    [] c = "$" -> next \in IdentStart \cup {"{"} \/ prev = "{"
    [] OTHER -> TRUE
Escaping(style, amount, prev, c, next) ==
  c \in Escapable[style] /\ (amount = "all" \/ Needed(style, prev, c, next))
\* What is written between `before` and `after`.
Inside(style, amount, before, s, after) ==
  FlattenSeq([k \in DOMAIN s |->
    IF Escaping(style, amount, IF k = 1 THEN before ELSE s[k - 1], s[k], IF k = Len(s) THEN after ELSE s[k + 1])
    THEN <<"\\", s[k]>> ELSE <<s[k]>>])
StringText(style, amount, s) ==
  CASE style = "single" -> <<"'">> \o Inside(style, amount, "", s, "'") \o <<"'">>
    [] style = "double" -> <<"\"">> \o Inside(style, amount, "", s, "\"") \o <<"\"">>
    [] style = "heredoc" -> Chars("<<<E\n") \o Inside(style, amount, "", s, "\\") \o Chars("\nE")
    [] style = "nowdoc" -> Chars("<<<'E'\n") \o s \o Chars("\n E")
StringTests == {<<"string", style, amount, s>> : style \in Quotes, amount \in {"all", "few"}, s \in Contents}
StringTokens(style, s) ==
  <<IF style \in {"single", "nowdoc"} THEN <<"str", s>> ELSE <<"template", <<<<"lit", s>>>>>>>>

----------------------------------------------------------------------------
(* Integers, in each notation, with and without separators. *)

Notations ==
  [decimal |-> <<"", 10>>, hex |-> <<"0x", 16>>, upperhex |-> <<"0X", 16>>, octal |-> <<"0o", 8>>,
   oldoctal |-> <<"0", 8>>, binary |-> <<"0b", 2>>]
DigitText == Chars("0123456789abcdef")
RECURSIVE DigitsOf(_, _)
DigitsOf(n, radix) ==
  (IF n < radix THEN <<>> ELSE DigitsOf(n \div radix, radix)) \o <<DigitText[1 + (n % radix)]>>
Grouped(s) == FlattenSeq([k \in DOMAIN s |-> IF k = 1 THEN <<s[k]>> ELSE <<"_", s[k]>>])
IntText(notation, n, grouped) ==
  LET s == DigitsOf(n, Notations[notation][2])
  IN Chars(Notations[notation][1])
     \o (IF grouped THEN Grouped(s) ELSE IF notation = "upperhex" THEN [k \in DOMAIN s |-> Upper(s[k])] ELSE s)
IntTests ==
  {<<"int", notation, n, grouped>> : notation \in DOMAIN Notations, n \in (0..66) \cup (LargestInt - 3)..LargestInt, grouped \in BOOLEAN}
  \cup {<<"int", "decimal", n, FALSE>> : n \in (LargestInt + 1)..(LargestInt + 3)}
IntTokens(n) ==
  <<IF n <= LargestInt THEN <<"int", n>> ELSE <<"float", Word(DigitsOf(n, 10))>>>>

----------------------------------------------------------------------------
(* Runs of operators, read longest first. *)

Operators ==
  {"===", "!==", "<=>", "**=", "...", "<<=", ">>=", "??=", "?->", "==", "!=", "<=", ">=", "&&", "||", "++", "--",
   "+=", "-=", "*=", "/=", "%=", ".=", "&=", "|=", "|>", "^=", "**", "->", "=>", "::", "<<", ">>", "??", ")", "[",
   "]", "{", "}", ";", ",", ":", "?", "@", "+", "-", "*", "/", "%", ".", "=", "<", ">", "!", "&", "|", "^", "~", "(", "$"}
\* What begins something else than an operator.
Ambiguous == {"//", "/*", "?>", "<>", "<<<"}
Within(w, s) == \E k \in 1..(Len(s) - Len(w) + 1) : SubSeq(s, k, k + Len(w) - 1) = Chars(w)
OperatorTests ==
  {t \in {<<"operators", a, b>> : a, b \in Operators} : ~\E w \in Ambiguous : Within(w, Chars(t[2] \o t[3]))}
RECURSIVE Longest(_)
\* The sequence of operators s is read as.
Longest(s) ==
  IF s = <<>> THEN <<>>
  ELSE LET fits == {w \in Operators : Len(w) <= Len(s) /\ SubSeq(s, 1, Len(w)) = Chars(w)}
           w == CHOOSE w \in fits : \A v \in fits : Len(v) <= Len(w)
       IN <<<<"op", w>>>> \o Longest(SubSeq(s, Len(w) + 1, Len(s)))

----------------------------------------------------------------------------
(* Pages: HTML, one piece of code, HTML, another piece, HTML.  A newline    *)
(* after a close tag is not HTML. *)

Html == {"", "a", "\n", "\n<", "?>"}
OpenTags == {"<?php ", "<?php\n", "<?=", "<? "}
PageTests == {<<"page", h1, o1, h2, o2, h3>> : h1, h2, h3 \in Html, o1, o2 \in OpenTags}
AfterClose(h) == Chars(IF h # "" /\ SubSeq(h, 1, 1) = "\n" THEN "?>\n" ELSE "?>") \o Chars(h)
PageText(t) == Chars(t[2]) \o Chars(t[3]) \o <<"1">> \o AfterClose(t[4]) \o Chars(t[5]) \o <<"1">> \o AfterClose(t[6])
HtmlTokens(h) == IF h = "" THEN <<>> ELSE <<<<"html", Chars(h)>>>>
CodeTokens(o) == <<IF o = "<?=" THEN <<"openecho">> ELSE <<"open">>, <<"int", 1>>, <<"close">>>>
PageTokens(t) ==
  HtmlTokens(t[2]) \o CodeTokens(t[3]) \o HtmlTokens(t[4]) \o CodeTokens(t[5]) \o HtmlTokens(t[6])

----------------------------------------------------------------------------
(* Strings with two expressions in them, written without braces where what  *)
(* follows would not become a part of the expression. *)

Literals == {"", "a", "[", "->b", "{", "$", "}", "\\"}
Embeddable == {"$a", "$a[0]", "$a->b", "$f({1})"}
Bare(e, next) ==
  CASE e = "$a" -> next \notin {"a", "[", "->b"} [] e = "$a[0]" -> TRUE [] e = "$a->b" -> next # "a" [] OTHER -> FALSE
Forms == {"bare", "braces", "dollar"}
\* prev and next are the literals around e.
Allowed(form, e, prev, next) ==
  CASE form = "bare" -> Bare(e, next) /\ prev # "{" [] form = "braces" -> TRUE [] form = "dollar" -> e = "$a" /\ prev # "{"
ExprText(form, e) ==
  CASE form = "bare" -> Chars(e) [] form = "braces" -> <<"{">> \o Chars(e) \o <<"}">> [] form = "dollar" -> Chars("${a}")
TemplateTests ==
  {t \in {<<"template", h, e1, f1, m, e2, f2, style>> :
            h, m \in Literals, e1, e2 \in Embeddable, f1, f2 \in Forms, style \in {"double", "heredoc"}} :
     Allowed(t[4], t[3], t[2], t[5]) /\ Allowed(t[7], t[6], t[5], "")}
LiteralText(style, l, form) == Inside(style, "few", "", Chars(l), IF form = "braces" THEN "{" ELSE "$")
TemplateText(t) ==
  LET body == LiteralText(t[8], t[2], t[4]) \o ExprText(t[4], t[3]) \o LiteralText(t[8], t[5], t[7]) \o ExprText(t[7], t[6])
  IN IF t[8] = "double" THEN <<"\"">> \o body \o <<"\"">> ELSE Chars("<<<\"E\"\n") \o body \o Chars("\n E")
LitPart(l) == IF l = "" THEN <<>> ELSE <<<<"lit", Chars(l)>>>>
TemplateTokens(t) ==
  <<<<"template", LitPart(t[2]) \o <<<<"expr", Chars(t[3])>>>> \o LitPart(t[5]) \o <<<<"expr", Chars(t[6])>>>>>>>>

----------------------------------------------------------------------------
(* Tests and their answers. *)

LexemeTests == StringTests \cup IntTests \cup OperatorTests \cup PageTests \cup TemplateTests
TextOf(t) ==
  CASE t[1] = "string" -> StringText(t[2], t[3], t[4])
    [] t[1] = "int" -> IntText(t[2], t[3], t[4])
    [] t[1] = "operators" -> Chars(t[2] \o t[3])
    [] t[1] = "page" -> PageText(t)
    [] t[1] = "template" -> TemplateText(t)
TokensOf(t) ==
  CASE t[1] = "string" -> StringTokens(t[2], t[4])
    [] t[1] = "int" -> IntTokens(t[3])
    [] t[1] = "operators" -> Longest(Chars(t[2] \o t[3]))
    [] t[1] = "page" -> PageTokens(t)
    [] t[1] = "template" -> TemplateTokens(t)
SourceOf(t) == IF t[1] = "page" THEN TextOf(t) ELSE Chars("<?php ") \o TextOf(t)
LexemeAnswer(t) == Tokenize(SourceOf(t))
AllTokens(t) == (IF t[1] = "page" THEN <<>> ELSE <<<<"open">>>>) \o TokensOf(t) \o <<<<"eof">>>>
\* The tokens, and the line of the last one.
LexemeReadBack(t, answer) ==
  /\ [k \in DOMAIN answer |-> answer[k][1]] = AllTokens(t)
  /\ answer[Len(answer)][2] = 1 + Cardinality({k \in DOMAIN SourceOf(t) : SourceOf(t)[k] = "\n"})
============================================================================
