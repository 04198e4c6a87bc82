----------------------------- MODULE RegexTests -----------------------------
(***************************************************************************)
(* Patterns and subjects for Regex: every quantifier, greedy and lazy,     *)
(* over groups and alternatives, next to what makes it give characters     *)
(* back.  Loops whose body may match nothing end at DepthCap, and groups   *)
(* set by a lookahead outlive it when what follows fails; both are left    *)
(* out (the README says what they do).                                     *)
(***************************************************************************)
EXTENDS RegexMeaning

A == <<"char", "a">>
B == <<"char", "b">>
Dot == <<"any">>
AOrB == <<"class", FALSE, <<<<"ch", "a">>, <<"ch", "b">>>>>>
NotA == <<"class", TRUE, <<<<"ch", "a">>>>>>
AToC == <<"class", FALSE, <<<<"range", "a", "c">>, <<"pre", "D">>>>>>
OddClass == <<"class", TRUE, <<<<"ch", "]">>, <<"ch", "-">>, <<"pre", "s">>, <<"ch", "\\">>>>>>
Group(n, e) == <<"group", n, e>>
Or(e, f) == <<"alt", e, f>>
Cat(items) == <<"concat", items>>
Start == <<"start">>
End == <<"end">>

Bodies == {A, Dot, AOrB, Group(1, A), Group(1, Or(A, B)), Group(0, Or(Cat(<<A, B>>), A))}
Simple == {<<kind, e, g>> : kind \in {"star", "plus", "quest"}, e \in Bodies, g \in BOOLEAN}
Counted == {<<"repeat", e, n, m, g>> : e \in Bodies, n \in {0, 1}, m \in {1, 2, NoMax}, g \in BOOLEAN}
MaybeEmpty == {<<"repeat", Group(1, Or(A, Empty)), 1, 2, g>> : g \in BOOLEAN}
              \cup {<<"quest", Group(1, <<"star", A, FALSE>>), TRUE>>}
Quantifieds == Simple \cup Counted \cup MaybeEmpty

Follows == {B, NotA, AToC, OddClass, End, <<"wordb", TRUE>>, <<"wordb", FALSE>>,
            Group(0, Or(Cat(<<A, B>>), B)), <<"look", FALSE, A>>, <<"look", TRUE, B>>,
            <<"star", AOrB, FALSE>>}
Grouped1(q) == q[2][1] = "group" /\ q[2][2] = 1
Recalls == {Cat(<<q, <<"backref", 1>>, Group(2, Dot)>>) : q \in {r \in Simple : Grouped1(r) /\ r[1] = "plus"}}
Patterns == Quantifieds \cup {Cat(<<q, f>>) : q \in Quantifieds, f \in Follows} \cup Recalls
Anchored == {Cat(<<Start, q, End>>) : q \in Simple} \cup {Start, <<"empty">>, Or(Start, B)}
Literals == {Cat([k \in DOMAIN s |-> <<"char", s[k]>>]) : s \in {Chars("a.b"), Chars("[$]"), Chars("a-\\"), Chars("/*{")}}

Short == UNION {[1..n -> {"a", "b"}] : n \in 0..3}
Lines == {Chars("b\na"), Chars("ab\n"), Chars("A b")}
Odd == {Chars("a.b"), Chars("axb"), Chars("[$]"), Chars("a-\\"), Chars("/*{"), Chars("Aab")}

Flag == {"i", "m", "s", "x"}
MatchTest(re, text, flag) == [kind |-> "match", re |-> re, text |-> text, flag |-> flag]
RebuildTest(re, text) == [kind |-> "rebuild", re |-> re, text |-> text, flag |-> "s"]
MatchTests ==
  {MatchTest(re, text, "s") : re \in Patterns \cup Anchored, text \in Short}
  \cup {MatchTest(re, text, flag) : re \in Simple \cup Anchored, text \in Lines, flag \in Flag}
  \cup {MatchTest(re, text, flag) : re \in Literals, text \in Odd, flag \in Flag}
Ungrouped == {q \in Quantifieds : ~Grouped1(q)}
RebuildTests ==
  {RebuildTest(Group(1, re), text) :
     re \in Ungrouped \cup {Cat(<<q, f>>) : q \in Ungrouped, f \in Follows}, text \in Short \cup Lines}

Gap(flag) == IF flag = "x" THEN Chars(" #-\n") ELSE <<>>
Subject(t) ==
  [text |-> t.text, ci |-> t.flag = "i", dotall |-> t.flag = "s", multiline |-> t.flag = "m"]

\* What the engine makes of a test: the pattern it reads and the slots it
\* leaves, or the subject put together from the pieces it was taken into.
MatchAnswer(t, pattern, rx) ==
  [re |-> ParsedPattern(pattern, t.flag = "x")[1], slots |-> Exec(rx, t.text, 1, 0).slots]
Replacements == {<<Chars("$0"), -1>>, <<Chars("\\1"), 1>>, <<<<>>, -1>>}
RebuildAnswer(t, rx) ==
  [split |-> Split(rx, t.text), matches |-> AllMatches(rx, t.text, 1, 0, <<>>),
   replaced |-> [r \in Replacements |-> Replace(rx, r[1], t.text, r[2])]]
Answer(t, pattern, rx) ==
  IF t.kind = "match" THEN MatchAnswer(t, pattern, rx) ELSE RebuildAnswer(t, rx)
AnswerFor(t, pattern) == Answer(t, pattern, Compile(<<"/">> \o pattern \o <<"/", t.flag>>))
AnswerTo(t) == AnswerFor(t, Written(t.re, Gap(t.flag)))

\* "A small PCRE-ish engine": a pattern is read as it was written, and the
\* match is the leftmost one that greedy and lazy quantifiers prefer, with the
\* groups of that match and of no attempt that was given up.
AsDefined(t, answer) ==
  t.kind = "match" =>
    /\ answer.re = t.re
    /\ answer.slots = Found(Subject(t), t.re, [n \in DOMAIN answer.slots |-> Unset])

\* Cutting a text at its matches loses nothing and repeats nothing: the pieces
\* of preg_split with their delimiters are the subject, replacing matches by
\* themselves changes nothing, and deleting them leaves what no match covers.
Rebuilt(t, answer) ==
  t.kind = "rebuild" =>
    LET covered == UNION {s[0]..(s[1] - 1) : s \in Range(answer.matches)}
        bare == SelectSeq([i \in DOMAIN t.text |-> i], LAMBDA i : i \notin covered)
    IN /\ FlattenSeq(answer.split) = t.text
       /\ \A r \in Replacements : answer.replaced[r] =
            IF r[1] # <<>> THEN t.text ELSE [k \in DOMAIN bare |-> t.text[bare[k]]]
       /\ \A k \in 1..(Len(answer.matches) - 1) :
            /\ answer.matches[k][1] <= answer.matches[k + 1][0]
            /\ answer.matches[k][0] < answer.matches[k + 1][0]
=============================================================================
