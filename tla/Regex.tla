------------------------------- MODULE Regex -------------------------------
(***************************************************************************)
(* The pattern engine of regex.rs: the parser of pattern texts, the        *)
(* program it is compiled to, the backtracking machine that runs it, and   *)
(* the preg_ functions on top.  Positions count from 1, and a capture      *)
(* slot that is not set holds Unset.                                       *)
(***************************************************************************)
EXTENDS CharText

CONSTANTS StepBudget,     \* RX_STEP_BUDGET, shared by the matches of one call
          DepthCap,       \* RX_DEPTH_CAP, on nested calls of the machine
          RepeatCap       \* largest count in braces

Unset == 0
NoMax == -1
NoRe == <<"none">>
Empty == <<"empty">>
Presets == {"d", "D", "w", "W", "s", "S"}

----------------------------------------------------------------------------
(* Parsing.  p holds the pattern c, the next position i, the groups seen    *)
(* so far with their names, and whether blanks are skipped; a reader        *)
(* returns what it read and p after it. *)

Peek(p) == CharAt(p.c, p.i)
PeekAt(p, k) == CharAt(p.c, p.i + k)
Skip(p, k) == [p EXCEPT !.i = @ + k]
SkipTo(p, i) == [p EXCEPT !.i = i]

RECURSIVE SkipBlank(_)
SkipBlank(p) ==
  IF p.extended /\ Peek(p) \in Blanks \cup {VTab} THEN SkipBlank(Skip(p, 1))
  ELSE IF p.extended /\ Peek(p) = "#" THEN SkipBlank(SkipTo(p, Until(p.c, p.i, {"\n"})))
  ELSE p

\* \n, \t and the like; any other character stands for itself.
Control(e) ==
  CASE e = "n" -> "\n" [] e = "t" -> "\t" [] e = "r" -> "\r" [] e = "f" -> "\f"
    [] e = "v" -> VTab [] e = "0" -> Nul [] OTHER -> e

HexEnd(p) ==
  IF PeekAt(p, 0) \notin HexDigits THEN p.i
  ELSE IF PeekAt(p, 1) \notin HexDigits THEN p.i + 1 ELSE p.i + 2
HexChar(p, first, last) == CharOf[HexValue(SubSeq(p.c, first, last))]
TwoHex(p) == <<HexChar(p, p.i, HexEnd(p) - 1), SkipTo(p, HexEnd(p))>>
BracedHex(p) ==
  LET close == Until(p.c, p.i, {"}"})
  IN <<HexChar(p, p.i + 1, close - 1), SkipTo(p, close + 1)>>

ClassEscape(e, p) ==
  CASE e # "x" -> <<Control(e), p>>
    [] e = "x" /\ Peek(p) = "{" -> BracedHex(p)
    [] OTHER -> TwoHex(p)
ClassChar(p) ==
  IF Peek(p) = "\\" THEN ClassEscape(PeekAt(p, 1), Skip(p, 2)) ELSE <<Peek(p), Skip(p, 1)>>

\* One character lo of a class, which a dash and another one make a range.
ClassItem(lo) ==
  IF Peek(lo[2]) = "-" /\ PeekAt(lo[2], 1) \notin {NoChar, "]"}
  THEN LET hi == ClassChar(Skip(lo[2], 1)) IN <<<<"range", lo[1], hi[1]>>, hi[2]>>
  ELSE <<<<"ch", lo[1]>>, lo[2]>>

RECURSIVE ClassItems(_, _, _)
AddItem(neg, items, item) == ClassItems(neg, Append(items, item[1]), item[2])
ClassItems(neg, items, p) ==
  CASE Peek(p) \in {NoChar, "]"} -> <<<<"class", neg, items>>, Skip(p, 1)>>
    [] Peek(p) = "\\" /\ PeekAt(p, 1) = NoChar -> <<<<"class", neg, items>>, Skip(p, 1)>>
    [] Peek(p) = "\\" /\ PeekAt(p, 1) \in Presets ->
         AddItem(neg, items, <<<<"pre", PeekAt(p, 1)>>, Skip(p, 2)>>)
    [] OTHER -> AddItem(neg, items, ClassItem(ClassChar(p)))
ClassBody(neg, p) ==
  IF Peek(p) = "]" THEN ClassItems(neg, <<<<"ch", "]">>>>, Skip(p, 1)) ELSE ClassItems(neg, <<>>, p)
ReadClass(p) == IF Peek(p) = "^" THEN ClassBody(TRUE, Skip(p, 1)) ELSE ClassBody(FALSE, p)

Preset(e) == <<"class", FALSE, <<<<"pre", e>>>>>>
BackrefAt(p) ==
  LET end == SpanEnd(p.c, p.i, Digits)
  IN <<<<"backref", NumberOf(SubSeq(p.c, p.i, end - 1))>>, SkipTo(p, end)>>
AsChar(r) == <<<<"char", r[1]>>, r[2]>>
ReadEscape(p) ==
  LET e == Peek(p) IN
  CASE e = NoChar -> <<NoRe, p>>
    [] e \in Presets -> <<Preset(e), Skip(p, 1)>>
    [] e \in {"b", "B"} -> <<<<"wordb", e = "b">>, Skip(p, 1)>>
    [] e = "A" -> <<<<"start">>, Skip(p, 1)>>
    [] e \in {"z", "Z"} -> <<<<"end">>, Skip(p, 1)>>
    [] e \in Digits \ {"0"} -> BackrefAt(p)
    [] e = "x" -> AsChar(TwoHex(Skip(p, 1)))
    [] OTHER -> AsChar(<<Control(e), Skip(p, 1)>>)

\* What follows an opening parenthesis: the group's kind, its name, and p.
Named(p, close) ==
  LET end == Until(p.c, p.i, {close})
  IN <<"capture", SubSeq(p.c, p.i, end - 1), SkipTo(p, IF end <= Len(p.c) THEN end + 1 ELSE end)>>
GroupHead(p) ==
  LET e == PeekAt(p, 1) IN
  CASE Peek(p) # "?" -> <<"capture", <<>>, p>>
    [] e = ":" -> <<"plain", <<>>, Skip(p, 2)>>
    [] e = "=" -> <<"ahead", <<>>, Skip(p, 2)>>
    [] e = "!" -> <<"notahead", <<>>, Skip(p, 2)>>
    [] e = "P" -> IF PeekAt(p, 2) = "<" THEN Named(Skip(p, 3), ">") ELSE <<"capture", <<>>, Skip(p, 2)>>
    [] e = "<" -> IF PeekAt(p, 2) \in {"=", "!"} THEN <<"behind", <<>>, Skip(p, 3)>>
                  ELSE Named(Skip(p, 2), ">")
    [] e = "'" -> Named(Skip(p, 2), "'")
    [] OTHER -> <<"plain", <<>>, Skip(p, 1)>>

RECURSIVE ReadAlt(_)
\* The index of a group is taken before what is inside it is read; a
\* lookbehind is read and dropped.
Opened(h) ==
  IF h[1] # "capture" THEN h[3]
  ELSE [h[3] EXCEPT !.groups = @ + 1,
                    !.names = IF h[2] = <<>> THEN @ ELSE Append(@, <<h[2], h[3].groups + 1>>)]
GroupNode(kind, index, inner) ==
  CASE kind = "behind" -> Empty
    [] kind = "ahead" -> <<"look", FALSE, inner>>
    [] kind = "notahead" -> <<"look", TRUE, inner>>
    [] kind = "plain" -> <<"group", 0, inner>>
    [] kind = "capture" -> <<"group", index, inner>>
Closed(kind, index, r) ==
  <<GroupNode(kind, index, r[1]), IF Peek(r[2]) = ")" THEN Skip(r[2], 1) ELSE r[2]>>
Grouped(h, p) == Closed(h[1], p.groups, ReadAlt(p))
Headed(h) == Grouped(h, Opened(h))
ReadGroup(p) == Headed(GroupHead(p))

ReadAtom(p) ==
  CASE Peek(p) = "(" -> ReadGroup(Skip(p, 1))
    [] Peek(p) = "[" -> ReadClass(Skip(p, 1))
    [] Peek(p) = "." -> <<<<"any">>, Skip(p, 1)>>
    [] Peek(p) = "^" -> <<<<"start">>, Skip(p, 1)>>
    [] Peek(p) = "$" -> <<<<"end">>, Skip(p, 1)>>
    [] Peek(p) = "\\" -> ReadEscape(Skip(p, 1))
    [] OTHER -> <<<<"char", Peek(p)>>, Skip(p, 1)>>

\* A possessive quantifier is read as a greedy one.
Greedy(head, p) ==
  CASE Peek(p) = "?" -> <<Append(head, FALSE), Skip(p, 1)>>
    [] Peek(p) = "+" -> <<Append(head, TRUE), Skip(p, 1)>>
    [] OTHER -> <<Append(head, TRUE), p>>

AtMost(n, m) == IF n <= m THEN n ELSE m
AtLeast(n, m) == IF n >= m THEN n ELSE m
Counts(min, max) ==
  <<AtMost(min, RepeatCap),
    IF max = NoMax THEN NoMax ELSE AtLeast(AtMost(max, AtLeast(min, RepeatCap)), min)>>
\* {n}, {n,}, {n,m} or {,m}, whose digits end at a and b; any other text
\* after the brace is no quantifier.
BraceOf(atom, p, a, b) ==
  LET min == NumberOf(SubSeq(p.c, p.i + 1, a - 1))
      max == CASE a = b -> min [] b = a + 1 -> NoMax
               [] OTHER -> NumberOf(SubSeq(p.c, a + 1, b - 1))
  IN IF CharAt(p.c, b) = "}" /\ ~(a = b /\ a = p.i + 1)
     THEN Greedy(<<"repeat", atom>> \o Counts(min, max), SkipTo(p, b + 1))
     ELSE <<atom, p>>
Brace(atom, p, a) ==
  BraceOf(atom, p, a, IF CharAt(p.c, a) = "," THEN SpanEnd(p.c, a + 1, Digits) ELSE a)

Suffix(atom, p) ==
  CASE Peek(p) = "*" -> Greedy(<<"star", atom>>, Skip(p, 1))
    [] Peek(p) = "+" -> Greedy(<<"plus", atom>>, Skip(p, 1))
    [] Peek(p) = "?" -> Greedy(<<"quest", atom>>, Skip(p, 1))
    [] Peek(p) = "{" -> Brace(atom, p, SpanEnd(p.c, p.i + 1, Digits))
    [] OTHER -> <<atom, p>>
Quantified(r) == IF r[1] = NoRe THEN r ELSE Suffix(r[1], SkipBlank(r[2]))

RECURSIVE ReadItems(_, _)
MoreItems(items, r) ==
  IF r[1] = NoRe THEN <<items, r[2]>> ELSE ReadItems(Append(items, r[1]), SkipBlank(r[2]))
ReadItems(items, p) ==
  IF Peek(p) \in {NoChar, "|", ")"} THEN <<items, p>>
  ELSE MoreItems(items, Quantified(ReadAtom(p)))
AsConcat(r) ==
  <<CASE Len(r[1]) = 0 -> Empty [] Len(r[1]) = 1 -> r[1][1] [] OTHER -> <<"concat", r[1]>>, r[2]>>
ReadConcat(p) == AsConcat(ReadItems(<<>>, SkipBlank(p)))

RECURSIVE AltRest(_)
AltOf(left, r) == <<<<"alt", left, r[1]>>, r[2]>>
AltRest(r) ==
  IF Peek(r[2]) = "|" THEN AltRest(AltOf(r[1], ReadConcat(Skip(r[2], 1)))) ELSE r
ReadAlt(p) == AltRest(ReadConcat(p))

----------------------------------------------------------------------------
(* Programs. *)

Save(n) == <<"save", n>>
Match == <<"match">>
Hole == <<"hole">>
Branch(greedy, on, out) == IF greedy THEN <<"split", on, out>> ELSE <<"split", out, on>>

Looped(prog, body, greedy) ==
  [Append(body, <<"jmp", Len(prog) + 1>>) EXCEPT
     ![Len(prog) + 1] = Branch(greedy, Len(prog) + 2, Len(body) + 2)]
Optional(prog, body, greedy) ==
  [body EXCEPT ![Len(prog) + 1] = Branch(greedy, Len(prog) + 2, Len(body) + 1)]
Again(prog, body, greedy) == Append(body, Branch(greedy, Len(prog) + 1, Len(body) + 2))
Forked(prog, a, b) ==
  [b EXCEPT ![Len(prog) + 1] = <<"split", Len(prog) + 2, Len(a) + 2>>,
            ![Len(a) + 1] = <<"jmp", Len(b) + 1>>]

RECURSIVE Emit(_, _)
Times(n, re, prog) == FoldLeft(LAMBDA acc, k : Emit(re, acc), prog, [k \in 1..n |-> k])
EmitAlt(re, prog, a) == Forked(prog, a, Emit(re[3], Append(a, Hole)))
Repeated(re, prog) ==
  IF re[4] = NoMax THEN Emit(<<"star", re[2], re[5]>>, prog)
  ELSE Times(re[4] - re[3], <<"quest", re[2], re[5]>>, prog)
Emit(re, prog) ==
  CASE re[1] = "empty" -> prog
    [] re[1] \in {"char", "any", "class", "start", "end", "wordb", "backref"} -> Append(prog, re)
    [] re[1] = "concat" -> FoldLeft(LAMBDA acc, r : Emit(r, acc), prog, re[2])
    [] re[1] = "group" ->
         IF re[2] = 0 THEN Emit(re[3], prog)
         ELSE Append(Emit(re[3], Append(prog, Save(2 * re[2]))), Save(2 * re[2] + 1))
    [] re[1] = "look" -> Append(prog, <<"look", re[2], Append(Emit(re[3], <<>>), Match)>>)
    [] re[1] = "alt" -> EmitAlt(re, prog, Emit(re[2], Append(prog, Hole)))
    [] re[1] = "star" -> Looped(prog, Emit(re[2], Append(prog, Hole)), re[3])
    [] re[1] = "plus" -> Again(prog, Emit(re[2], prog), re[3])
    [] re[1] = "quest" -> Optional(prog, Emit(re[2], Append(prog, Hole)), re[3])
    [] re[1] = "repeat" -> Repeated(re, Times(re[3], re[2], prog))

----------------------------------------------------------------------------
(* Compiling a pattern with its delimiters and flags. *)

ClosingOf(open) ==
  CASE open = "(" -> ")" [] open = "[" -> "]" [] open = "{" -> "}" [] open = "<" -> ">"
    [] OTHER -> open
StartsAtStart(re) ==
  re = <<"start">> \/ (re[1] = "concat" /\ re[2][1] = <<"start">>)
Compiled(root, p, flags) ==
  [prog |-> Emit(root, <<Save(0)>>) \o <<Save(1), Match>>,
   groups |-> p.groups, names |-> p.names,
   ci |-> "i" \in flags, dotall |-> "s" \in flags, multiline |-> "m" \in flags,
   anchored |-> StartsAtStart(root) /\ "m" \notin flags]
ParsedPattern(c, extended) ==
  ReadAlt([c |-> c, i |-> 1, groups |-> 0, names |-> <<>>, extended |-> extended])
CompileBetween(raw, end) ==
  LET flags == Range(SubSeq(raw, end + 1, Len(raw)))
      read == ParsedPattern(SubSeq(raw, 2, end - 1), "x" \in flags)
  IN Compiled(read[1], read[2], flags)
BadPattern == [prog |-> <<>>]
Delimits(c) == c \notin Letters \cup Digits \cup {"\\", " "}
\* Compile takes the pattern without the blanks around it; the closing
\* delimiter is the last one, escaped or not.
Compile(raw) ==
  LET ends == {i \in 2..Len(raw) : raw[i] = ClosingOf(raw[1])}
  IN IF raw = <<>> \/ ends = {} \/ ~Delimits(raw[1]) THEN BadPattern
     ELSE CompileBetween(raw, CHOOSE i \in ends : \A j \in ends : j <= i)

----------------------------------------------------------------------------
(* The machine.  x is the text with the flags; m is what a run leaves:      *)
(* whether it matched, the slots and the steps taken. *)

SameChar(a, b, ci) == a = b \/ (ci /\ Lower(a) = Lower(b))
Between(lo, c, hi) == Code[lo] <= Code[c] /\ Code[c] <= Code[hi]
InPreset(e, c) ==
  CASE e = "d" -> c \in Digits [] e = "D" -> c \notin Digits
    [] e = "w" -> c \in WordChars [] e = "W" -> c \notin WordChars
    [] e = "s" -> c \in Blanks [] e = "S" -> c \notin Blanks
InItem(item, c, ci) ==
  CASE item[1] = "ch" -> SameChar(c, item[2], ci)
    [] item[1] = "range" -> \/ Between(item[2], c, item[3])
                            \/ ci /\ Between(item[2], Lower(c), item[3])
                            \/ ci /\ Between(item[2], Upper(c), item[3])
    [] item[1] = "pre" -> InPreset(item[2], c)
Takes(x, inst, c) ==
  CASE inst[1] = "char" -> SameChar(c, inst[2], x.ci)
    [] inst[1] = "any" -> x.dotall \/ c # "\n"
    [] inst[1] = "class" -> (\E i \in DOMAIN inst[3] : InItem(inst[3][i], c, x.ci)) # inst[2]

Holds(x, inst, sp) ==
  CASE inst[1] = "start" -> sp = 1 \/ (x.multiline /\ x.text[sp - 1] = "\n")
    [] inst[1] = "end" -> \/ sp > Len(x.text)
                          \/ x.multiline /\ x.text[sp] = "\n"
                          \/ ~x.multiline /\ sp = Len(x.text) /\ x.text[sp] = "\n"
    [] inst[1] = "wordb" ->
         ((CharAt(x.text, sp - 1) \in WordChars) # (CharAt(x.text, sp) \in WordChars)) = inst[2]

\* The length a back reference consumes at sp, or -1: a group that is not
\* set, or that the pattern has not got, is the empty text.
Recalled(x, sp, first, after) ==
  IF first = Unset \/ after = Unset THEN 0
  ELSE IF /\ sp + after - first <= Len(x.text) + 1
          /\ \A k \in 0..(after - first - 1) : SameChar(x.text[sp + k], x.text[first + k], x.ci)
  THEN after - first ELSE -1
BackrefLength(x, n, sp, slots) ==
  IF 2 * n + 1 \in DOMAIN slots THEN Recalled(x, sp, slots[2 * n], slots[2 * n + 1]) ELSE 0

Failed(m) == [m EXCEPT !.ok = FALSE]
WithSlots(m, slots) == [m EXCEPT !.slots = slots]
\* Mutant: the slot keeps what a failed attempt put there.
RestoredNot(m, n, old) == m
\* A slot set on the way to a failure gets its old value back.
Restored(m, n, old) == IF m.ok THEN m ELSE [m EXCEPT !.slots[n] = old]

RECURSIVE Run(_, _, _, _, _, _)
OrElse(x, prog, pc, sp, m, d) == IF m.ok THEN m ELSE Run(x, prog, pc, sp, m, d)
Onward(x, prog, pc, sp, ok, m, d) == IF ok THEN Run(x, prog, pc + 1, sp, m, d) ELSE Failed(m)
AfterLook(x, prog, pc, sp, neg, sub, slots, d) ==
  IF sub.ok = neg THEN Failed(WithSlots(sub, slots))
  ELSE Run(x, prog, pc + 1, sp, IF neg THEN WithSlots(sub, slots) ELSE sub, d)
Step(x, prog, pc, sp, m, d) ==
  LET inst == prog[pc] IN
  CASE inst[1] = "match" -> [m EXCEPT !.ok = TRUE]
    [] inst[1] \in {"char", "any", "class"} ->
         Onward(x, prog, pc, sp + 1, sp <= Len(x.text) /\ Takes(x, inst, x.text[sp]), m, d)
    [] inst[1] \in {"start", "end", "wordb"} -> Onward(x, prog, pc, sp, Holds(x, inst, sp), m, d)
    [] inst[1] = "backref" ->
         LET n == BackrefLength(x, inst[2], sp, m.slots)
         IN Onward(x, prog, pc, sp + n, n # -1, m, d)
    [] inst[1] = "save" ->
         Restored(Run(x, prog, pc + 1, sp, [m EXCEPT !.slots[inst[2]] = sp], d),
                  inst[2], m.slots[inst[2]])
    [] inst[1] = "jmp" -> Run(x, prog, inst[2], sp, m, d)
    [] inst[1] = "split" -> OrElse(x, prog, inst[3], sp, Run(x, prog, inst[2], sp, m, d), d)
    [] inst[1] = "look" ->
         AfterLook(x, prog, pc, sp, inst[2], Run(x, inst[3], 1, sp, m, d), m.slots, d)
Run(x, prog, pc, sp, m, d) ==
  IF m.steps >= StepBudget \/ d > DepthCap THEN Failed([m EXCEPT !.steps = @ + 1])
  ELSE Step(x, prog, pc, sp, [m EXCEPT !.steps = @ + 1], d + 1)

\* The leftmost match from position `from` on.
RECURSIVE ExecFrom(_, _, _, _)
Fresh(rx, steps) == [ok |-> FALSE, slots |-> [n \in 0..(2 * rx.groups + 1) |-> Unset], steps |-> steps]
ExecNext(rx, x, from, m) ==
  IF m.ok \/ rx.anchored \/ from > Len(x.text) \/ m.steps > StepBudget THEN m
  ELSE ExecFrom(rx, x, from + 1, m.steps)
ExecFrom(rx, x, from, steps) ==
  ExecNext(rx, x, from, Run(x, rx.prog, 1, from, Fresh(rx, steps), 0))
Exec(rx, text, from, steps) ==
  ExecFrom(rx, [text |-> text, ci |-> rx.ci, dotall |-> rx.dotall, multiline |-> rx.multiline],
           from, steps)

----------------------------------------------------------------------------
(* preg_match_all, preg_replace, preg_split and preg_quote. *)

GroupText(text, slots, g) ==
  IF slots[2 * g] = Unset \/ slots[2 * g + 1] = Unset THEN <<>>
  ELSE SubSeq(text, slots[2 * g], slots[2 * g + 1] - 1)

\* Mutant: always one character on.
ResumeNot(slots) == slots[1] + 1
\* After a match the next one starts where it ended, or one character on if
\* it was empty.
Resume(slots) == IF slots[1] > slots[0] THEN slots[1] ELSE slots[1] + 1

RECURSIVE AllMatches(_, _, _, _, _)
Gathered(rx, text, sets, m) ==
  IF ~m.ok THEN sets ELSE AllMatches(rx, text, Resume(m.slots), m.steps, Append(sets, m.slots))
AllMatches(rx, text, from, steps, sets) ==
  IF from > Len(text) + 1 THEN sets ELSE Gathered(rx, text, sets, Exec(rx, text, from, steps))

\* One piece of a replacement template: the text it stands for and the
\* position after it.
GroupRef(text, slots, digits) ==
  LET n == NumberOf(digits)
  IN IF 2 * n + 1 \in DOMAIN slots THEN GroupText(text, slots, n) ELSE <<>>
Template(repl, i, text, slots) ==
  LET brace == SpanEnd(repl, i + 2, Digits)
      plain == AtMost(SpanEnd(repl, i + 1, Digits), i + 3)
  IN CASE /\ repl[i] \in {"$", "\\"} /\ CharAt(repl, i + 1) = "{"
          /\ brace > i + 2 /\ CharAt(repl, brace) = "}" ->
            <<GroupRef(text, slots, SubSeq(repl, i + 2, brace - 1)), brace + 1>>
       [] repl[i] \in {"$", "\\"} /\ CharAt(repl, i + 1) \in Digits ->
            <<GroupRef(text, slots, SubSeq(repl, i + 1, plain - 1)), plain>>
       [] repl[i] = "\\" /\ CharAt(repl, i + 1) = "\\" -> <<<<"\\">>, i + 2>>
       [] OTHER -> <<<<repl[i]>>, i + 1>>
RECURSIVE Expand(_, _, _, _)
Expanded(repl, text, slots, piece) == piece[1] \o Expand(repl, piece[2], text, slots)
Expand(repl, i, text, slots) ==
  IF i > Len(repl) THEN <<>> ELSE Expanded(repl, text, slots, Template(repl, i, text, slots))

RECURSIVE ReplaceFrom(_, _, _, _, _, _)
Replaced(rx, repl, text, pos, left, m) ==
  IF ~m.ok THEN SubSeq(text, pos, Len(text))
  ELSE SubSeq(text, pos, m.slots[0] - 1) \o Expand(repl, 1, text, m.slots)
       \o (IF m.slots[1] > m.slots[0] THEN <<>> ELSE SubSeq(text, m.slots[1], AtMost(m.slots[1], Len(text))))
       \o ReplaceFrom(rx, repl, text, Resume(m.slots), left - 1, m.steps)
ReplaceFrom(rx, repl, text, pos, left, steps) ==
  IF pos > Len(text) + 1 \/ left = 0 THEN SubSeq(text, pos, Len(text))
  ELSE Replaced(rx, repl, text, pos, left, Exec(rx, text, pos, steps))
Replace(rx, repl, text, limit) == ReplaceFrom(rx, repl, text, 1, limit, 0)

RECURSIVE SplitFrom(_, _, _, _, _)
CapturedParts(rx, text, slots) ==
  LET set == SelectSeq([g \in 1..rx.groups |-> g], LAMBDA g : slots[2 * g] # Unset)
  IN [k \in DOMAIN set |-> GroupText(text, slots, set[k])]
Parted(rx, text, last, m) ==
  CASE ~m.ok -> <<SubSeq(text, last, Len(text))>>
    [] m.ok /\ m.slots[1] = m.slots[0] /\ m.slots[0] = last ->
         SplitFrom(rx, text, m.slots[0] + 1, last, m.steps)
    [] OTHER -> <<SubSeq(text, last, m.slots[0] - 1)>> \o CapturedParts(rx, text, m.slots)
                \o SplitFrom(rx, text, Resume(m.slots), m.slots[1], m.steps)
SplitFrom(rx, text, pos, last, steps) ==
  IF pos > Len(text) + 1 THEN <<SubSeq(text, last, Len(text))>>
  ELSE Parted(rx, text, last, Exec(rx, text, pos, steps))
\* preg_split with PREG_SPLIT_DELIM_CAPTURE.
Split(rx, text) == SplitFrom(rx, text, 1, 1, 0)

QuotedChars == Range(Chars(".\\+*?[^]$(){}=!<>|:-#"))
Quote(text, delim) ==
  FlattenSeq([i \in DOMAIN text |->
    IF text[i] \in QuotedChars \cup {delim} THEN <<"\\", text[i]>> ELSE <<text[i]>>])
============================================================================
