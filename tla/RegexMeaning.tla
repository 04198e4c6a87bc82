---------------------------- MODULE RegexMeaning ----------------------------
(***************************************************************************)
(* What a pattern means, said without a program or a machine: the ends a   *)
(* pattern reaches from a position, best first, each with the groups set   *)
(* on the way.  And how a pattern is written down.                         *)
(***************************************************************************)
EXTENDS Regex

\* The ends reached from each of a sequence of ends, in order.
FlatMap(Reach(_), ends) == FlattenSeq([k \in DOMAIN ends |-> Reach(ends[k])])

RECURSIVE Ends(_, _, _)
OneChar(x, re, o) ==
  IF o.at <= Len(x.text) /\ Takes(x, re, x.text[o.at]) THEN <<[o EXCEPT !.at = @ + 1]>> ELSE <<>>
Kept(o, ok) == IF ok THEN <<o>> ELSE <<>>
Prefer(greedy, more, stop) == IF greedy THEN more \o stop ELSE stop \o more
\* One more round of a loop; a round that consumes nothing is the last.
Round(x, re, o) ==
  FlatMap(LAMBDA p : IF p.at = o.at THEN <<p>> ELSE Ends(x, re, p), Ends(x, re[2], o))
Ends(x, re, o) ==
  CASE re[1] = "empty" -> <<o>>
    [] re[1] \in {"char", "any", "class"} -> OneChar(x, re, o)
    [] re[1] \in {"start", "end", "wordb"} -> Kept(o, Holds(x, re, o.at))
    [] re[1] = "backref" ->
         LET n == BackrefLength(x, re[2], o.at, o.slots) IN Kept([o EXCEPT !.at = @ + n], n # -1)
    [] re[1] = "concat" ->
         FoldLeft(LAMBDA ends, r : FlatMap(LAMBDA p : Ends(x, r, p), ends), <<o>>, re[2])
    [] re[1] = "alt" -> Ends(x, re[2], o) \o Ends(x, re[3], o)
    [] re[1] = "group" ->
         IF re[2] = 0 THEN Ends(x, re[3], o)
         ELSE LET inside == Ends(x, re[3], o)
              IN [k \in DOMAIN inside |->
                    [inside[k] EXCEPT !.slots[2 * re[2]] = o.at,
                                      !.slots[2 * re[2] + 1] = inside[k].at]]
    [] re[1] = "look" ->
         LET inside == Ends(x, re[3], o)
         IN IF re[2] THEN Kept(o, inside = <<>>)
            ELSE IF inside = <<>> THEN <<>> ELSE <<[inside[1] EXCEPT !.at = o.at]>>
    [] re[1] = "star" -> Prefer(re[3], Round(x, re, o), <<o>>)
    [] re[1] = "plus" ->
         FlatMap(LAMBDA p : Ends(x, <<"star", re[2], re[3]>>, p), Ends(x, re[2], o))
    [] re[1] = "quest" -> Prefer(re[3], Ends(x, re[2], o), <<o>>)
    [] re[1] = "repeat" ->
         LET rest == IF re[4] = NoMax THEN <<<<"star", re[2], re[5]>>>>
                     ELSE [k \in 1..(re[4] - re[3]) |-> <<"quest", re[2], re[5]>>]
         IN Ends(x, <<"concat", [k \in 1..re[3] |-> re[2]] \o rest>>, o)

\* The slots of the leftmost, preferred match, from the ends reached from
\* every position; all Unset if there is none.
Leftmost(ends, slots) ==
  LET i == SelectInSeq(ends, LAMBDA e : e # <<>>)
  IN IF i = 0 THEN slots ELSE [ends[i][1].slots EXCEPT ![0] = i, ![1] = ends[i][1].at]
Found(x, re, slots) ==
  Leftmost([i \in 1..(Len(x.text) + 1) |-> Ends(x, re, [at |-> i, slots |-> slots])], slots)

----------------------------------------------------------------------------
(* Writing a pattern down; gap is what the x flag lets stand between the   *)
(* items, and before a quantifier. *)

Decimal(n) == Chars(ToString(n))
ItemText(item) ==
  CASE item[1] = "ch" -> IF item[2] \in {"]", "\\", "-", "^"} THEN <<"\\", item[2]>> ELSE <<item[2]>>
    [] item[1] = "range" -> <<item[2], "-", item[3]>>
    [] item[1] = "pre" -> <<"\\", item[2]>>
QuantText(re) ==
  CASE re[1] = "star" -> <<"*">> [] re[1] = "plus" -> <<"+">> [] re[1] = "quest" -> <<"?">>
    [] re[1] = "repeat" ->
         <<"{">> \o Decimal(re[3])
         \o (CASE re[4] = re[3] -> <<>> [] re[4] = NoMax -> <<",">>
               [] OTHER -> <<",">> \o Decimal(re[4])) \o <<"}">>

RECURSIVE Written(_, _)
Written(re, gap) ==
  CASE re[1] = "empty" -> <<>>
    [] re[1] = "char" -> Quote(<<re[2]>>, "/")
    [] re[1] = "any" -> <<".">>
    [] re[1] = "start" -> <<"^">>
    [] re[1] = "end" -> <<"$">>
    [] re[1] = "wordb" -> <<"\\", IF re[2] THEN "b" ELSE "B">>
    [] re[1] = "backref" -> <<"\\">> \o Decimal(re[2])
    [] re[1] = "class" ->
         (IF re[2] THEN <<"[", "^">> ELSE <<"[">>)
         \o FlattenSeq([k \in DOMAIN re[3] |-> ItemText(re[3][k])]) \o <<"]">>
    [] re[1] = "concat" -> FlattenSeq([k \in DOMAIN re[2] |-> gap \o Written(re[2][k], gap)])
    [] re[1] = "alt" -> Written(re[2], gap) \o <<"|">> \o Written(re[3], gap)
    [] re[1] = "group" ->
         (IF re[2] = 0 THEN <<"(", "?", ":">> ELSE <<"(">>) \o Written(re[3], gap) \o <<")">>
    [] re[1] = "look" ->
         <<"(", "?", IF re[2] THEN "!" ELSE "=">> \o Written(re[3], gap) \o <<")">>
    [] OTHER -> Written(re[2], gap) \o gap \o QuantText(re)
                \o (IF re[Len(re)] THEN <<>> ELSE <<"?">>)
=============================================================================
