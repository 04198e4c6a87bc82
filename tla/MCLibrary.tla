----------------------------- MODULE MCLibrary -----------------------------
(***************************************************************************)
(* The parts of the program that answer one question at a time: the lexer  *)
(* and the parser, regular expressions, bcmath, dates, and values stored as *)
(* text.  A behaviour takes one test, puts its question to the program, and *)
(* ends with the answer; the properties compare the answer with what the   *)
(* language, the theory, arithmetic or the calendar says.                  *)
(***************************************************************************)
EXTENDS Naturals

CONSTANTS StepBudget, DepthCap, RepeatCap,   \* of the regular expressions
          MaxDigits, NewtonRounds,           \* of bcmath
          LargestInt, MaxDepth,              \* of the lexer and the parser
          SerDepth, JsonDepth, ExportDepth   \* of stored values

VARIABLES kind, test,   \* the test
          source,       \* <<the program text>>, once it is written
          answer        \* <<the answer>>, once there is one
vars == <<kind, test, source, answer>>

Rx == INSTANCE RegexTests
Bc == INSTANCE BcMathTests
Lx == INSTANCE LexemeTests
Sx == INSTANCE SyntaxTests
Dt == INSTANCE DateTests
St == INSTANCE StoredTests

Init ==
  /\ \/ kind = "pattern" /\ test \in Rx!MatchTests \cup Rx!RebuildTests
     \/ kind = "decimal" /\ test \in Bc!BcTests
     \/ kind = "lexeme" /\ test \in Lx!LexemeTests
     \/ kind = "program" /\ test \in Sx!SourceTests
     \/ kind = "moment" /\ test \in Dt!DateTests
     \/ kind = "stored" /\ test \in St!StoredTests
     \/ kind = "exported" /\ test \in St!ExportTests
  /\ source = <<>> /\ answer = <<>>

Answer(k, a) == kind = k /\ answer = <<>> /\ answer' = <<a>> /\ UNCHANGED <<kind, test, source>>
Pattern == Answer("pattern", Rx!AnswerTo(test))
Decimal == Answer("decimal", Bc!BcAnswer(test))
Lexeme == Answer("lexeme", Lx!LexemeAnswer(test))
Date == Answer("moment", Dt!DateAnswer(test))
Stored == Answer("stored", St!StoredAnswer(test))
WriteSource(k, text) == kind = k /\ source = <<>> /\ source' = <<text>> /\ UNCHANGED <<kind, test, answer>>
LayOut == WriteSource("program", Sx!LaidOut(test))
Export == WriteSource("exported", [text |-> St!ExportSource(test), lines |-> <<1>>])
Program == source # <<>> /\ Answer(kind, Sx!Parse(source[1].text))

Next == Pattern \/ Decimal \/ Lexeme \/ Date \/ Stored \/ LayOut \/ Export \/ Program
Spec == Init /\ [][Next]_vars

----------------------------------------------------------------------------
Answered(k) == kind = k /\ answer # <<>>

(* preg_match finds the leftmost match, the one the choices in their order  *)
(* come to first, with the captures of its way, for every small pattern and  *)
(* subject: backtracking in rx_match (regex.rs:512) must undo captures and   *)
(* positions exactly, through quantifiers, groups, lookarounds and           *)
(* references.                                                              *)
RegexAsDefined == Answered("pattern") => Rx!AsDefined(test, answer[1])

(* The pieces of preg_split with the matches of preg_match_all between them *)
(* are the subject again, and preg_replace by the whole match changes       *)
(* nothing: the loops over matches must go on where a match ended, and past *)
(* an empty one, in each of the builtins.                                   *)
RegexRebuilds == Answered("pattern") => Rx!Rebuilt(test, answer[1])

(* Every bc function gives the exact result, truncated towards zero to the  *)
(* scale asked for, with no minus sign before a zero (bcmath.rs).           *)
BcIsExact == Answered("decimal") => Bc!BcExact(test, answer[1])

(* A string, number, run of operators, page or interpolated string is read  *)
(* as what it was written from, in every notation, and the line count keeps *)
(* up with the newlines inside of it (lexer.rs:39).                          *)
LexemesReadBack == Answered("lexeme") => Lx!LexemeReadBack(test, answer[1])

(* A program written from its syntax with the fewest parentheses PHP's      *)
(* table of precedence allows is read as that syntax, each statement on its *)
(* line, whatever the layout, the style of its bodies, or the sugar; too     *)
(* deep a one is refused, a long one is not (parser.rs:1308).                *)
SourceReadsBack == Answered("program") => Sx!ReadBack(test, source[1], answer[1])

(* Days, dates and weeks follow each other as in the calendar, and a clock   *)
(* time is found in the zone where its clocks show it, however the moment is *)
(* given: by fields, by a text in one of the formats that date() writes, or  *)
(* by its distance from another; across the ends of months, leap days and    *)
(* the hours that summer time skips or repeats (datetime.rs:13, tz.rs:230).   *)
DatesAreCivil == Answered("moment") => Dt!DateIsRight(test, answer[1])

(* A stored value comes back: unserialize gives the value, with objects of   *)
(* classes that are unknown or not allowed incomplete, and calls the methods *)
(* of the others once each, inner objects first; json_decode gives what a    *)
(* JSON text says, in any notation, and nothing of one that is cut; the text *)
(* of var_export is a literal of the value; too deep a value is refused      *)
(* whole (eval.rs:2236, 15497, 15622, 15705, 15020).                          *)
StoredReadsBack ==
  /\ Answered("stored") => St!StoredIsRight(test, answer[1])
  /\ Answered("exported") => St!Exact(test, answer[1])
============================================================================
