------------------------------ MODULE TreeWalk ------------------------------
(***************************************************************************)
(* The tree walker (exec and eval of eval.rs) on the bodies of functions   *)
(* and methods that the bytecode compiler accepts: what each statement and *)
(* expression yields and does.  It is the meaning the compiled code must   *)
(* have.                                                                   *)
(*                                                                         *)
(* Syntax is tuples headed by the construct's name.  The state of a frame: *)
(*   vars   the local variables: a value or a reference to a cell          *)
(*   cells  what references name: statics of the function, and globals     *)
(*   this   the properties of $this                                        *)
(*   out    what was printed, warned about or passed to a function         *)
(*   quiet  the nesting of isset, empty and ??, where nothing is warned    *)
(***************************************************************************)
EXTENDS PhpValues, Functions

None == <<"none">>
Ref(c) == <<"ref", c>>
IsRef(v) == IsKind(v, "ref")

With(f, x, v) == [y \in DOMAIN f \cup {x} |-> IF y = x THEN v ELSE f[y]]
Without(f, x) == Restrict(f, DOMAIN f \ {x})

Emit(st, item) == [st EXCEPT !.out = Append(@, item)]
Shown(st, bytes) == IF bytes = <<>> THEN st ELSE Emit(st, <<"echo", bytes>>)
Warn(st, item) == IF st.quiet > 0 THEN st ELSE Emit(st, item)

Holds(st, x) == x \in DOMAIN st.vars
Lookup(st, x) == IF IsRef(st.vars[x]) THEN st.cells[st.vars[x][2]] ELSE st.vars[x]
SetVar(st, x, v) ==
  IF Holds(st, x) /\ IsRef(st.vars[x]) THEN [st EXCEPT !.cells[st.vars[x][2]] = v]
  ELSE [st EXCEPT !.vars = With(@, x, v)]

\* Binds x to the cell c, which first gets the value v if it is new.
Bind(st, x, c, v) ==
  [st EXCEPT !.vars = With(@, x, Ref(c)),
             !.cells = IF c \in DOMAIN @ THEN @ ELSE With(@, c, v)]

RootOf(st, base) ==     \* the container of an index expression, Null if unset
  CASE base[1] = "var" -> IF Holds(st, base[2]) THEN Lookup(st, base[2]) ELSE Null
    [] base[1] = "prop" -> IF base[2] \in DOMAIN st.this THEN st.this[base[2]] ELSE Null
SetRoot(st, base, v) ==
  CASE base[1] = "var" -> SetVar(st, base[2], v)
    [] base[1] = "prop" -> [st EXCEPT !.this = With(@, base[2], v)]

----------------------------------------------------------------------------
(* Expressions.  Eval(e, st) is <<value, state>>; of a statement, it is    *)
(* <<flow, state>>.                                                        *)

RECURSIVE Eval(_, _)

Quietly(e, st) ==
  LET r == Eval(e, [st EXCEPT !.quiet = @ + 1])
  IN <<r[1], [r[2] EXCEPT !.quiet = @ - 1]>>

EvalAll(es, st) ==
  FoldLeft(LAMBDA acc, e : LET r == Eval(e, acc[2]) IN <<Append(acc[1], r[1]), r[2]>>,
           <<<<>>, st>>, es)

ReadVar(x, st) ==
  IF Holds(st, x) THEN <<Lookup(st, x), st>> ELSE <<Null, Warn(st, <<"undefined", x>>)>>

\* [k => v, w]: the value is evaluated before its key.
ArrayLiteral(items, st) ==
  FoldLeft(LAMBDA acc, it :
             LET v == Eval(it[2], acc[2])
                 k == Eval(it[1], v[2])
             IN IF it[1] = None THEN <<ArrPush(acc[1], v[1]), v[2]>>
                ELSE <<ArrInsert(acc[1], NormKey(k[1]), v[1]), k[2]>>,
           <<EmptyArr, st>>, items)

Template(parts, st) ==
  LET r == EvalAll(parts, st)
  IN <<StrVal(FlattenSeq([i \in DOMAIN parts |-> ToBytes(r[1][i])])), r[2]>>

Unary(op, e, st) ==
  LET r == Eval(e, st)
  IN <<CASE op = "!" -> BoolVal(~ToBool(r[1]))
         [] op = "+" -> ToNum(r[1])
         [] op = "-" -> LET n == ToNum(r[1]) IN
                        IF n = IntVal(MinInt) THEN n ELSE <<n[1], -n[2]>>, r[2]>>

Binary(op, l, r, st) ==
  LET a == Eval(l, st)
      b == Eval(r, a[2])
      c == Quietly(l, st)
  IN CASE op = "&&" -> IF ToBool(a[1]) THEN <<BoolVal(ToBool(b[1])), b[2]>>
                       ELSE <<BoolVal(FALSE), a[2]>>
       [] op = "||" -> IF ToBool(a[1]) THEN <<BoolVal(TRUE), a[2]>>
                       ELSE <<BoolVal(ToBool(b[1])), b[2]>>
       [] op = "??" -> IF c[1] = Null THEN Eval(r, c[2]) ELSE c
       [] OTHER -> <<ApplyBin(op, a[1], b[1]), b[2]>>

Conditional(c, mid, els, st) ==
  LET r == Eval(c, st)
  IN IF ~ToBool(r[1]) THEN Eval(els, r[2])
     ELSE IF mid = None THEN r ELSE Eval(mid, r[2])

\* The keys of $root[k1]...[kn], evaluated from the last to the first.
RECURSIVE PathKeys(_, _)
PathKeys(e, st) ==
  IF e[1] # "index" THEN <<<<>>, st, e>>
  ELSE LET k == Eval(e[3], st)
           inner == PathKeys(e[2], k[2])
       IN <<Append(inner[1], NormKey(k[1])), inner[2], inner[3]>>

\* read_index: a key that is missing is warned about, except through a
\* reference or a property.
CharOf(s, i) == IF i \in 0..(Len(s) - 1) THEN CharAt(s, i) ELSE Null
Lacks(v, k) == IsArr(v) /\ ~HasKey(v, k)
MissingKeys(v, path) ==
  {i \in DOMAIN path : Lacks(ReadPath(v, SubSeq(path, 1, i - 1)), path[i])}
ReadWarning(path, missing, root, st) ==
  CASE root[1] = "prop" -> st
    [] root[1] = "var" /\ ~Holds(st, root[2]) -> Warn(st, <<"undefined", root[2]>>)
    [] root[1] = "var" /\ Holds(st, root[2]) ->
         IF IsRef(st.vars[root[2]]) \/ missing = {} THEN st
         ELSE Warn(st, <<"nokey", path[CHOOSE i \in missing : TRUE]>>)
ReadAt(v, path, root, st) ==
  <<IF root[1] = "prop" /\ Len(path) = 1 /\ IsKind(v, "str") THEN CharOf(v[2], ToInt(path[1]))
    ELSE ReadPath(v, path),
    ReadWarning(path, MissingKeys(v, path), root, st)>>
ReadKeys(keys) == ReadAt(RootOf(keys[2], keys[3]), keys[1], keys[3], keys[2])
ReadIndex(e, st) == ReadKeys(PathKeys(e, st))

\* assign_index: the inner containers are read and written back one by one,
\* so the keys of the inner levels are evaluated again.
RECURSIVE AssignIndex(_, _, _, _)
AssignIndex(base, key, v, st) ==
  LET stored(a) == IF key = None THEN ArrPush(a, v) ELSE ArrInsert(a, key, v)
      asArr(c) == IF IsArr(c) THEN c ELSE EmptyArr
  IN IF base[1] # "index" THEN SetRoot(st, base, stored(asArr(RootOf(st, base))))
     ELSE LET k == Eval(base[3], st)
              cur == Quietly(base, k[2])
          IN AssignIndex(base[2], NormKey(k[1]), stored(asArr(cur[1])), cur[2])

AssignTo(target, v, st) ==
  CASE target[1] \in {"var", "prop"} -> SetRoot(st, target, v)
    [] target[1] = "index" ->
         LET k == Eval(target[3], st)
         IN IF target[3] = None THEN AssignIndex(target[2], None, v, st)
            ELSE AssignIndex(target[2], NormKey(k[1]), v, k[2])

Assign(lhs, rhs, st) ==
  LET r == Eval(rhs, st) IN <<r[1], AssignTo(lhs, r[1], r[2])>>

\* .= on a plain variable appends in place and never warns.
AppendTo(x, r) ==
  LET whole == StrVal(ToBytes(RootOf(r[2], <<"var", x>>)) \o ToBytes(r[1]))
  IN <<whole, SetVar(r[2], x, whole)>>
StoreResult(lhs, v, st) == <<v, AssignTo(lhs, v, st)>>
Operated(op, lhs, left, right) == StoreResult(lhs, ApplyBin(op, left, right[1]), right[2])
AssignOpFrom(op, lhs, cur, rhs) == Operated(op, lhs, cur[1], Eval(rhs, cur[2]))
AssignOp(op, lhs, rhs, st) ==
  IF op = "." /\ lhs[1] = "var" THEN AppendTo(lhs[2], Eval(rhs, st))
  ELSE AssignOpFrom(op, lhs, Eval(lhs, st), rhs)

IncDec(prefix, by, e, st) ==
  LET old == Eval(e, st)
      new == Inc(old[1], by)
  IN <<IF prefix THEN new ELSE old[1], AssignTo(e, new, old[2])>>

Isset(items, st) ==
  FoldLeft(LAMBDA acc, e : IF ~acc[1][2] THEN acc
                           ELSE LET r == Quietly(e, acc[2]) IN <<BoolVal(r[1] # Null), r[2]>>,
           <<BoolVal(TRUE), st>>, items)

\* A call of a function outside the model: it notes its arguments and
\* returns the first one.
Called(args, st) ==
  LET r == EvalAll(args, st) IN <<r[1][1], Emit(r[2], <<"call", r[1]>>)>>

----------------------------------------------------------------------------
(* Statements. *)

Normal == <<"normal">>
Unwound(n) == IF n > 1 THEN <<"break", n - 1>> ELSE Normal

\* Whether a loop stops after a body that ended with this flow, and how.
Stops(flow) == flow[1] \in {"break", "return"} \/ (flow[1] = "continue" /\ flow[2] > 1)
LoopFlow(flow) ==
  CASE flow[1] = "break" -> Unwound(flow[2])
    [] flow[1] = "continue" -> <<"continue", flow[2] - 1>>
    [] OTHER -> flow

ExecBlock(stmts, st) ==
  FoldLeft(LAMBDA acc, s : IF acc[1] = Normal THEN Eval(s, acc[2]) ELSE acc, <<Normal, st>>, stmts)

\* All three counting loops: test the condition (not before the first round
\* of do-while), run the body, then the step.
RECURSIVE Loop(_, _, _, _, _)
AfterRound(cond, body, step, r) ==
  IF Stops(r[1]) THEN <<LoopFlow(r[1]), r[2]>>
  ELSE Loop(TRUE, cond, body, step, EvalAll(step, r[2])[2])
Round(cond, body, step, conds) ==
  IF cond # <<>> /\ ~ToBool(Last(conds[1])) THEN <<Normal, conds[2]>>
  ELSE AfterRound(cond, body, step, ExecBlock(body, conds[2]))
Loop(test, cond, body, step, st) ==
  IF test THEN Round(cond, body, step, EvalAll(cond, st))
  ELSE AfterRound(cond, body, step, ExecBlock(body, st))

\* [init, tested first, conditions, step, body]
LoopParts(s) ==
  CASE s[1] = "while" -> <<<<>>, TRUE, <<s[2]>>, <<>>, s[3]>>
    [] s[1] = "dowhile" -> <<<<>>, FALSE, <<s[3]>>, <<>>, s[2]>>
    [] s[1] = "for" -> <<s[2], TRUE, s[3], s[4], s[5]>>
LoopStmt(p, st) == Loop(p[2], p[3], p[5], p[4], EvalAll(p[1], st)[2])

\* foreach by value: over the entries the array has at the start.
RoundFlow(r) == IF Stops(r[1]) THEN <<LoopFlow(r[1]), r[2], TRUE>> ELSE <<Normal, r[2], FALSE>>
ForEachOf(a, key, value, body) ==
  LET keyed(en, st) == IF key = None THEN st ELSE AssignTo(key, en[1], st)
      round(acc, en) ==
        IF acc[3] THEN acc
        ELSE RoundFlow(ExecBlock(body, AssignTo(value, en[2], keyed(en, acc[2]))))
  IN IF ~IsArr(a[1]) THEN <<Normal, Warn(a[2], <<"notarray">>)>>
     ELSE SubSeq(FoldLeft(round, <<Normal, a[2], FALSE>>, a[1][2]), 1, 2)
ForEach(array, key, value, body, st) == ForEachOf(Eval(array, st), key, value, body)

If(arms, els, st) ==
  LET RECURSIVE Arm(_, _)
      Arm(i, s) == IF i > Len(arms) THEN ExecBlock(els, s)
                   ELSE LET r == Eval(arms[i][1], s)
                        IN IF ToBool(r[1]) THEN ExecBlock(arms[i][2], r[2]) ELSE Arm(i + 1, r[2])
  IN Arm(1, st)

\* switch: the first case that matches, a default where it stands, and every
\* body from there on.
SwitchFrom(subject, cases, st) ==
  LET RECURSIVE Case(_, _, _)
      after(i, r) ==
        IF r[1] = Normal THEN Case(i + 1, TRUE, r[2])
        ELSE IF r[1] = <<"continue", 1>> THEN <<Normal, r[2]>>
        ELSE <<LoopFlow(r[1]), r[2]>>
      tested(i, t) == IF LooseEq(subject, t[1]) THEN after(i, ExecBlock(cases[i][2], t[2]))
                      ELSE Case(i + 1, FALSE, t[2])
      Case(i, matched, s) ==
        IF i > Len(cases) THEN <<Normal, s>>
        ELSE IF matched \/ cases[i][1] = None THEN after(i, ExecBlock(cases[i][2], s))
        ELSE tested(i, Eval(cases[i][1], s))
  IN Case(1, FALSE, st)
SwitchOn(subject, cases) == SwitchFrom(subject[1], cases, subject[2])
Switch(subject, cases, st) == SwitchOn(Eval(subject, st), cases)

Unset(target, st) ==
  CASE target[1] = "var" -> [st EXCEPT !.vars = Without(@, target[2])]
    [] target[1] = "prop" -> [st EXCEPT !.this = Without(@, target[2])]
    [] target[1] = "index" ->
         LET k == Eval(target[3], st)
             v == RootOf(k[2], target[2])
         IN IF IsArr(v) THEN SetRoot(k[2], target[2], ArrRemove(v, NormKey(k[1]))) ELSE k[2]

Static(x, init, st) ==
  LET r == Eval(init, st)
  IN IF <<"static", x>> \in DOMAIN st.cells THEN Bind(st, x, <<"static", x>>, Null)
     ELSE Bind(r[2], x, <<"static", x>>, r[1])

Exec(s, st) ==
  CASE s[1] = "line" -> Eval(s[2], st)
    [] s[1] = "block" -> ExecBlock(s[2], st)
    [] s[1] = "echo" -> <<Normal, FoldLeft(LAMBDA acc, e : LET r == Eval(e, acc)
                                                           IN Shown(r[2], ToBytes(r[1])), st, s[2])>>
    [] s[1] = "expr" -> <<Normal, Eval(s[2], st)[2]>>
    [] s[1] = "return" -> LET r == Eval(s[2], st) IN <<<<"return", r[1]>>, r[2]>>
    [] s[1] = "if" -> If(s[2], s[3], st)
    [] s[1] \in {"while", "dowhile", "for"} -> LoopStmt(LoopParts(s), st)
    [] s[1] = "foreach" -> ForEach(s[2], s[3], s[4], s[5], st)
    [] s[1] = "switch" -> Switch(s[2], s[3], st)
    [] s[1] \in {"break", "continue"} -> <<s, st>>
    [] s[1] = "unset" -> <<Normal, FoldLeft(LAMBDA acc, e : Unset(e, acc), st, s[2])>>
    [] s[1] = "static" -> <<Normal, Static(s[2], s[3], st)>>
    [] s[1] = "global" -> <<Normal, Bind(st, s[2], <<"global", s[2]>>, Null)>>

Eval(e, st) ==
  CASE e[1] = "none" -> <<Null, st>>
    [] e[1] = "lit" -> <<e[2], st>>
    [] e[1] = "var" -> ReadVar(e[2], st)
    [] e[1] = "prop" -> <<RootOf(st, e), st>>
    [] e[1] = "array" -> ArrayLiteral(e[2], st)
    [] e[1] = "template" -> Template(e[2], st)
    [] e[1] = "unary" -> Unary(e[2], e[3], st)
    [] e[1] = "binary" -> Binary(e[2], e[3], e[4], st)
    [] e[1] = "cond" -> Conditional(e[2], e[3], e[4], st)
    [] e[1] = "index" -> ReadIndex(e, st)
    [] e[1] = "assign" -> Assign(e[2], e[3], st)
    [] e[1] = "assignop" -> AssignOp(e[2], e[3], e[4], st)
    [] e[1] = "incdec" -> IncDec(e[2], e[3], e[4], st)
    [] e[1] = "isset" -> Isset(e[2], st)
    [] e[1] = "empty" -> LET r == Quietly(e[2], st) IN <<BoolVal(~ToBool(r[1])), r[2]>>
    [] e[1] = "cast" -> LET r == Eval(e[3], st) IN <<Cast(e[2], r[1]), r[2]>>
    [] e[1] = "call" -> Called(e[2], st)
    [] OTHER -> Exec(e, st)

----------------------------------------------------------------------------
\* A call of the function: fresh local variables, the rest as it was left.
Finished(r) == <<IF r[1][1] = "return" THEN r[1][2] ELSE Null, r[2]>>
RunBody(body, st) == Finished(ExecBlock(body, [st EXCEPT !.vars = <<>>]))
============================================================================
