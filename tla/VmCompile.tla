----------------------------- MODULE VmCompile -----------------------------
(***************************************************************************)
(* The bytecode compiler of vm.rs, for the bodies of functions and         *)
(* methods.  The code of a construct is a sequence of operations; jumps    *)
(* are relative, so code can be put together from its parts, where the     *)
(* compiler patches absolute targets.  `break` and `continue` leave a      *)
(* placeholder that the enclosing loop turns into a jump.  What the        *)
(* compiler refuses becomes a Bail operation: a chunk exists only if the   *)
(* code has none.  A slot has the name of its variable.                    *)
(*   The compiler descends into the parts of a construct.  Here the one for *)
(* constructs of depth n is made from the one for depth n - 1, which every *)
(* operator below has as its first parameter, c.                           *)
(***************************************************************************)
EXTENDS PhpValues

CONSTANTS Syntax,    \* the expressions and statements of the bodies, parts included
          Depth      \* bound: what lies deeper in a body is refused

NoExpr == <<"none">>      \* stands where a part is left out
Node == Syntax \ {NoExpr}
Bail == <<<<"Bail">>>>
Op1(name, x) == <<<<name, x>>>>
Push(v) == Op1("Const", v)

\* A jump over the code, taken as the operation says.
Guard(jump, code) == Op1(jump, Len(code)) \o code
\* A test before the rest, with a jump so far behind the end of the rest.
Tested(test, jump, beyond, rest) == test \o Op1(jump, Len(rest) + beyond) \o rest
JmpBack(code) == code \o Op1("Jmp", -(Len(code) + 1))

\* finish_loop and patch_jump: where this loop's breaks and continues go,
\* counted from the start of its code.
FinishLoop(code, breakTo, continueTo) ==
  [i \in DOMAIN code |->
     CASE code[i] = <<"Break">> -> <<"Jmp", breakTo - i>>
       [] code[i] = <<"Continue">> -> <<"Jmp", continueTo - i>>
       [] OTHER -> code[i]]

\* Slots for the subjects of nested switch statements; deeper nesting is refused.
SwitchSlot == <<"switch1", "switch2", "switch3">>

\* Where a statement is: the kind of the innermost loop, and how many iterators
\* and switch statements are around it.
Place == [loop : {"none", "loop", "foreach", "switch"}, iters : Nat, switches : 0..Len(SwitchSlot)]
OutsideLoops == [loop |-> "none", iters |-> 0, switches |-> 0]
Inside(at, kind) ==
  [loop |-> kind,
   iters |-> at.iters + (IF kind = "foreach" THEN 1 ELSE 0),
   switches |-> at.switches + (IF kind = "switch" THEN 1 ELSE 0)]

\* The code of a part: of an expression for its value, of one for its effect, of
\* a statement; and the root and the keys of $root[k1]...[kn].
Expr(c, e) == IF e \in Node THEN c.expr[e] ELSE Bail
ExprStmt(c, e) == IF e \in Node THEN c.effect[e] ELSE Bail
Stmt(c, s, at) == IF s \in Node /\ at \in Place THEN c.stmt[<<s, at>>] ELSE Bail
NoPath == [root |-> NoExpr, keys |-> <<>>]
Path(c, e) == IF e \in Node THEN c.path[e] ELSE NoPath

Each(c, es) == FlattenSeq([i \in DOMAIN es |-> Expr(c, es[i])])
EachStmt(c, es) == FlattenSeq([i \in DOMAIN es |-> ExprStmt(c, es[i])])
Block(c, stmts, at) == FlattenSeq([i \in DOMAIN stmts |-> Stmt(c, stmts[i], at)])

----------------------------------------------------------------------------
(* Expressions: the code leaves one value on the stack. *)

ArrayCode(c, items) ==
  <<<<"NewArr">>>> \o
  FlattenSeq([i \in DOMAIN items |->
    IF items[i][1] = NoExpr THEN Expr(c, items[i][2]) \o <<<<"ArrPush">>>>
    ELSE Expr(c, items[i][1]) \o Expr(c, items[i][2]) \o <<<<"ArrSet">>>>])

\* A part alone is not converted to a string.
TemplateCode(c, parts) ==
  IF parts = <<>> THEN Push(StrVal(<<>>))
  ELSE Expr(c, parts[1]) \o
       FlattenSeq([i \in 1..(Len(parts) - 1) |-> Expr(c, parts[i + 1]) \o Op1("Bin", ".")])

UnaryCode(c, op, e) ==
  CASE op = "!" -> Expr(c, e) \o <<<<"Not">>>>
    [] op = "-" -> Expr(c, e) \o <<<<"Neg">>>>
    [] op = "+" -> Push(IntVal(0)) \o Expr(c, e) \o Op1("Bin", "+")
    [] OTHER -> Bail

\* Both operands jump to the constant that decides; else the other constant.
ShortCircuit(c, l, r, jump, decided) ==
  LET rest == Push(BoolVal(~decided)) \o Guard("Jmp", Push(BoolVal(decided)))
      second == Expr(c, r) \o Op1(jump, 2) \o rest
  IN Expr(c, l) \o Op1(jump, Len(second) - 1) \o second

\* Keep the value on the stack if the test jumps, else replace it.
OrElse(c, test, jump, els) ==
  <<<<"Dup">>>> \o test \o Op1(jump, 1) \o
  Guard("Jmp", <<<<"Pop">>>> \o Expr(c, els))

CoalesceCode(c, l, r) ==
  LET quiet == CASE l[1] = "var" -> Op1("LoadQuiet", l[2])
                 [] l[1] = "index" /\ l[2][1] = "var" /\ l[3] # NoExpr ->
                      Expr(c, l[3]) \o Op1("LoadIndexQuiet", l[2][2])
                 [] OTHER -> Bail
  IN quiet \o OrElse(c, <<<<"IsNull">>>>, "JmpIfTrue", r)

BinaryCode(c, op, l, r) ==
  CASE op = "&&" -> ShortCircuit(c, l, r, "JmpIfFalse", FALSE)
    [] op = "||" -> ShortCircuit(c, l, r, "JmpIfTrue", TRUE)
    [] op = "??" -> CoalesceCode(c, l, r)
    [] OTHER -> Expr(c, l) \o Expr(c, r) \o Op1("Bin", op)

Choose(cond, then, els) == cond \o Guard("JmpIfFalse", then \o Op1("Jmp", Len(els))) \o els

CondCode(c, cond, mid, els) ==
  IF mid = NoExpr THEN Expr(c, cond) \o OrElse(c, <<>>, "JmpIfFalse", els)
  ELSE Choose(Expr(c, cond), Expr(c, mid), Expr(c, els))

IncDecStmt(by, e) ==
  IF e[1] # "var" THEN Bail
  ELSE Op1("Load", e[2]) \o Push(IntVal(1)) \o Op1("Bin", IF by > 0 THEN "+" ELSE "-")
       \o Op1("Store", e[2])

IncDecCode(prefix, by, e) ==
  IF e[1] # "var" THEN Bail
  ELSE IF prefix THEN IncDecStmt(by, e) \o Op1("LoadQuiet", e[2])
  ELSE Op1("LoadQuiet", e[2]) \o <<<<"Dup">>>> \o Push(IntVal(1))
       \o Op1("Bin", IF by > 0 THEN "+" ELSE "-") \o Op1("Store", e[2])

\* index_path.
PathCode(c, e) ==
  IF e[1] = "index" /\ e[3] # NoExpr
  THEN LET path == Path(c, e[2])
       IN IF path = NoPath THEN NoPath ELSE [root |-> path.root, keys |-> Append(path.keys, e[3])]
  ELSE IF e[1] \in {"var", "prop"} THEN [root |-> e, keys |-> <<>>] ELSE NoPath

IndexCode(c, e) ==
  LET path == Path(c, e)
      n == Len(path.keys)
  IN IF path = NoPath THEN Bail
     ELSE Each(c, path.keys) \o
          (IF n = 1 THEN Op1("LoadIndex", path.root) ELSE <<<<"LoadPath", path.root, n>>>>)

IssetItem(c, e) ==
  CASE e[1] = "var" -> Op1("IssetSlot", e[2])
    [] e[1] = "prop" -> Op1("IssetThisProp", e[2])
    [] e[1] = "index" /\ e[2][1] \in {"var", "prop"} -> Expr(c, e[3]) \o Op1("IssetIndex", e[2])
    [] OTHER -> Bail

\* All but the last test jump to the constant false behind them.
IssetCode(c, items) ==
  LET n == Len(items)
      tests[k \in 1..n] ==        \* of the last k items
        IF k = 1 THEN IssetItem(c, items[n])
        ELSE Tested(IssetItem(c, items[n - k + 1]), "JmpIfFalse", 1, tests[k - 1])
  IN IF n = 1 THEN IssetItem(c, items[1])
     ELSE tests[n] \o Guard("Jmp", Push(BoolVal(FALSE)))

\* The value of an assignment is read back from its variable.
AssignedValue(c, e, lhs) ==
  IF lhs[1] # "var" THEN Bail ELSE ExprStmt(c, e) \o Op1("LoadQuiet", lhs[2])

ExprCode(c, e) ==
  CASE e[1] = "lit" -> Push(e[2])
    [] e[1] = "var" -> Op1("Load", e[2])
    [] e[1] = "prop" -> Op1("LoadThisProp", e[2])
    [] e[1] = "array" -> ArrayCode(c, e[2])
    [] e[1] = "template" -> TemplateCode(c, e[2])
    [] e[1] = "unary" -> UnaryCode(c, e[2], e[3])
    [] e[1] = "binary" -> BinaryCode(c, e[2], e[3], e[4])
    [] e[1] = "cond" -> CondCode(c, e[2], e[3], e[4])
    [] e[1] = "assign" -> AssignedValue(c, e, e[2])
    [] e[1] = "assignop" -> AssignedValue(c, e, e[3])
    [] e[1] = "incdec" -> IncDecCode(e[2], e[3], e[4])
    [] e[1] = "index" -> IndexCode(c, e)
    [] e[1] = "isset" -> IssetCode(c, e[2])
    [] e[1] = "empty" -> IF e[2][1] = "var" THEN Op1("LoadQuiet", e[2][2]) \o <<<<"Not">>>> ELSE Bail
    [] e[1] = "cast" -> Expr(c, e[3]) \o Op1("Cast", e[2])
    [] e[1] = "call" -> Each(c, e[2]) \o Op1("CallFn", Len(e[2]))
    [] OTHER -> Bail

----------------------------------------------------------------------------
(* Expressions for their effect: the code leaves the stack as it was. *)

AssignStmt(c, lhs, rhs) ==
  CASE lhs[1] = "var" -> Expr(c, rhs) \o Op1("Store", lhs[2])
    [] lhs[1] = "prop" -> Expr(c, rhs) \o Op1("StoreThisProp", lhs[2])
    [] lhs[1] = "index" ->
         LET path == Path(c, lhs[2])
             keys == path.keys \o (IF lhs[3] = NoExpr THEN <<>> ELSE <<lhs[3]>>)
         IN IF path = NoPath THEN Bail
            ELSE Each(c, keys) \o Expr(c, rhs) \o
                 <<<<IF lhs[3] = NoExpr THEN "AppendPath" ELSE "StorePath", path.root, Len(keys)>>>>
    [] OTHER -> Bail

AssignOpStmt(c, op, lhs, rhs) ==
  CASE lhs[1] = "prop" -> Op1("LoadThisProp", lhs[2]) \o Expr(c, rhs) \o Op1("Bin", op)
                          \o Op1("StoreThisProp", lhs[2])
    [] lhs[1] = "var" /\ op = "." -> Expr(c, rhs) \o Op1("ConcatAssign", lhs[2])
    [] lhs[1] = "var" /\ op # "." -> Op1("Load", lhs[2]) \o Expr(c, rhs) \o Op1("Bin", op)
                                     \o Op1("Store", lhs[2])
    [] OTHER -> Bail

EffectCode(c, e) ==
  CASE e[1] = "assign" -> AssignStmt(c, e[2], e[3])
    [] e[1] = "assignop" -> AssignOpStmt(c, e[2], e[3], e[4])
    [] e[1] = "incdec" -> IncDecStmt(e[3], e[4])
    [] OTHER -> Expr(c, e) \o <<<<"Pop">>>>

----------------------------------------------------------------------------
(* Statements.                                                             *)

IfCode(c, arms, els, at) ==
  LET n == Len(arms)
      code[k \in 0..n] ==         \* of the last k arms
        IF k = 0 THEN Block(c, els, at)
        ELSE LET arm == arms[n - k + 1]
             IN Choose(Expr(c, arm[1]), Block(c, arm[2], at), code[k - 1])
  IN code[n]

WhileCode(c, cond, body, at) ==
  LET stmts == Block(c, body, Inside(at, "loop"))
      code == JmpBack(Expr(c, cond) \o Op1("JmpIfFalse", Len(stmts) + 1) \o stmts)
  IN FinishLoop(code, Len(code), 0)

\* Mutant: continue goes to the start of the body, past the test.
ContinueSkipsTest(c, body, cond, at) ==
  LET stmts == Block(c, body, Inside(at, "loop"))
      code == stmts \o Expr(c, cond)
      whole == code \o Op1("JmpIfTrue", -(Len(code) + 1))
  IN FinishLoop(whole, Len(whole), 0)

DoWhileCode(c, body, cond, at) ==
  LET stmts == Block(c, body, Inside(at, "loop"))
      code == stmts \o Expr(c, cond)
      whole == code \o Op1("JmpIfTrue", -(Len(code) + 1))
  IN FinishLoop(whole, Len(whole), Len(stmts))

\* The last of the conditions decides; without one there is no exit.
ForCode(c, init, cond, step, body, at) ==
  LET test == FlattenSeq([i \in DOMAIN cond |->
                Expr(c, cond[i]) \o (IF i < Len(cond) THEN <<<<"Pop">>>> ELSE <<>>)])
      stmts == Block(c, body, Inside(at, "loop"))
      round == stmts \o EachStmt(c, step)
      exit == IF cond = <<>> THEN <<>> ELSE Op1("JmpIfFalse", Len(round) + 1)
      code == JmpBack(test \o exit \o round)
  IN EachStmt(c, init) \o FinishLoop(code, Len(code), Len(test \o exit \o stmts))

NoSlot == ""
ForeachCode(c, array, key, value, body, at) ==
  LET stmts == Block(c, body, Inside(at, "foreach"))
      next == <<"IterNext", value[2], IF key = NoExpr THEN NoSlot ELSE key[2], Len(stmts) + 1>>
      code == JmpBack(<<next>> \o stmts)
  IN IF array[1] # "var" \/ value[1] # "var" \/ key[1] \notin {"none", "var"} THEN Bail
     ELSE <<<<"IterInit", array[2], Len(code)>>>> \o FinishLoop(code, Len(code), 0)

\* Tests in order, then the default or the end; bodies in order.  The subject
\* waits in a slot of its own.
SwitchCode(c, subject, cases, at) ==
  LET n == Len(cases)
      tmp == SwitchSlot[at.switches + 1]
      bodies == [i \in 1..n |-> Block(c, cases[i][2], Inside(at, "switch"))]
      whole == FlattenSeq(bodies)
      start(i) == Len(FlattenSeq(SubSeq(bodies, 1, i - 1)))
      defaults == {i \in 1..n : cases[i][1] = NoExpr}
      otherwise == IF defaults = {} THEN Len(whole) ELSE start(Max(defaults))
      tests[k \in 0..n] ==        \* of the last k cases
        IF k = 0 THEN Op1("Jmp", otherwise)
        ELSE LET i == n - k + 1
             IN IF i \in defaults THEN tests[k - 1]
                ELSE Tested(Op1("LoadQuiet", tmp) \o Expr(c, cases[i][1]) \o Op1("Bin", "=="),
                            "JmpIfTrue", start(i), tests[k - 1])
  IN IF at.switches = Len(SwitchSlot) THEN Bail
     ELSE Expr(c, subject) \o Op1("Store", tmp) \o tests[n] \o FinishLoop(whole, Len(whole), 0)

\* The initialiser runs once: the check jumps over it.
StaticCode(c, x, init) ==
  LET code == (IF init = NoExpr THEN Push(Null) ELSE Expr(c, init)) \o Op1("StaticInit", x)
  IN <<<<"StaticCheck", x, Len(code)>>>> \o code

UnsetItem(c, e) ==
  CASE e[1] = "var" -> Op1("UnsetSlot", e[2])
    [] e[1] = "prop" -> Op1("UnsetThisProp", e[2])
    [] e[1] = "index" /\ e[2][1] \in {"var", "prop"} /\ e[3] # NoExpr ->
         Expr(c, e[3]) \o Op1("UnsetIndex", e[2])
    [] OTHER -> Bail

\* Leaving a foreach gives up its iterator.
BreakCode(levels, at) ==
  CASE levels # 1 \/ at.loop = "none" -> Bail
    [] levels = 1 /\ at.loop = "foreach" -> <<<<"PopIter">>, <<"Break">>>>
    [] OTHER -> <<<<"Break">>>>

\* In a switch, continue means the loop around it: refused.
ContinueCode(levels, at) ==
  IF levels # 1 \/ at.loop \notin {"loop", "foreach"} THEN Bail ELSE <<<<"Continue">>>>

StmtCode(c, s, at) ==
  CASE s[1] = "line" -> Op1("Line", at.iters) \o Stmt(c, s[2], at)
    [] s[1] = "block" -> Block(c, s[2], at)
    [] s[1] = "echo" -> Each(c, s[2]) \o Op1("Echo", Len(s[2]))
    [] s[1] = "expr" -> ExprStmt(c, s[2])
    [] s[1] = "return" -> IF s[2] = NoExpr THEN <<<<"RetNull">>>> ELSE Expr(c, s[2]) \o <<<<"Ret">>>>
    [] s[1] = "if" -> IfCode(c, s[2], s[3], at)
    [] s[1] = "while" -> WhileCode(c, s[2], s[3], at)
    [] s[1] = "dowhile" -> DoWhileCode(c, s[2], s[3], at)
    [] s[1] = "for" -> ForCode(c, s[2], s[3], s[4], s[5], at)
    [] s[1] = "foreach" -> ForeachCode(c, s[2], s[3], s[4], s[5], at)
    [] s[1] = "switch" -> SwitchCode(c, s[2], s[3], at)
    [] s[1] = "break" -> BreakCode(s[2], at)
    [] s[1] = "continue" -> ContinueCode(s[2], at)
    [] s[1] = "unset" -> FlattenSeq([i \in DOMAIN s[2] |-> UnsetItem(c, s[2][i])])
    [] s[1] = "static" -> StaticCode(c, s[2], s[3])
    [] s[1] = "global" -> Op1("BindGlobal", s[2])
    [] OTHER -> Bail

----------------------------------------------------------------------------
(* Bodies. *)

\* A compiler that refuses all, and the one whose parts c compiles.
Refusing ==
  [expr |-> [e \in Node |-> Bail], effect |-> [e \in Node |-> Bail],
   stmt |-> [x \in Node \X Place |-> Bail], path |-> [e \in Node |-> NoPath]]
Deeper(c) ==
  [expr |-> [e \in Node |-> ExprCode(c, e)], effect |-> [e \in Node |-> EffectCode(c, e)],
   stmt |-> [x \in Node \X Place |-> StmtCode(c, x[1], x[2])],
   path |-> [e \in Node |-> PathCode(c, e)]]

\* The compiler of what has depth n.
Compiler(n) ==
  LET level[k \in 0..n] == IF k = 0 THEN Refusing ELSE Deeper(level[k - 1])
  IN level[n]

\* compile.
Compiled(body) == Block(Compiler(Depth), body, OutsideLoops) \o <<<<"RetNull">>>>
Accepted(body) ==
  LET code == Compiled(body) IN \A i \in DOMAIN code : code[i] # Bail[1]
============================================================================
