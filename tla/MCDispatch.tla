----------------------------- MODULE MCDispatch -----------------------------
\* A program for Dispatch: a caller of a function that takes references, a
\* caller of one that does not, functions with empty bodies and a caller of
\* one, a class whose parent and trait come later, and two sources with an
\* anonymous class each.
EXTENDS Dispatch, TLC

CONSTANTS f, g, h, k, p, q, u, strlen, A, B, T, e, m, anon1, anon2, a1, a2, a3

Fn(name, byRef, calls) == [name |-> name, byRef |-> byRef, calls |-> calls, empty |-> FALSE]
Empty(name, byRef) == [name |-> name, byRef |-> byRef, calls |-> NoName, empty |-> TRUE]
MCFnDecl == {Fn(f, FALSE, g), Fn(g, TRUE, NoName), Fn(h, FALSE, k), Fn(k, FALSE, strlen),
             Empty(p, FALSE), Empty(q, TRUE), Fn(u, FALSE, p)}
Class(name, parent, trait, methods, typed) ==
  [name |-> name, parent |-> parent, trait |-> trait, methods |-> methods, typed |-> typed]
MCClassDecl == {Class(A, B, T, {}, FALSE), Class(B, NoName, NoName, {m}, TRUE),
                Class(T, NoName, NoName, {m}, FALSE)}
ClassOf(c) == {d \in MCClassDecl : d.name = c}
FnOf(n) == {d \in MCFnDecl : d.name = n}
MCSources ==
  {[fns |-> FnOf(n), classes |-> {}] : n \in {f, g, h, k, q}}
  \cup {[fns |-> {}, classes |-> ClassOf(c)] : c \in {A, B, T}}
  \cup {[fns |-> FnOf(p) \cup FnOf(u), classes |-> {}]}
  \cup {[fns |-> FnOf(h) \cup FnOf(k), classes |-> ClassOf(A) \cup ClassOf(B)]}
MCLoadable == ClassOf(B)
MCAddr == {a1, a2, a3}
\* Classes, and evaluated sources, matter to functions through generations and
\* addresses only: memos of both kinds, or classes and sources, never meet.
Focused ==
  /\ classes = <<>> \/ (source = {} /\ anonNames = <<>>)
  /\ vmCache = <<>> \/ (methodCache = <<>> /\ typedCache = <<>>)
Symmetric == Permutations(MCAddr) \cup Permutations({anon1, anon2})
=============================================================================
