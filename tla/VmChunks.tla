------------------------------ MODULE VmChunks ------------------------------
(***************************************************************************)
(* The chunks the machine runs: what the compiler makes of the bodies it   *)
(* accepts.                                                                *)
(***************************************************************************)
EXTENDS VmCompile, VmMachine

CONSTANTS Bodies     \* bodies of functions and methods

IsList(s) == s \in Seq({s[i] : i \in DOMAIN s})

\* What the types of ast.rs say of an expression or a statement, as far as the
\* compiler relies on it.  (The function of CallFn returns its first argument.)
IsTyped(e) ==
  /\ e[1] = "lit" => e[2] \in Literal
  /\ e[1] = "var" => e \in {"var"} \X VarName
  /\ e[1] \in {"static", "global"} => e[2] \in VarName
  /\ e[1] = "binary" => e[2] \in BinOps \cup {"&&", "||", "??"} /\ e[3] \in Node
  /\ e[1] = "assignop" => e[2] \in BinOps /\ e[3] \in Node
  /\ e[1] = "incdec" => e[4] \in Node
  /\ e[1] = "cast" => e[2] \in {"int", "float", "str", "bool"}
  /\ e[1] \in {"assign", "index", "empty"} => e[2] \in Node
  /\ e[1] \in {"array", "template", "isset", "call", "block", "echo", "unset"} => IsList(e[2])
  /\ e[1] \in {"isset", "unset"} => \A i \in DOMAIN e[2] : e[2][i] \in Node
  /\ e[1] \in {"isset", "call"} => e[2] # <<>>
  /\ e[1] = "if" => IsList(e[2]) /\ (\A i \in DOMAIN e[2] : IsList(e[2][i][2])) /\ IsList(e[3])
  /\ e[1] = "while" => IsList(e[3])
  /\ e[1] = "dowhile" => IsList(e[2])
  /\ e[1] = "for" => \A i \in 2..5 : IsList(e[i])
  /\ e[1] = "foreach" => IsList(e[5]) /\ {e[2], e[4]} \subseteq Node
  /\ e[1] = "switch" => IsList(e[3]) /\ \A i \in DOMAIN e[3] : IsList(e[3][i][2])

ASSUME DepthIsNumber == Depth \in Nat
ASSUME SyntaxIsTyped == \A e \in Node : IsTyped(e)
ASSUME LiteralsOfTheCompiler ==
  {Null, BoolVal(TRUE), BoolVal(FALSE), IntVal(0), IntVal(1), StrVal(<<>>)} \subseteq Literal
ASSUME BodiesAreAccepted == \A b \in Bodies : IsList(b) /\ Accepted(b)

\* Values for the constants of VmMachine.
Chunks == {[body |-> b, code |-> Compiled(b)] : b \in Bodies}
AllSlots == VarName \cup Range(SwitchSlot)

ASSUME ChunksAreCompiled == Chunk = Chunks /\ Slot = AllSlots
=============================================================================
