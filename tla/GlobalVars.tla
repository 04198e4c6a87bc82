---------------------------- MODULE GlobalVars ----------------------------
(***************************************************************************)
(* What the global variables of one PHP script are, whatever engine runs   *)
(* it: one mapping from names to values.  The top-level code, the          *)
(* functions it calls and, after it has ended, the shutdown functions all  *)
(* read and write the same mapping, and passing control between them       *)
(* changes no variable.                                                    *)
(***************************************************************************)
CONSTANTS Name,     \* names of global variables
          Val,      \* the values a program assigns
          Null,     \* PHP's null
          Absent    \* not a value: the variable does not exist

VARIABLES g,        \* the mapping
          ctx       \* whose code runs: "top", "callee" or "shutdown"

avars == <<g, ctx>>

Init == g = [n \in Name |-> Absent] /\ ctx = "top"

\* Whoever runs gives a variable a value.
Assign(n, v) == g' = [g EXCEPT ![n] = v] /\ UNCHANGED ctx

\* `global $n;` in a function creates the variable when it does not exist.
Declare(n) ==
  /\ ctx # "top"
  /\ g' = [g EXCEPT ![n] = IF g[n] = Absent THEN Null ELSE g[n]]
  /\ UNCHANGED ctx

\* unset($n) at top level.
Unset(n) == ctx = "top" /\ g' = [g EXCEPT ![n] = Absent] /\ UNCHANGED ctx

Call   == ctx = "top" /\ ctx' = "callee" /\ UNCHANGED g
Return == ctx = "callee" /\ ctx' = "top" /\ UNCHANGED g

\* The script ends: normally, by exit() or by an uncaught exception.
Finish == ctx # "shutdown" /\ ctx' = "shutdown" /\ UNCHANGED g

Next ==
  \/ \E n \in Name : Declare(n) \/ Unset(n) \/ \E v \in Val : Assign(n, v)
  \/ Call \/ Return \/ Finish

Spec == Init /\ [][Next]_avars
===========================================================================
