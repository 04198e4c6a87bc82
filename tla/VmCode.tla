------------------------------- MODULE VmCode -------------------------------
(***************************************************************************)
(* The virtual machine on what the compiler makes of bodies of functions   *)
(* and methods.  What the tree walker makes of the same body (TreeWalk) is *)
(* what the calls must come to.                                            *)
(***************************************************************************)
EXTENDS VmChunks

Walker == INSTANCE TreeWalk

\* The places the code reaches from its beginning, in at most so many rounds
\* as it has operations.
Reached(c) ==
  LET After(p) == LET op == c.code[p[1]]
                  IN {<<p[1] + way[1], p[2] - Operands(op) + Results(op), p[3] + way[2]>> :
                        way \in Ways(op)}
      RECURSIVE Grown(_, _, _)
      Grown(known, new, rounds) ==
        LET next == UNION {After(p) : p \in new} \ known
        IN IF next = {} \/ rounds = 0 THEN known ELSE Grown(known \cup next, next, rounds - 1)
  IN Grown({<<1, 0, 0>>}, {<<1, 0, 0>>}, Len(c.code))

\* What is proved of all chunks, for these: no place reached is wrong.
ASSUME ReachedIsVerified == \A c \in Chunks : Verified(c.code, Reached(c))

WalkerState == [vars |-> <<>>, cells |-> <<>>, this |-> Props, out |-> <<>>, quiet |-> 0]

\* What the walker makes of Calls calls of each body: what they return and
\* leave, and the output, cells and properties after the last one.
Meaning ==
  LET noted(acc, r) == <<Append(acc[1], <<r[1], r[2].vars>>), r[2]>>
      call(b, acc) == noted(acc, Walker!RunBody(b, acc[2]))
      visible(acc) == <<acc[1], acc[2].out, acc[2].cells, acc[2].this>>
  IN [b \in Bodies |-> visible(FoldLeft(LAMBDA acc, i : call(b, acc), <<<<>>, WalkerState>>,
                                        [i \in 1..Calls |-> i]))]

\* vm.rs, "the VM changes dispatch, never semantics": after the calls the
\* machine has returned, printed, warned and left in variables, statics,
\* globals and properties what the tree walker would have.
AgreesWithWalker == Done => <<returned, out, cells, this>> = Meaning[chunk.body]
=============================================================================
