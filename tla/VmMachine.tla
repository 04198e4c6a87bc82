----------------------------- MODULE VmMachine -----------------------------
(***************************************************************************)
(* The virtual machine (run_chunk_inner of eval.rs) on compiled bodies of  *)
(* functions and methods: a chunk is called Calls times, with fresh local  *)
(* variables each time; statics, globals, $this and the output go on.      *)
(* Objects as values, exceptions and calls of user code are not part of    *)
(* it: `f` is a function that notes its arguments and returns the first.   *)
(***************************************************************************)
EXTENDS PhpValues, Functions

CONSTANTS Chunk,     \* compiled bodies; their operations are in the field code
          Slot,      \* names of slots
          VarName,   \* those of them that are variables
          Literal,   \* the values written in the code, and those the properties begin with
          Props,     \* the properties of $this, with their values
          Calls      \* how often the body is called

VARIABLES chunk,
          pc,        \* index into the chunk's code
          stack,     \* operands
          iters,     \* foreach iterators: [entries, next]
          slots, assigned,      \* local variables
          cells,     \* what references name: statics of the function, and globals
          this,      \* the properties of $this
          out,       \* what was printed, warned about or passed to a function
          returned   \* what each finished call returned and left in its variables

env == <<cells, this, out>>
frame == <<slots, assigned>>
fixed == <<chunk, returned>>
vars == <<chunk, pc, stack, iters, slots, assigned, cells, this, out, returned>>

Ref(c) == <<"ref", c>>

Init ==
  /\ chunk \in Chunk
  /\ pc = 1 /\ stack = <<>> /\ iters = <<>>
  /\ slots = [x \in Slot |-> Null] /\ assigned = {}
  /\ cells = <<>> /\ this = Props /\ out = <<>>
  /\ returned = <<>>

Done == Len(returned) = Calls
Op == chunk.code[pc]
At(names) == ~Done /\ Op[1] \in names

----------------------------------------------------------------------------
(* Stack and variables. *)

Arg(n) == stack[Len(stack) - n + 1]       \* n = 1 is the top
Below(n) == SubSeq(stack, 1, Len(stack) - n)
Args(n) == SubSeq(stack, Len(stack) - n + 1, Len(stack))
Replaces(n, v) == stack' = Append(Below(n), v)

Step == pc' = pc + 1
Jumps(d) == pc' = pc + (1 + d)
Says(item) == out' = Append(out, item)

InCell(x) == IsKind(slots[x], "ref")
SlotValue(x) == IF InCell(x) THEN cells[slots[x][2]] ELSE slots[x]
Filled(f, x, v) == [y \in DOMAIN f \cup {x} |-> IF y = x THEN v ELSE f[y]]

RootValue(root) ==
  CASE root[1] = "var" -> SlotValue(root[2])
    [] root[1] = "prop" -> IF root[2] \in DOMAIN this THEN this[root[2]] ELSE Null

\* Mutant: the slot is replaced.
StoreSevers(x, v) ==
  assigned' = assigned \cup {x} /\ slots' = [slots EXCEPT ![x] = v] /\ UNCHANGED cells

\* A slot that holds a cell is written through, never replaced.
StoreSlot(x, v) ==
  /\ assigned' = assigned \cup {x}
  /\ IF InCell(x) THEN cells' = [cells EXCEPT ![slots[x][2]] = v] /\ UNCHANGED slots
     ELSE slots' = [slots EXCEPT ![x] = v] /\ UNCHANGED cells

StoreRoot(root, v) ==
  CASE root[1] = "var" -> StoreSlot(root[2], v) /\ UNCHANGED this
    [] root[1] = "prop" -> this' = Filled(this, root[2], v) /\ UNCHANGED <<frame, cells>>

\* An operation that only computes the value v from n operands.
Computes(n, v) == Replaces(n, v) /\ Step /\ UNCHANGED <<fixed, iters, frame, env>>

----------------------------------------------------------------------------
(* Values. *)

PushConst == At({"Const"}) /\ Computes(0, Op[2])
PushEmptyArray == At({"NewArr"}) /\ Computes(0, EmptyArr)
LoadQuiet == At({"LoadQuiet"}) /\ Computes(0, SlotValue(Op[2]))
LoadThisProp == At({"LoadThisProp"}) /\ Computes(0, RootValue(<<"prop", Op[2]>>))

Load ==
  /\ At({"Load"})
  /\ Replaces(0, SlotValue(Op[2])) /\ Step
  /\ IF Op[2] \in assigned THEN UNCHANGED out ELSE Says(<<"undefined", Op[2]>>)
  /\ UNCHANGED <<fixed, iters, frame, cells, this>>

Dup == At({"Dup"}) /\ Computes(0, Arg(1))
Pop == At({"Pop"}) /\ stack' = Below(1) /\ Step /\ UNCHANGED <<fixed, iters, frame, env>>
Bin == At({"Bin"}) /\ Computes(2, ApplyBin(Op[2], Arg(2), Arg(1)))
Not == At({"Not"}) /\ Computes(1, BoolVal(~ToBool(Arg(1))))
IsNull == At({"IsNull"}) /\ Computes(1, BoolVal(Arg(1) = Null))
CastOp == At({"Cast"}) /\ Computes(1, Cast(Op[2], Arg(1)))
Neg ==
  /\ At({"Neg"})
  /\ LET v == Arg(1)
     IN Computes(1, CASE v = IntVal(MinInt) -> v
                      [] v # IntVal(MinInt) /\ v[1] \in {"int", "float"} -> <<v[1], -v[2]>>
                      [] OTHER -> ApplyBin("-", IntVal(0), v))

ArrPushOp ==
  At({"ArrPush"}) /\ Computes(2, IF IsArr(Arg(2)) THEN ArrPush(Arg(2), Arg(1)) ELSE Arg(2))
ArrSet ==
  /\ At({"ArrSet"})
  /\ Computes(3, IF IsArr(Arg(3)) THEN ArrInsert(Arg(3), NormKey(Arg(2)), Arg(1)) ELSE Arg(3))

IssetSlot ==
  /\ At({"IssetSlot"})
  /\ Computes(0, BoolVal(Op[2] \in assigned /\ SlotValue(Op[2]) # Null))
IssetThisProp ==
  At({"IssetThisProp"}) /\ Computes(0, BoolVal(RootValue(<<"prop", Op[2]>>) # Null))

\* Only a variable's string has offsets, and only those inside it.
Offset(root, key) ==
  LET v == RootValue(root)
      char == StringChar(v[2], IntVal(ToInt(key)))
  IN IF root[1] = "var" /\ IsKind(v, "str") /\ char # StrVal(<<>>) THEN char ELSE Null

IndexValue(root, key) ==
  LET v == RootValue(root)
  IN IF ~IsArr(v) THEN Offset(root, key)
     ELSE IF HasKey(v, NormKey(key)) THEN Elem(v, NormKey(key)) ELSE Null

LoadIndexQuiet == At({"LoadIndexQuiet"}) /\ Computes(1, IndexValue(<<"var", Op[2]>>, Arg(1)))
IssetIndex == At({"IssetIndex"}) /\ Computes(1, BoolVal(IndexValue(Op[2], Arg(1)) # Null))

\* Only a missing key of an array in a variable is warned about.
LoadIndex ==
  /\ At({"LoadIndex"})
  /\ LET v == RootValue(Op[2])
         k == NormKey(Arg(1))
     IN IF Op[2][1] = "var" /\ IsArr(v) /\ ~HasKey(v, k) THEN Says(<<"nokey", k>>)
        ELSE UNCHANGED out
  /\ Replaces(1, IndexValue(Op[2], Arg(1))) /\ Step
  /\ UNCHANGED <<fixed, iters, frame, cells, this>>

\* Only the last key is checked.
LoadPath ==
  /\ At({"LoadPath"})
  /\ LET n == Op[3]
         path == [i \in 1..n |-> NormKey(Args(n)[i])]
         container == ReadPath(RootValue(Op[2]), Front(path))
     IN /\ IF IsArr(container) /\ ~HasKey(container, Last(path)) THEN Says(<<"nokey", Last(path)>>)
           ELSE UNCHANGED out
        /\ Replaces(n, ReadPath(container, <<Last(path)>>))
  /\ Step /\ UNCHANGED <<fixed, iters, frame, cells, this>>

----------------------------------------------------------------------------
(* Stores. *)

Store ==
  /\ At({"Store"})
  /\ StoreSlot(Op[2], Arg(1))
  /\ stack' = Below(1) /\ Step /\ UNCHANGED <<fixed, iters, this, out>>

StoreThisProp ==
  /\ At({"StoreThisProp"})
  /\ StoreRoot(<<"prop", Op[2]>>, Arg(1))
  /\ stack' = Below(1) /\ Step /\ UNCHANGED <<fixed, iters, out>>

ConcatAssign ==
  /\ At({"ConcatAssign"})
  /\ StoreSlot(Op[2], StrVal(ToBytes(SlotValue(Op[2])) \o ToBytes(Arg(1))))
  /\ stack' = Below(1) /\ Step /\ UNCHANGED <<fixed, iters, this, out>>

\* StoreIndex, StorePath, Append, AppendPath and their $this->prop forms.
StorePath ==
  /\ At({"StorePath", "AppendPath"})
  /\ LET n == Op[3]
         path == [i \in 1..n |-> NormKey(Args(n + 1)[i])]
     IN /\ StoreRoot(Op[2], WritePath(RootValue(Op[2]), path, Arg(1), Op[1] = "AppendPath"))
        /\ stack' = Below(n + 1)
  /\ Step /\ UNCHANGED <<fixed, iters, out>>

UnsetIndex ==
  /\ At({"UnsetIndex"})
  /\ LET v == RootValue(Op[2])
     IN IF ~IsArr(v) THEN UNCHANGED <<frame, cells, this>>
        ELSE IF Op[2][1] = "var" /\ InCell(Op[2][2])
        THEN cells' = [cells EXCEPT ![slots[Op[2][2]][2]] = ArrRemove(v, NormKey(Arg(1)))]
             /\ UNCHANGED <<frame, this>>
        ELSE StoreRoot(Op[2], ArrRemove(v, NormKey(Arg(1))))
  /\ stack' = Below(1) /\ Step /\ UNCHANGED <<fixed, iters, out>>

\* Mutant: the value stays behind.
UnsetKeepsValue ==
  /\ At({"UnsetSlot"}) /\ assigned' = assigned \ {Op[2]}
  /\ Step /\ UNCHANGED <<fixed, stack, iters, slots, env>>

UnsetSlot ==
  /\ At({"UnsetSlot"})
  /\ slots' = [slots EXCEPT ![Op[2]] = Null] /\ assigned' = assigned \ {Op[2]}
  /\ Step /\ UNCHANGED <<fixed, stack, iters, env>>

UnsetThisProp ==
  /\ At({"UnsetThisProp"})
  /\ this' = Restrict(this, DOMAIN this \ {Op[2]})
  /\ Step /\ UNCHANGED <<fixed, stack, iters, frame, cells, out>>

\* The slot takes the cell c, which is made with value v if it is new.
BindSlot(x, c, v) ==
  /\ cells' = IF c \in DOMAIN cells THEN cells ELSE Filled(cells, c, v)
  /\ slots' = [slots EXCEPT ![x] = Ref(c)] /\ assigned' = assigned \cup {x}

BindGlobal ==
  /\ At({"BindGlobal"})
  /\ BindSlot(Op[2], <<"global", Op[2]>>, Null)
  /\ Step /\ UNCHANGED <<fixed, stack, iters, this, out>>

StaticCheck ==
  /\ At({"StaticCheck"})
  /\ IF <<"static", Op[2]>> \in DOMAIN cells
     THEN BindSlot(Op[2], <<"static", Op[2]>>, Null) /\ Jumps(Op[3])
     ELSE Step /\ UNCHANGED <<frame, cells>>
  /\ UNCHANGED <<fixed, stack, iters, this, out>>

\* Mutant: the slot is bound to a cell nobody made.
InitForgetsCell ==
  /\ At({"StaticInit"})
  /\ slots' = [slots EXCEPT ![Op[2]] = Ref(<<"static", Op[2]>>)]
  /\ assigned' = assigned \cup {Op[2]}
  /\ stack' = Below(1) /\ Step /\ UNCHANGED <<fixed, iters, cells, this, out>>

\* The initialiser's value goes into a cell of its own, whatever ran meanwhile.
StaticInit ==
  /\ At({"StaticInit"})
  /\ cells' = Filled(cells, <<"static", Op[2]>>, Arg(1))
  /\ slots' = [slots EXCEPT ![Op[2]] = Ref(<<"static", Op[2]>>)]
  /\ assigned' = assigned \cup {Op[2]}
  /\ stack' = Below(1) /\ Step /\ UNCHANGED <<fixed, iters, this, out>>

----------------------------------------------------------------------------
(* Control. *)

Jmp == At({"Jmp"}) /\ Jumps(Op[2]) /\ UNCHANGED <<fixed, stack, iters, frame, env>>

JmpIf ==
  /\ At({"JmpIfFalse", "JmpIfTrue"})
  /\ IF ToBool(Arg(1)) = (Op[1] = "JmpIfTrue") THEN Jumps(Op[2]) ELSE Step
  /\ stack' = Below(1) /\ UNCHANGED <<fixed, iters, frame, env>>

\* A snapshot of the entries; what is no array is warned about and skipped.
IterInit ==
  /\ At({"IterInit"})
  /\ LET v == SlotValue(Op[2])
         undefined == IF Op[2] \in assigned THEN <<>> ELSE <<<<"undefined", Op[2]>>>>
     IN IF IsArr(v)
        THEN iters' = Append(iters, [entries |-> v[2], next |-> 1]) /\ Step /\ UNCHANGED out
        ELSE out' = out \o undefined \o <<<<"notarray">>>> /\ Jumps(Op[3]) /\ UNCHANGED iters
  /\ UNCHANGED <<fixed, stack, frame, cells, this>>

\* Binds the value and then the key, or gives up the iterator and leaves.
IterBind ==
  /\ At({"IterNext"}) /\ Last(iters).next <= Len(Last(iters).entries)
  /\ LET it == Last(iters)
         entry == it.entries[it.next]
         x == Op[2]
         k == Op[3]
         keyed == k \in Slot       \* not so for NoSlot
         Bound(y) == IF keyed /\ y = k THEN entry[1] ELSE entry[2]
         bound == {x, k} \cap Slot
     IN /\ iters' = [iters EXCEPT ![Len(iters)] = [entries |-> it.entries, next |-> it.next + 1]]
        /\ slots' = [y \in Slot |-> IF y \in bound /\ ~InCell(y) THEN Bound(y) ELSE slots[y]]
        /\ cells' = [c \in DOMAIN cells |->
                       IF keyed /\ slots[k] = Ref(c) THEN entry[1]
                       ELSE IF slots[x] = Ref(c) THEN entry[2] ELSE cells[c]]
        /\ assigned' = assigned \cup bound
  /\ Step /\ UNCHANGED <<fixed, stack, this, out>>

\* Mutant: the iterator of a loop that is over stays.
IterDoneKeeps ==
  /\ At({"IterNext"}) /\ Last(iters).next > Len(Last(iters).entries)
  /\ Jumps(Op[4]) /\ UNCHANGED <<fixed, stack, iters, frame, env>>

IterDone ==
  /\ At({"IterNext"}) /\ Last(iters).next > Len(Last(iters).entries)
  /\ iters' = Front(iters) /\ Jumps(Op[4])
  /\ UNCHANGED <<fixed, stack, frame, env>>

PopIter ==
  /\ At({"PopIter"}) /\ iters' = Front(iters) /\ Step
  /\ UNCHANGED <<fixed, stack, frame, env>>

Line == At({"Line"}) /\ Step /\ UNCHANGED <<fixed, stack, iters, frame, env>>

CallFn ==
  /\ At({"CallFn"})
  /\ Says(<<"call", Args(Op[2])>>)
  /\ Replaces(Op[2], Args(Op[2])[1]) /\ Step
  /\ UNCHANGED <<fixed, iters, frame, cells, this>>

Echo ==
  /\ At({"Echo"})
  /\ LET shown == SelectSeq([i \in 1..Op[2] |-> <<"echo", ToBytes(Args(Op[2])[i])>>],
                            LAMBDA item : item[2] # <<>>)
     IN out' = out \o shown
  /\ stack' = Below(Op[2]) /\ Step /\ UNCHANGED <<fixed, iters, frame, cells, this>>

\* The call is over; the next one starts on fresh slots.
Return ==
  /\ At({"Ret", "RetNull"})
  /\ returned' = Append(returned, <<IF Op[1] = "Ret" THEN Arg(1) ELSE Null,
                                    Restrict(slots, assigned \cap VarName)>>)
  /\ pc' = 1 /\ stack' = <<>> /\ iters' = <<>>
  /\ slots' = [x \in Slot |-> Null] /\ assigned' = {}
  /\ UNCHANGED <<chunk, env>>

Next ==
  \/ PushConst \/ PushEmptyArray \/ LoadQuiet \/ LoadThisProp \/ Load \/ Dup \/ Pop \/ Bin
  \/ Not \/ IsNull \/ CastOp \/ Neg \/ ArrPushOp \/ ArrSet \/ IssetSlot \/ IssetThisProp
  \/ LoadIndexQuiet \/ IssetIndex \/ LoadIndex \/ LoadPath
  \/ Store \/ StoreThisProp \/ ConcatAssign \/ StorePath \/ UnsetIndex \/ UnsetSlot
  \/ UnsetThisProp \/ BindGlobal \/ StaticCheck \/ StaticInit
  \/ Jmp \/ JmpIf \/ IterInit \/ IterBind \/ IterDone \/ PopIter \/ Line \/ CallFn \/ Echo
  \/ Return

Spec == Init /\ [][Next]_vars /\ WF_vars(Next)

----------------------------------------------------------------------------
(* What an operation does to the stacks. *)

\* How many operands it takes, and how many values it leaves for them.
Operands(op) ==
  CASE op[1] = "LoadPath" -> op[3]
    [] op[1] \in {"StorePath", "AppendPath"} -> op[3] + 1
    [] op[1] \in {"CallFn", "Echo"} -> op[2]
    [] op[1] = "ArrSet" -> 3
    [] op[1] \in {"Bin", "ArrPush"} -> 2
    [] op[1] \in {"Dup", "Pop", "Not", "IsNull", "Cast", "Neg", "LoadIndexQuiet", "IssetIndex",
                   "LoadIndex", "Store", "StoreThisProp", "ConcatAssign", "UnsetIndex",
                   "StaticInit", "JmpIfFalse", "JmpIfTrue", "Ret"} -> 1
    [] OTHER -> 0
Results(op) ==
  CASE op[1] = "Dup" -> 2
    [] op[1] \in {"Const", "NewArr", "LoadQuiet", "LoadThisProp", "Load", "Bin", "Not", "IsNull",
                   "Cast", "Neg", "ArrPush", "ArrSet", "IssetSlot", "IssetThisProp",
                   "LoadIndexQuiet", "IssetIndex", "LoadIndex", "LoadPath", "CallFn"} -> 1
    [] OTHER -> 0

\* The ways on from an operation: how far, and how many iterators more.
Ways(op) ==
  CASE op[1] \in {"Ret", "RetNull"} -> {}
    [] op[1] = "Jmp" -> {<<1 + op[2], 0>>}
    [] op[1] \in {"JmpIfFalse", "JmpIfTrue"} -> {<<1, 0>>, <<1 + op[2], 0>>}
    [] op[1] = "StaticCheck" -> {<<1, 0>>, <<1 + op[3], 0>>}
    [] op[1] = "IterInit" -> {<<1, 1>>, <<1 + op[3], 0>>}
    [] op[1] = "IterNext" -> {<<1, 0>>, <<1 + op[4], -1>>}
    [] op[1] = "PopIter" -> {<<1, -1>>}
    [] OTHER -> {<<1, 0>>}

\* The operands and iterators an operation needs are there.
Served(op, operands, iterators) ==
  /\ Operands(op) <= operands
  /\ op[1] \in {"IterNext", "PopIter"} => iterators > 0
  /\ op[1] = "Line" => operands = 0 /\ iterators = op[2]

\* What an operation names is there, and its counts are counts.
Proper(op) ==
  /\ op[1] = "Const" => op[2] \in Literal
  /\ op[1] = "Bin" => op[2] \in BinOps
  /\ op[1] = "Cast" => op[2] \in {"int", "float", "str", "bool"}
  /\ op[1] \in {"Load", "LoadQuiet", "Store", "ConcatAssign", "UnsetSlot", "BindGlobal",
                "StaticCheck", "StaticInit", "IssetSlot", "IterInit", "IterNext",
                "LoadIndexQuiet"} => op[2] \in Slot
  /\ op[1] \in {"LoadIndex", "LoadPath", "StorePath", "AppendPath", "UnsetIndex", "IssetIndex"}
       => op[2] \in {"var"} \X Slot \/ op[2][1] = "prop"
  /\ op[1] \in {"LoadPath", "StorePath", "AppendPath"} => op[3] \in Nat
  /\ op[1] \in {"CallFn", "Echo"} => op[2] \in Nat
  /\ op[1] = "CallFn" => op[2] # 0

\* A set of places, each an index with a number of operands and of iterators,
\* that the code begins in, does not leave, and can go on from.
Verified(code, places) ==
  /\ places \subseteq (DOMAIN code) \X Nat \X Nat
  /\ <<1, 0, 0>> \in places
  /\ \A p \in places :
       LET op == code[p[1]] IN
       /\ Proper(op) /\ Served(op, p[2], p[3])
       /\ \A way \in Ways(op) :
            <<p[1] + way[1], p[2] - Operands(op) + Results(op), p[3] + way[2]>> \in places

ASSUME LiteralsAreValues ==
  AreValues(Literal) /\ \A p \in DOMAIN Props : Props[p] \in Literal
\* What the compiler's code has to be for the machine.
CodeIsVerified == \A c \in Chunk : \E places : Verified(c.code, places)

----------------------------------------------------------------------------
(* Properties. *)

\* The operands and iterators an operation takes are there; at every line mark
\* no operand is left over and the open iterators are the enclosing foreach
\* loops: no path of jumps, break or continue leaks one.
StacksBalance == ~Done => Served(Op, Len(stack), Len(iters))

\* A slot that is not assigned reads as null, even where nothing checks it.
UnassignedIsNull == \A x \in Slot \ assigned : slots[x] = Null

TypeOK ==
  /\ pc \in DOMAIN chunk.code /\ assigned \subseteq Slot
  /\ DOMAIN slots = Slot /\ \A x \in Slot : InCell(x) => slots[x][2] \in DOMAIN cells
  /\ \A i \in DOMAIN iters : iters[i].next \in 1..(Len(iters[i].entries) + 1)

\* Jumps lead on: a body that ends for the walker ends for the machine.
EveryCallReturns == <>Done
=============================================================================
