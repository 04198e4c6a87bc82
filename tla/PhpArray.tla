----------------------------- MODULE PhpArray -----------------------------
(***************************************************************************)
(* The engine's array, Arr of value.rs, and the operations the evaluator   *)
(* builds from it.  An Arr is a counted handle on a block; cloning copies  *)
(* the handle, and the first mutation through a shared handle copies the   *)
(* block (Rc::make_mut).  A block holds the entries in order, a hash index *)
(* from keys to positions, the next integer key and the internal pointer.  *)
(* Operations that reorder entries work on the raw entry list and rebuild  *)
(* the array.  A program's variables each hold one handle.                 *)
(***************************************************************************)
EXTENDS Integers, Sequences, FiniteSets, SequencesExt, Functions

CONSTANTS
  Var,      \* variables that hold arrays
  Block,    \* Rc allocations
  IntKey, StrKey,   \* keys the program names
  Cell,     \* reference cells
  Val,      \* plain values; every other element is a cell
  MaxInt,   \* i64::MAX
  MaxLen, MaxNext, MaxPos   \* bounds: entries, next key, internal pointer

ASSUME EnoughBlocks == Cardinality(Block) >= Cardinality(Var)
ASSUME Bounds == /\ MaxInt \in Nat /\ MaxLen \in Nat
                 /\ MaxNext \in Int /\ MaxPos \in Nat

VARIABLES ptr,      \* which block a variable's handle counts on
          block,    \* the blocks; a block no handle counts on is empty
          heap      \* what each cell holds

vars == <<ptr, block, heap>>

MinInt == -MaxInt - 1
ASSUME KindsDiffer == /\ Cell \cap Val = {} /\ StrKey \cap Int = {}
                      /\ IntKey \subseteq MinInt..MaxInt

Wrap(n) == IF n > MaxInt THEN MinInt ELSE n     \* a release build wraps
Elem == Val \cup Cell
Entry(k, e) == [key |-> k, elem |-> e]
KeysOf(entries) == {entries[i].key : i \in DOMAIN entries}

Default == [entries |-> <<>>, index |-> <<>>, next |-> 0, pos |-> 0]
Data(v) == block[ptr[v]]
Holders(b) == {v \in Var : ptr[v] = b}
Free == {b \in Block : Holders(b) = {}}

TypeOK ==
  /\ ptr \in [Var -> Block] /\ heap \in [Cell -> Val]
  /\ \A b \in Block :
       /\ Len(block[b].entries) <= MaxLen
       /\ \A i \in DOMAIN block[b].entries : block[b].entries[i].elem \in Elem
       /\ \A k \in DOMAIN block[b].index : k \in StrKey \/ k \in MinInt..MaxInt
       /\ block[b].next \in MinInt..MaxInt /\ block[b].pos \in Nat

Init ==
  /\ ptr \in Injection(Var, Block)
  /\ block = [b \in Block |-> Default]
  /\ heap \in [Cell -> Val]

----------------------------------------------------------------------------
(* ArrData. *)

\* reindex: the position of every key.
Reindex(entries) ==
  [k \in KeysOf(entries) |-> CHOOSE i \in DOMAIN entries : entries[i].key = k]

\* insert moves next_int past an integer key, with i64 arithmetic.
Bump(next, k) == IF k \notin StrKey /\ k >= next THEN Wrap(k + 1) ELSE next

Has(d, k) == k \in DOMAIN d.index
At(d, k) == d.entries[d.index[k]].elem

\* insert, when the element is not written through.
Inserted(d, k, e) ==
  [entries |-> IF Has(d, k) THEN [d.entries EXCEPT ![d.index[k]] = Entry(k, e)]
               ELSE Append(d.entries, Entry(k, e)),
   index |-> [x \in DOMAIN d.index \cup {k} |->
                IF x \in DOMAIN d.index THEN d.index[x] ELSE Len(d.entries) + 1],
   next |-> Bump(d.next, k), pos |-> d.pos]

\* Mutant: later entries keep their positions in the index.
RemovedUnindexed(d, k) ==
  [d EXCEPT !.entries = RemoveAt(@, d.index[k]),
            !.index = [x \in DOMAIN @ \ {k} |-> @[x]]]

\* remove.
Removed(d, k) ==
  LET entries == RemoveAt(d.entries, d.index[k])
  IN [entries |-> entries, index |-> Reindex(entries), next |-> d.next, pos |-> d.pos]

\* Inserting the entries one by one into a new Arr; a key that is not in kept is
\* replaced by the next integer key.
Refilled(entries, kept) ==
  LET filled[i \in 0..Len(entries)] ==
        IF i = 0 THEN Default
        ELSE LET d == filled[i - 1]
                 k == entries[i].key
             IN Inserted(d, IF k \in kept THEN k ELSE d.next, entries[i].elem)
  IN filled[Len(entries)]

Rebuilt(entries) == Refilled(entries, KeysOf(entries))  \* insert
Renumbered(entries) == Refilled(entries, StrKey)        \* insert, or push
Listed(entries) == Refilled(entries, {})                \* push (reindex_vals)

----------------------------------------------------------------------------
(* Handles. *)

\* Mutant: a shared block is written in place.
MutateShared(v, d) == block' = [block EXCEPT ![ptr[v]] = d] /\ UNCHANGED ptr

\* Rc::make_mut, then the block becomes d: in place for the only handle, in a
\* new block otherwise.
Mutate(v, d) ==
  IF Holders(ptr[v]) = {v}
  THEN block' = [block EXCEPT ![ptr[v]] = d] /\ UNCHANGED ptr
  ELSE \E b \in Free : ptr' = [ptr EXCEPT ![v] = b] /\ block' = [block EXCEPT ![b] = d]

\* Storing another Arr in the variable: the old handle is dropped, and the
\* last drop frees the block.
Release(v) == [block EXCEPT ![ptr[v]] = IF Holders(ptr[v]) = {v} THEN Default ELSE @]

Copy(v, w) ==       \* $v = $w
  /\ ptr[v] # ptr[w]
  /\ block' = Release(v) /\ ptr' = [ptr EXCEPT ![v] = ptr[w]]
  /\ UNCHANGED heap

Replace(v, d) ==    \* assign_to with a rebuilt array
  /\ Mutate(v, d)
  /\ UNCHANGED heap

Clear(v) == Replace(v, Default)     \* $v = []

----------------------------------------------------------------------------
(* Element operations. *)

\* Arr::insert with a plain value: through the cell of a reference element.
Insert(v, k, x) ==
  LET d == Data(v)
  IN IF Has(d, k) /\ At(d, k) \in Cell
     THEN heap' = [heap EXCEPT ![At(d, k)] = x]
          /\ Mutate(v, [d EXCEPT !.next = Bump(@, k)])
     ELSE Mutate(v, Inserted(d, k, x)) /\ UNCHANGED heap

SetElement(v, k, x) ==      \* $v[k] = x
  /\ Has(Data(v), k) \/ Len(Data(v).entries) < MaxLen
  /\ Insert(v, k, x)

Push(v, x) ==               \* $v[] = x, array_push
  /\ Len(Data(v).entries) < MaxLen /\ Data(v).next < MaxNext
  /\ Insert(v, Data(v).next, x)

Unset(v, k) ==              \* unset($v[k])
  /\ Has(Data(v), k)
  /\ Replace(v, Removed(Data(v), k))

\* get_mut, then the element becomes a new cell with its value: foreach by
\* reference, `$r = &$v[k]`.
Promote(v, k, c) ==
  /\ Has(Data(v), k) /\ At(Data(v), k) \notin Cell
  /\ \A b \in Block : \A i \in DOMAIN block[b].entries : block[b].entries[i].elem # c
  /\ heap' = [heap EXCEPT ![c] = At(Data(v), k)]
  /\ Mutate(v, [Data(v) EXCEPT !.entries[Data(v).index[k]].elem = c])

\* unwrap_element: a cell no other variable or array holds becomes a value.
Demote(v, k) ==
  /\ Has(Data(v), k) /\ At(Data(v), k) \in Cell
  /\ \A b \in Block : b = ptr[v] \/
       \A i \in DOMAIN block[b].entries : block[b].entries[i].elem # At(Data(v), k)
  /\ Mutate(v, [Data(v) EXCEPT !.entries[Data(v).index[k]].elem = heap[At(Data(v), k)]])
  /\ UNCHANGED heap

WriteAlias(c, x) ==         \* an assignment to a variable bound to c
  heap' = [heap EXCEPT ![c] = x] /\ UNCHANGED <<ptr, block>>

----------------------------------------------------------------------------
(* array_byref: the entries are changed first and the array rebuilt after. *)

Pop(v) ==
  /\ Data(v).entries # <<>>
  /\ Replace(v, Rebuilt(Front(Data(v).entries)))

Shift(v) ==
  /\ Data(v).entries # <<>>
  /\ Replace(v, Renumbered(Tail(Data(v).entries)))

Unshift(v, x) ==
  /\ Len(Data(v).entries) < MaxLen
  /\ Replace(v, Renumbered(<<Entry(0, x)>> \o Data(v).entries))

\* sort, rsort, usort make a list; asort, ksort, uasort, uksort keep the keys.
\* The order is the comparison's business.
Sort(v, list) ==
  \E p \in Bijection(DOMAIN Data(v).entries, DOMAIN Data(v).entries) :
    LET sorted == [i \in DOMAIN p |-> Data(v).entries[p[i]]]
    IN Replace(v, IF list THEN Listed(sorted) ELSE Rebuilt(sorted))

\* Mutant: prev subtracts from zero.
PointBefore(v) ==
  \E p \in {0, Data(v).pos + 1, Data(v).pos - 1} :
    p <= MaxPos /\ Replace(v, [Data(v) EXCEPT !.pos = p])

\* reset, end, next, prev (prev of the first entry leaves the array).
Point(v) ==
  LET d == Data(v)
  IN \E p \in {0, IF d.entries = <<>> THEN 0 ELSE Len(d.entries) - 1,
               d.pos + 1, IF d.pos = 0 THEN MaxPos ELSE d.pos - 1} :
       p <= MaxPos /\ Replace(v, [d EXCEPT !.pos = p])

Next ==
  \/ \E v \in Var :
       \/ Clear(v) \/ Pop(v) \/ Shift(v) \/ Point(v)
       \/ \E w \in Var : Copy(v, w)
       \/ \E x \in Val : Push(v, x) \/ Unshift(v, x)
       \/ \E list \in BOOLEAN : Sort(v, list)
       \/ \E k \in IntKey \cup StrKey, x \in Val : SetElement(v, k, x)
       \/ \E k \in DOMAIN Data(v).index :
            Unset(v, k) \/ Demote(v, k) \/ \E c \in Cell : Promote(v, k, c)
  \/ \E c \in Cell, x \in Val : WriteAlias(c, x)

Spec == Init /\ [][Next]_vars

----------------------------------------------------------------------------
(* Properties. *)

\* The hash index and the entry list of every array agree: a lookup finds the
\* position of its key and of nothing else, through every operation that
\* moves positions (entries_mut: "callers that reorder or remove entries must
\* fix the index themselves").
IndexExact ==
  \A b \in Block :
    LET d == block[b]
    IN /\ DOMAIN d.index = KeysOf(d.entries)
       /\ \A k \in DOMAIN d.index : /\ d.index[k] \in DOMAIN d.entries
                                    /\ d.entries[d.index[k]].key = k
       /\ Cardinality(DOMAIN d.index) = Len(d.entries)

\* "Visible semantics stay PHP's value semantics": with counted handles,
\* shared blocks and a hash index, each variable still behaves as an ordered
\* map of its own, whose copies are independent except for references.
Items(entries) == [i \in DOMAIN entries |-> <<entries[i].key, entries[i].elem>>]
Values == [v \in Var |-> [items |-> Items(Data(v).entries),
                          next |-> Data(v).next, pos |-> Data(v).pos]]
OA == INSTANCE OrderedArrays WITH arr <- Values
ImplementsValues == OA!Spec
=============================================================================
